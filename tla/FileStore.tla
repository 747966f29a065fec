------------------------------- MODULE FileStore ------------------------------
(***************************************************************************)
(* What the file system promises to programs: named files, each a sequence *)
(* of words, and open files with an offset of their own.  A crash between  *)
(* two calls loses the open files and nothing else.                        *)
(***************************************************************************)
EXTENDS Integers, Sequences, SequencesExt

CONSTANTS Names, Handles, Words, Slices, NoFile, NoHandle

VARIABLE state  \* a record of
                \*   files     the contents by name; NoFile without such a file
                \*   listing   the names in the order of their creation
                \*   handles   file, offset and rights of the open files
                \*   returned  what the last call has returned

\* The sizes of the parts of a buffer, added up.
Length(slices) == FoldLeft(LAMBDA a, b : a + b, 0, slices)

NewHandle(n, r, w) == [file |-> n, offset |-> 0, readable |-> r, writable |-> w]

(* The calls, from the store s to the store t. *)

Open(s, t, h, n, r, w) ==
    /\ s.handles[h] = NoHandle /\ s.files[n] # NoFile
    /\ \E contents \in {s.files[n], <<>>} :
           t = [s EXCEPT !.files[n] = contents, !.handles[h] = NewHandle(n, r, w), !.returned = <<"open">>]

OpenToWrite(s, t, h, n, r) ==
    /\ s.handles[h] = NoHandle
    /\ t = [s EXCEPT !.files[n] = <<>>, !.handles[h] = NewHandle(n, r, TRUE), !.returned = <<"create">>,
                     !.listing = IF s.files[n] = NoFile THEN Append(@, n) ELSE @]

\* As many words as there are, up to the length of the buffer.
Read(s, t, h, len) ==
    LET at == s.handles[h].offset
        words == SelectSeq([k \in 1 .. len |-> at + k], LAMBDA k : k \in DOMAIN s.files[s.handles[h].file])
    IN  /\ s.handles[h].readable
        /\ t = [s EXCEPT !.handles[h].offset = at + Len(words),
                         !.returned = <<"read", [k \in DOMAIN words |-> s.files[s.handles[h].file][words[k]]]>>]

\* The file grows as needed; a gap reads as zeros.
Write(s, t, h, len, x) ==
    LET at == s.handles[h].offset
        put(old, k) == IF k \in (at + 1) .. (at + len) THEN x ELSE IF k \in DOMAIN old THEN old[k] ELSE 0
    IN  /\ s.handles[h].writable
        /\ t = [s EXCEPT !.handles[h].offset = at + len, !.returned = <<"write", len>>,
                         !.files[s.handles[h].file] =
                             [k \in 1 .. (IF at + len < Len(@) THEN Len(@) ELSE at + len) |-> put(@, k)]]

\* A call the rights of the open file do not allow, and a file that is not there.
Refused(s, t, h) == ~(s.handles[h].readable /\ s.handles[h].writable) /\ t = [s EXCEPT !.returned = <<"fail">>]
NotFound(s, t, n) == s.files[n] = NoFile /\ t = [s EXCEPT !.returned = <<"fail">>]

Close(s, t, h) == t = [s EXCEPT !.handles[h] = NoHandle, !.returned = <<"close">>]

\* A program is loaded, the names are listed.
Load(s, t, n) == s.files[n] # NoFile /\ t = [s EXCEPT !.returned = <<"load", s.files[n]>>]
List(s, t) == t = [s EXCEPT !.returned = <<"list", s.listing>>]

Crash(s, t) == t = [s EXCEPT !.handles = [h \in Handles |-> NoHandle], !.returned = <<"reboot">>]

\* What the open file h is used for.
Use(s, t, h) ==
    \/ \E sl \in Slices : Read(s, t, h, Length(sl))
    \/ \E sl \in Slices, x \in Words : Write(s, t, h, Length(sl), x)
    \/ Refused(s, t, h)
    \/ Close(s, t, h)

Step(s, t) ==
    \/ \E h \in Handles, n \in Names, r, w \in BOOLEAN : Open(s, t, h, n, r, w) \/ OpenToWrite(s, t, h, n, r)
    \/ \E h \in Handles : s.handles[h] # NoHandle /\ Use(s, t, h)
    \/ \E n \in Names : Load(s, t, n) \/ NotFound(s, t, n)
    \/ List(s, t)
    \/ Crash(s, t)

Spec == [][\E s \in {state}, t \in {state'} : Step(s, t)]_state
=============================================================================
