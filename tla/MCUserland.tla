------------------------------ MODULE MCUserland ------------------------------
(* An instance of Userland. *)
EXTENDS Userland

MCLines ==
    {<<<<"cat", "a">>, <<"count_lines">>, <<"count_lines", ">", "out">>>>,
     <<<<"hello_world">>, <<"count_lines", ">", "out">>>>,
     <<<<"missing">>, <<"count_lines", ">", "out">>>>,
     <<<<"hello_world">>, <<"missing">>>>,
     <<<<"count_lines", "<", "a", ">", "out">>>>,
     <<<<"count_lines", "<", "b", ">", "out">>>>,
     <<<<"cat", "out", ">", "a">>>>,
     <<<<"hello_world", ">", "out">>, <<"count_lines">>>>,
     <<<<"pipetest">>>>, <<<<"run_pipe_test">>>>, <<<<"filetest_simple">>>>, <<<<"huge_write">>>>,
     <<<<"usertests">>>>, <<<<"forktree">>>>, <<<<"until_timeout", "store_fault">>>>, <<<<"until_timeout", "priv_csr">>>>,
     <<<<"priv_inst">>>>,
     <<<<"until_timeout", "infloop">>>>}
=============================================================================
