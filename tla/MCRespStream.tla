---------------------------- MODULE MCRespStream ----------------------------
(* Small requests: every command, and each complaint build_command can make. *)
EXTENDS RespStream

MCRequests ==
  { <<>>, <<<<"P">>>>, <<<<"p">>>>, <<<<"P">>, <<"k">>>>, <<<<"k">>>>, <<<<"G", "G">>>>,
    <<<<>>, <<"k">>>>, <<<<"g">>, <<"k">>>>, <<<<"G">>, <<>>>>, <<<<"G">>, <<"k", "k">>>>,
    <<<<"D">>, <<"*">>>>, <<<<"E">>, <<"$">>>>, <<<<"T">>, <<"LF">>>>, <<<<"T">>>>,
    <<<<"S">>, <<"k">>, <<"CR", "LF">>>>, <<<<"S">>, <<"k", "k">>, <<"k">>>>,
    <<<<"S">>, <<"k">>, <<>>>>, <<<<"X">>, <<"k">>, <<"2", "1">>>>,
    <<<<"X">>, <<"k">>, <<"2", "2">>>>, <<<<"x">>, <<"k">>, <<"k">>>>,
    <<<<"X">>, <<"k">>>> }

MCByte == {"*", "$", "CR", "LF", "0", "1", "2", "3", "9", "G", "k"}
=============================================================================
