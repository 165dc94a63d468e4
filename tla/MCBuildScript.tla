------------------------------ MODULE MCBuildScript ------------------------------
(* Archives with the compiler before and after the core library, with a       *)
(* second .wasm file, without the compiler, and without the core library.     *)
EXTENDS BuildScript

MCArchives == {<<"other", "wasm", "core">>, <<"core", "wasm", "wasm">>, <<"core", "other">>,
               <<"wasm", "other">>}
================================================================================
