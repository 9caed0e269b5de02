---------------------------- MODULE MCLogStream ----------------------------
(* Model-checking instances of LogStream.                                    *)
EXTENDS LogStream
=============================================================================
