------------------------- MODULE MCAsyncTranscription -------------------------
(* Small instances of AsyncTranscription.                                    *)
EXTENDS AsyncTranscription

MCPriority == {10}
MCRetryPolicy == {1, 3}
=============================================================================
