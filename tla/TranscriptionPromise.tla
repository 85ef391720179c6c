------------------------- MODULE TranscriptionPromise -------------------------
(***************************************************************************)
(* What post-recording transcription promises about one session, seen from *)
(* outside: the user asks, a transcript becomes durable, the request is    *)
(* completed, the transcript is published in the notebook; or the request  *)
(* fails; or the session is erased for good.  No crash, retry or race may  *)
(* take a session back to an earlier point.                                *)
(***************************************************************************)
CONSTANT Session

VARIABLE outcome

Outcome == {"idle", "requested", "transcribed", "completed", "published",
            "failed", "erased"}

\* The outcomes that may directly follow each one.
Follows ==
    [idle        |-> {"requested"},
     requested   |-> {"transcribed", "failed"},
     transcribed |-> {"completed", "failed"},
     completed   |-> {"published"},
     published   |-> {},
     failed      |-> {},
     erased      |-> {}]

PromiseInit == outcome = [s \in Session |-> "idle"]

Advance(s) ==
    \E o \in Follows[outcome[s]] : outcome' = [outcome EXCEPT ![s] = o]

Erase(s) ==
    outcome[s] # "erased" /\ outcome' = [outcome EXCEPT ![s] = "erased"]

PromiseNext == \E s \in Session : Advance(s) \/ Erase(s)

PromiseSpec == PromiseInit /\ [][PromiseNext]_outcome
=============================================================================
