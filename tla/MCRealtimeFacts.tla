-------------------------- MODULE MCRealtimeFacts --------------------------
(* The instances of RealtimeFacts, RealtimeProjection and SegmentAssembler   *)
(* that TLC checks.  Of the facts: one auxiliary stream and two stretches of *)
(* time, so that a revision may move a source or a fact to where the other   *)
(* is, or away from it.  Of the projection: a source and a growing           *)
(* translation.                                                              *)
(* Of the assembler: two people of a language each, and tokens that say      *)
(* neither.  They meet in the rows, which each has in its own way, so a      *)
(* behaviour here is one of one of them.                                     *)
EXTENDS RealtimeFacts, RealtimeProjection, TLC

CONSTANTS langA, langB, early, late

OneTarget == [f \in Fact |-> langB]
TwoStretches == {{early}, {late}}

(* Ticks are compared for equality alone.                                   *)
Ticks == Permutations({early, late})

CONSTANTS ann, bo, None, Voice, MaxWord, MaxGuess, MaxOut, MaxSequence   \* of SegmentAssembler
VARIABLES asm, rows, spoken, alive
assemblerVars == <<asm, rows, spoken, alive>>
Assembler == INSTANCE SegmentAssembler WITH MaxRow <- MaxSequence

OneEachOrUnsaid == {<<langA, ann>>, <<langB, bo>>, <<None, None>>}

VARIABLE part       \* the one this behaviour is about

TextInit == part \in {"facts", "document", "words"}
            /\ FactsInit /\ ProjectionInit /\ Assembler!AssemblerInit
TextNext == \/ part = "facts" /\ FactsNext
               /\ UNCHANGED <<projectionVars, assemblerVars, part>>
            \/ part = "document" /\ ProjectionNext
               /\ UNCHANGED <<vars, assemblerVars, part>>
            \/ part = "words" /\ Assembler!AssemblerNext
               /\ UNCHANGED <<vars, projectionVars, part>>
TextSpec == TextInit /\ [][TextNext]_<<vars, projectionVars, assemblerVars, part>>

(* What SegmentAssembler says of the words; see there.                      *)
WordsAreKept == Assembler!WordsAreKept
=============================================================================
