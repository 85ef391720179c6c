-------------------------- MODULE SegmentAssembler --------------------------
(***************************************************************************)
(* RealtimeUtteranceAssembler and persist_assembled_utterances             *)
(* (vt-ffi/src/notebook_capture_api.rs) for a capture with two languages,  *)
(* whose one stream carries the words and their translations together.     *)
(*                                                                         *)
(* A response brings words that are final, which the provider never takes  *)
(* back, and its whole present guess of the words after them.  The         *)
(* assembler cuts them into segments where the language or the speaker of  *)
(* final words changes, attaches translations by the identity they name,   *)
(* and writes what became dirty as rows; an endpoint, a reconnect or the   *)
(* end of the stream finalizes every segment and starts over.              *)
(*                                                                         *)
(* Words are numbered as they are spoken, times are left out.              *)
(***************************************************************************)
EXTENDS Naturals, Sequences, FiniteSets, SequencesExt

CONSTANTS Lang,        \* the two selected languages
          None,        \* no language, no speaker ("und", or not said)
          Voice,       \* what tokens say of their source: <<language, speaker>>
          MaxWord,     \* source words of a behaviour
          MaxGuess,    \* words of a guess
          MaxOut,      \* final words of translation
          MaxRow       \* rows, the withdrawn ones included

VARIABLES
    asm,     \* the assembler: segments, latest_original_segment,
             \* latest_translation_segment
    rows,    \* the session's rows, by sequence; there are as many as next_sequence
    spoken,  \* final source words, and final translated ones (history)
    alive    \* FALSE once the store has refused a write

assemblerVars == <<asm, rows, spoken, alive>>

NoLane == [said |-> <<>>, tail |-> <<>>, lang |-> None, tailLang |-> None, mixed |-> FALSE]
NoRow == [words |-> <<>>, lang |-> None, complete |-> FALSE,
          out |-> <<>>, outLang |-> None, outComplete |-> FALSE]
NewSegment(sequence) ==
    [sequence |-> sequence, source |-> NoLane, translated |-> NoLane,
     who |-> None, tailWho |-> None, mixedWho |-> FALSE,
     langHint |-> None, tailLangHint |-> None, whoHint |-> None, tailWhoHint |-> None,
     shown |-> None, saved |-> FALSE, complete |-> FALSE, dirty |-> FALSE, outDirty |-> FALSE]

NoSegments == [segments |-> <<>>, latest |-> 0, latestOut |-> 0]

AssemblerInit ==
    /\ asm = NoSegments /\ rows = <<>>
    /\ spoken = [source |-> 0, out |-> 0]
    /\ alive = TRUE

-----------------------------------------------------------------------------
(* LaneRevision.                                                           *)
Differ(a, b) == a # None /\ b # None /\ a # b
Or(a, b) == IF a # None THEN a ELSE b
Certain(lane) == IF lane.mixed THEN None ELSE lane.tailLang
Empty(lane) == lane.said = <<>> /\ lane.tail = <<>>

Guessed(lane) == lane.tail # <<>> \/ lane.tailLang # None \/ lane.mixed
Withdrawn(lane) == [lane EXCEPT !.tail = <<>>, !.tailLang = None, !.mixed = FALSE]
Taken(lane) == [lane EXCEPT !.said = <<>>, !.lang = None]

Pushed(lane, word, final, lang) ==
    IF final
    THEN [lane EXCEPT !.said = Append(@, word), !.lang = Or(lang, @)]
    ELSE [lane EXCEPT !.tail = Append(@, word), !.tailLang = Or(@, lang),
                      !.mixed = @ \/ Differ(lane.tailLang, lang)]

-----------------------------------------------------------------------------
(* RealtimeSegmentRevision.                                                *)

(* Mutant: a row whose whole guess was withdrawn is not looked at again.   *)
BegunQuietly(s) ==
    [s EXCEPT !.source = Withdrawn(@), !.translated = Withdrawn(@),
              !.tailWho = None, !.mixedWho = FALSE, !.tailLangHint = None, !.tailWhoHint = None]

(* begin_response_revision: the guess is withdrawn before the next one.    *)
Begun(s) ==
    [s EXCEPT !.source = Withdrawn(@), !.translated = Withdrawn(@),
              !.tailWho = None, !.mixedWho = FALSE, !.tailLangHint = None, !.tailWhoHint = None,
              !.dirty = @ \/ Guessed(s.source),
              !.outDirty = @ \/ Guessed(s.translated)
                             \/ (Guessed(s.source) /\ s.translated.said # <<>>)]

StableLang(s) == Or(s.source.lang, s.langHint)
MatchingLang(s) == Or(StableLang(s), Or(Certain(s.source), s.tailLangHint))
MatchingWho(s) ==
    Or(Or(s.who, s.whoHint), Or(IF s.mixedWho THEN None ELSE s.tailWho, s.tailWhoHint))

(* pending_source_matches_committed_identity.                              *)
GuessFits(s) ==
    /\ StableLang(s) # None => ~s.source.mixed /\ ~Differ(StableLang(s), Certain(s.source))
    /\ Or(s.who, s.whoHint) # None =>
         ~s.mixedWho /\ ~Differ(Or(s.who, s.whoHint), s.tailWho)

(* assemble_segment: what a segment is as a row.                           *)
Words(s) == s.source.said \o (IF GuessFits(s) THEN s.source.tail ELSE <<>>)
OutLang(s) == Or(s.translated.lang, Certain(s.translated))
Pairable(s) == StableLang(s) # None /\ OutLang(s) # None /\ OutLang(s) # StableLang(s)
OutWords(s) ==
    IF Words(s) = <<>> \/ ~Pairable(s) THEN <<>>
    ELSE s.translated.said \o (IF Differ(s.translated.lang, Certain(s.translated)) THEN <<>>
                                                                    ELSE s.translated.tail)
IsWhole(s) == s.complete /\ s.source.said # <<>> /\ s.source.tail = <<>>
OutIsWhole(s) ==
    OutWords(s) # <<>> /\ s.complete /\ s.translated.said # <<>> /\ s.translated.tail = <<>>

-----------------------------------------------------------------------------
(* apply_tokens: first every source token of the response, then every      *)
(* translation, which the segments must be there for.                      *)

Size(a) == Len(a.segments)
Created(a) ==
    [a EXCEPT !.segments = Append(@, NewSegment(
        IF @ = <<>> THEN Len(rows) + 1 ELSE @[Len(@)].sequence + 1))]
Closed(a, i) ==
    [a EXCEPT !.segments[i].complete = TRUE, !.segments[i].dirty = TRUE,
              !.segments[i].outDirty = TRUE]

Current(a) == IF a.latest # 0 /\ ~a.segments[a.latest].complete THEN a.latest ELSE 0
Emptied(a, who) ==
    {i \in 1..Size(a) : /\ who # None /\ ~a.segments[i].complete /\ Empty(a.segments[i].source)
                        /\ MatchingWho(a.segments[i]) = who}

(* source_segment_for_token, with the assembler it leaves.                 *)
Chosen(a, t) ==
    LET i == Current(a) IN
    IF i = 0
    THEN IF Emptied(a, t.who) # {}
         THEN [to |-> CHOOSE k \in Emptied(a, t.who) : \A m \in Emptied(a, t.who) : m <= k,
               of |-> a]
         ELSE [to |-> Size(a) + 1, of |-> Created(a)]
    ELSE IF /\ t.final /\ ~Empty(a.segments[i].source)
            /\ Differ(StableLang(a.segments[i]), t.lang) \/ Differ(a.segments[i].who, t.who)
         THEN [to |-> Size(a) + 1, of |-> Created(Closed(a, i))]
         ELSE [to |-> i, of |-> a]

(* apply_original_token.                                                   *)
HeardToken(s, t) ==
    [s EXCEPT !.source = Pushed(@, t.word, t.final, t.lang),
              !.who = IF t.final THEN Or(t.who, @) ELSE @,
              !.tailWho = IF t.final THEN @ ELSE Or(@, t.who),
              !.mixedWho = @ \/ (~t.final /\ Differ(s.tailWho, t.who)),
              !.dirty = TRUE]
ApplySource(a, t) ==
    LET c == Chosen(a, t)
    IN  [c.of EXCEPT !.segments[c.to] = HeardToken(@, t), !.latest = c.to]

(* translation_segment: the only segment the token's identity allows, or,  *)
(* when it is complete, the next of those it allows.                       *)
Compatible(a, t) ==
    {i \in 1..Size(a) : /\ ~Empty(a.segments[i].source)
                        /\ ~Differ(MatchingWho(a.segments[i]), t.who)
                        /\ ~Differ(MatchingLang(a.segments[i]), t.from)}
Attached(a, t) ==
    LET all == Compatible(a, t)
        later == {i \in all : a.latestOut # 0 /\ i > a.latestOut}
        First(of) == CHOOSE i \in of : \A k \in of : i <= k
    IN  IF Cardinality(all) = 1 THEN First(all)
        ELSE IF all = {} \/ t.who = None \/ t.from = None THEN 0
        ELSE IF a.latestOut \in all THEN a.latestOut
        ELSE IF later # {} THEN First(later)
        ELSE First(all)

(* apply_translation_token.                                                *)
Translated(s, t) ==
    [s EXCEPT !.translated = Pushed(@, t.word, t.final, t.lang),
              !.langHint = IF t.final THEN Or(t.from, @) ELSE @,
              !.tailLangHint = IF t.final THEN @ ELSE Or(t.from, @),
              !.whoHint = IF t.final THEN Or(t.who, @) ELSE @,
              !.tailWhoHint = IF t.final THEN @ ELSE Or(t.who, @),
              !.dirty = @ \/ (/\ t.final /\ t.from # None /\ s.source.lang = None
                              /\ s.langHint # t.from),
              !.outDirty = TRUE]
ApplyTranslation(a, t) ==
    LET i == Attached(a, t)
    IN  IF i = 0 THEN a
        ELSE [a EXCEPT !.segments[i] = Translated(@, t), !.latestOut = i]

Begin(a) == [a EXCEPT !.segments = FoldLeft(LAMBDA done, s : Append(done, Begun(s)), <<>>, @)]
Applied(sources, translations) ==
    FoldLeft(ApplyTranslation, FoldLeft(ApplySource, Begin(asm), sources), translations)

-----------------------------------------------------------------------------
(* take_dirty_updates and persist_assembled_utterances.                    *)

(* A segment all of whose words are a guess is held back, unless it is     *)
(* complete or was a row before.                                           *)
Published(s) ==
    /\ s.dirty \/ s.outDirty
    /\ s.complete \/ StableLang(s) # None \/ s.shown # None \/ s.saved
    /\ Words(s) # <<>> \/ s.saved \/ s.shown # None

(* upsert_utterance: a language once known is kept, and takes the place of *)
(* a translation that is not final.                                        *)
RowLang(row, s) == Or(StableLang(s), row.lang)
Upserted(row, s) ==
    IF row.complete THEN row
    ELSE LET cleared == row.outLang = RowLang(row, s) /\ ~row.outComplete
         IN  [row EXCEPT !.words = Words(s), !.lang = RowLang(row, s), !.complete = IsWhole(s),
                         !.out = IF cleared THEN <<>> ELSE @,
                         !.outLang = IF cleared THEN None ELSE @]

(* The final source of a row is only replaced by itself.                   *)
SourceRefused(row, s) ==
    /\ row.complete
    /\ \/ Words(s) # row.words \/ ~IsWhole(s)
       \/ Differ(StableLang(s), row.lang)

(* upsert_translation_variant: a final translation outlasts a guess and a  *)
(* withdrawal; another final one is refused, and so is the source's own    *)
(* language.                                                               *)
OutRefused(row, s) ==
    /\ OutWords(s) # <<>>
    /\ \/ row.words # <<>> /\ OutLang(s) = row.lang
       \/ row.outComplete /\ OutIsWhole(s) /\ OutLang(s) = row.outLang /\ OutWords(s) # row.out
WithOut(row, s) ==
    IF row.outComplete THEN row
    ELSE IF OutWords(s) # <<>>
         THEN [row EXCEPT !.out = OutWords(s), !.outLang = OutLang(s), !.outComplete = OutIsWhole(s)]
    ELSE IF s.shown # None THEN [row EXCEPT !.out = <<>>, !.outLang = None]
    ELSE row

(* remove_partial_utterance, with the translation withdrawn beside it.     *)
Withdraws(s) == s.saved /\ Words(s) = <<>>
RowOf(s) == IF s.sequence <= Len(rows) THEN rows[s.sequence] ELSE NoRow
SourceWritten(s) ==
    IF Withdraws(s) THEN [RowOf(s) EXCEPT !.words = <<>>]
    ELSE IF s.dirty \/ ~s.saved THEN Upserted(RowOf(s), s)
    ELSE RowOf(s)
Written(s) == IF s.outDirty THEN WithOut(SourceWritten(s), s) ELSE SourceWritten(s)
SourceIsRefused(s) ==
    \/ Withdraws(s) /\ RowOf(s).complete
    \/ ~Withdraws(s) /\ (s.dirty \/ ~s.saved) /\ SourceRefused(RowOf(s), s)
Refused(s) == SourceIsRefused(s) \/ (s.outDirty /\ OutRefused(SourceWritten(s), s))
RowAfter(s) ==
    LET row == IF SourceIsRefused(s) THEN RowOf(s)
               ELSE IF Refused(s) THEN SourceWritten(s) ELSE Written(s)
    IN  IF Withdraws(s) /\ row.out = <<>> THEN NoRow ELSE row

(* record_persisted, record_translation_persisted, record_partial_removed; *)
(* retire_source_segment when a final translation keeps the row.           *)
Settled(s) == [s EXCEPT !.dirty = FALSE, !.outDirty = FALSE]
Recorded(s) ==
    LET shown == IF ~s.outDirty THEN s.shown
                 ELSE IF OutWords(s) # <<>> THEN OutLang(s) ELSE None
    IN  IF ~Published(s) THEN Settled(s)
        ELSE IF ~Withdraws(s) THEN [Settled(s) EXCEPT !.saved = TRUE, !.shown = shown]
        ELSE IF RowAfter(s) = NoRow THEN [Settled(s) EXCEPT !.saved = FALSE, !.shown = None]
        ELSE IF RowAfter(s).outComplete
             THEN [Settled(s) EXCEPT !.saved = FALSE, !.shown = None, !.complete = TRUE]
        ELSE [Settled(s) EXCEPT !.shown = shown]

Retires(s) == Published(s) /\ Withdraws(s) /\ RowAfter(s) # NoRow /\ RowAfter(s).outComplete
Recall(a, i) == IF i # 0 /\ Retires(a.segments[i]) THEN 0 ELSE i

(* The rows of a, written in order; the first refused one ends the group.  *)
Persist(a) ==
    LET due == {i \in 1..Size(a) : Published(a.segments[i])}
        reached == {i \in due : \A j \in due : j < i => ~Refused(a.segments[j])}
        size == IF a.segments = <<>> THEN Len(rows) ELSE a.segments[Size(a)].sequence
        Of(n) == {i \in reached : a.segments[i].sequence = n}
    IN  /\ alive' = ~\E i \in due : Refused(a.segments[i])
        /\ rows' = [n \in 1..size |->
             IF Of(n) # {} THEN RowAfter(a.segments[CHOOSE i \in Of(n) : TRUE])
             ELSE IF n <= Len(rows) THEN rows[n] ELSE NoRow]

-----------------------------------------------------------------------------
(* Mutant: the guess that no longer fits stays where it was.               *)
DetachedNever(a) == a

(* finalize: a guess that contradicts its segment's identity becomes a     *)
(* segment of its own, and every segment with text is complete.            *)
Detached(a) ==
    LET loose == {i \in 1..Size(a) : a.segments[i].source.tail # <<>> /\ ~GuessFits(a.segments[i])}
        left == [i \in 1..Size(a) |->
            IF i \notin loose THEN a.segments[i]
            ELSE [a.segments[i] EXCEPT !.source = Withdrawn(@), !.translated = Withdrawn(@),
                     !.tailWho = None, !.mixedWho = FALSE, !.tailLangHint = None,
                     !.tailWhoHint = None, !.dirty = TRUE, !.outDirty = TRUE]]
        Apart(b, i) ==
            LET s == a.segments[i]
                new == Created(b)
            IN  [new EXCEPT !.segments[Size(new)] =
                   [@ EXCEPT !.source = Taken(s.source), !.translated = Taken(s.translated),
                             !.tailWho = s.tailWho, !.mixedWho = s.mixedWho,
                             !.tailLangHint = s.tailLangHint, !.tailWhoHint = s.tailWhoHint,
                             !.complete = TRUE, !.dirty = TRUE, !.outDirty = TRUE]]
    IN  FoldLeft(Apart, [a EXCEPT !.segments = left], SetToSortSeq(loose, <))

Finalized(a) ==
    LET d == Detached(a)
        Ends(s) == (~Empty(s.source) \/ ~Empty(s.translated)) /\ ~s.complete
    IN  [d EXCEPT !.segments = [i \in 1..Size(d) |->
            IF Ends(d.segments[i])
            THEN [d.segments[i] EXCEPT !.complete = TRUE, !.dirty = TRUE, !.outDirty = TRUE]
            ELSE d.segments[i]]]

(* Tokens: the next final word if any, then a guess of what follows it,    *)
(* each of some voice; a translation names the voice it is of.             *)
SourceToken(word, final, voice) ==
    [word |-> word, final |-> final, lang |-> voice[1], who |-> voice[2]]
OutToken(word, final, voice, lang) ==
    [word |-> word, final |-> final, from |-> voice[1], who |-> voice[2], lang |-> lang]

Finals == {<<>>} \cup
    {<<SourceToken(spoken.source + 1, TRUE, v)>> : v \in {v \in Voice : spoken.source < MaxWord}}
Guesses(after) ==
    {[i \in 1..n |-> SourceToken(after + i, FALSE, vs[i])] :
        <<n, vs>> \in UNION {{n} \X [1..n -> Voice] : n \in {n \in 0..MaxGuess : after + n <= MaxWord}}}
OutTokens(final) ==
    {<<>>} \cup
    {<<OutToken(spoken.out + 1, final, v, l)>> :
        <<v, l>> \in {<<v, l>> \in Voice \X Lang : v[1] # l /\ spoken.out < MaxOut}}

(* One turn of the collector for the canonical stream's tokens.            *)
Respond ==
    /\ alive /\ Len(rows) < MaxRow
    /\ \E finals \in Finals, outs \in OutTokens(TRUE) :
       \E guess \in Guesses(spoken.source + Len(finals)), outGuess \in OutTokens(FALSE) :
         /\ outs = <<>> \/ outGuess = <<>>
         /\ LET a == Applied(finals \o guess, outs \o outGuess) IN
            /\ Persist(a)
            /\ asm' = [segments |-> [i \in 1..Size(a) |-> Recorded(a.segments[i])],
                       latest |-> Recall(a, a.latest), latestOut |-> Recall(a, a.latestOut)]
         /\ spoken' = [source |-> spoken.source + Len(finals), out |-> spoken.out + Len(outs)]

(* Endpoint, Finalized, Finished, Reconnecting, InputDiscontinuity, Error: *)
(* what was only guessed at has been spoken; finalize, persist, advance.   *)
Finalize ==
    /\ alive /\ asm.segments # <<>>
    /\ Persist(Finalized(asm))
    /\ asm' = NoSegments
    /\ spoken' = [spoken EXCEPT !.source = @ +
         Cardinality(UNION {ToSet(asm.segments[i].source.tail) : i \in 1..Size(asm)})]

AssemblerNext == Respond \/ Finalize
AssemblerSpec == AssemblerInit /\ [][AssemblerNext]_assemblerVars

-----------------------------------------------------------------------------
(* Between responses every row of the present segments is what its segment *)
(* says, with nothing withdrawn left in it; and what is settled is whole.  *)
RowIsItsSegment(s) ==
    LET row == RowOf(s) IN
    /\ row.words = IF s.saved THEN Words(s) ELSE <<>>
    /\ s.saved => ~Differ(row.lang, StableLang(s)) /\ row.complete = IsWhole(s)

(* No word is lost, told twice or out of its place: at every boundary the  *)
(* rows in their order hold the words as they were spoken, guesses that    *)
(* were in the open included, also across changes of speaker, language and *)
(* withdrawn rows (apply_tokens, finalize, persist_assembled_utterances).  *)
WordsAreKept ==
    alive =>
      /\ \A i \in 1..Size(asm) : RowIsItsSegment(asm.segments[i])
      /\ asm.segments = <<>> =>
           FlattenSeq([n \in 1..Len(rows) |-> rows[n].words]) = [w \in 1..spoken.source |-> w]

(* notebook_capture_api.rs says of a provider revision that it must not    *)
(* turn "a normal provider tail replacement into a capture-wide persistence *)
(* failure": whatever the provider revises, the store takes it.            *)
RevisionsAreTaken == alive
=============================================================================
