------------------------------ MODULE Composer ------------------------------
(***************************************************************************)
(* The input composers of the viewer (viewer/ime/) and the IME events that *)
(* drive them (app.rs: handle_ime, send_host_text): Hangul syllables from  *)
(* jamo and voiced kana from a base and a mark, for one window.            *)
(*                                                                         *)
(* A character is <<"C", i>>, the consonant jamo with initial index i;     *)
(* <<"V", i>>, the vowel jamo with index i; <<"J", i>>, a compatibility    *)
(* jamo that is neither; <<"K", base>> and <<"M", mark>>, kana and voicing *)
(* marks; or <<"X", x>>, any other.  The two code points of each mark are  *)
(* one character.  A glyph that is sent is recorded as the characters it   *)
(* is made of.                                                             *)
(***************************************************************************)
EXTENDS Integers, Sequences, Option

CONSTANTS
    Consonants, Vowels, Others,   \* jamo in use: subsets of the indices
    Bases,                        \* kana in use
    MaxTyped                      \* bound: characters of a behaviour

\* hangul.rs: initial_index, final_index by initial index, 0 for none.
FinalIndex == <<1, 2, 4, 7, 0, 8, 16, 17, 0, 19, 20, 21, 22, 0, 23, 24, 25, 26, 27>>

\* combine_vowel and combine_final: <<left, right, both>>.
VowelPairs ==
    {<<8, 0, 9>>, <<8, 1, 10>>, <<8, 20, 11>>, <<13, 4, 14>>, <<13, 5, 15>>,
     <<13, 20, 16>>, <<18, 20, 19>>}
FinalPairs ==
    {<<1, 19, 3>>, <<4, 22, 5>>, <<4, 27, 6>>, <<8, 1, 9>>, <<8, 16, 10>>,
     <<8, 17, 11>>, <<8, 19, 12>>, <<8, 25, 13>>, <<8, 26, 14>>, <<8, 27, 15>>,
     <<17, 19, 18>>}

\* kana.rs: VOICING_TABLE, for one base of each kind.
Voiced == [ka |-> {"voiced"}, ha |-> {"voiced", "semi"}, n |-> {}]
Marks == {"voiced", "semi"}

Syllables == [l: -1 .. 18, v: -1 .. 20, t: 0 .. 27]
KanaGlyphs == [base: DOMAIN Voiced, mark: Marks \cup {None}]

ASSUME ComposerAssumption ==
    /\ Consonants \subseteq 0 .. 18 /\ Vowels \subseteq 0 .. 20
    /\ Bases \subseteq DOMAIN Voiced /\ MaxTyped \in Nat
    /\ None \notin 0 .. 27 /\ None \notin Marks
    /\ None \notin Syllables /\ None \notin KanaGlyphs

VARIABLES
    backend,   \* "idle", "hangul" or "kana"
    pending,   \* the composer's pending glyph, or None
    sent,      \* InputEvent::Text, in order, each glyph spelled out
    preedit,   \* what the guest shows as preedit: a glyph, Host or None
    typed      \* number of characters typed

ComposerVars == <<backend, pending, sent, preedit, typed>>

-----------------------------------------------------------------------------
(* Glyphs.  A syllable has an initial, a vowel and a final, -1 or 0 for    *)
(* the parts it lacks.                                                     *)

Syllable(l, v, t) == [l |-> l, v |-> v, t |-> t]
Initial(l) == Syllable(l, -1, 0)
Vowel(v) == Syllable(-1, v, 0)
Kana(base, mark) == [base |-> base, mark |-> mark]
Host == [host |-> "preedit"]    \* whatever the IME of the host composes

\* split_final, final_to_initial: the final that stays, the initial that goes on.
FinalToInitial(t) == (CHOOSE i \in DOMAIN FinalIndex : FinalIndex[i] = t) - 1

Compound(pairs, i) == \E p \in pairs : p[3] = i
PairOf(pairs, i) == CHOOSE p \in pairs : p[3] = i

\* Mutant: a compound final goes on as a whole or not at all.
SplitFinalWhole(t) ==
    IF Compound(FinalPairs, t) THEN <<t, FinalToInitial(PairOf(FinalPairs, t)[2])>>
    ELSE <<0, FinalToInitial(t)>>

SplitFinal(t) ==
    IF Compound(FinalPairs, t)
    THEN <<PairOf(FinalPairs, t)[1], FinalToInitial(PairOf(FinalPairs, t)[2])>>
    ELSE <<0, FinalToInitial(t)>>

Combine(pairs, left, right) ==
    IF \E p \in pairs : p[1] = left /\ p[2] = right
    THEN (CHOOSE p \in pairs : p[1] = left /\ p[2] = right)[3] ELSE None

-----------------------------------------------------------------------------
(* A glyph as the characters it is made of.                                *)

VowelParts(v) ==
    IF Compound(VowelPairs, v)
    THEN <<<<"V", PairOf(VowelPairs, v)[1]>>, <<"V", PairOf(VowelPairs, v)[2]>>>>
    ELSE <<<<"V", v>>>>

FinalParts(t) ==
    IF t = 0 THEN <<>>
    ELSE IF Compound(FinalPairs, t)
    THEN <<<<"C", FinalToInitial(PairOf(FinalPairs, t)[1])>>,
           <<"C", FinalToInitial(PairOf(FinalPairs, t)[2])>>>>
    ELSE <<<<"C", FinalToInitial(t)>>>>

SpellSyllable(g) ==
    (IF g.l < 0 THEN <<>> ELSE <<<<"C", g.l>>>>)
    \o (IF g.v < 0 THEN <<>> ELSE VowelParts(g.v))
    \o FinalParts(g.t)

SpellKana(g) ==
    IF g.mark = None THEN <<<<"K", g.base>>>> ELSE <<<<"K", g.base>>, <<"M", g.mark>>>>

\* take_pending_text, pending_text: what is pending, as text.
Spell(p) ==
    IF p = None THEN <<>>
    ELSE IF "base" \in DOMAIN p THEN SpellKana(p) ELSE SpellSyllable(p)

-----------------------------------------------------------------------------
(* What a composer does with one character: the text to commit and what is *)
(* pending afterwards.                                                     *)

Step(commit, p) == [commit |-> commit, pending |-> p]

\* HangulComposer::push_consonant.
PushConsonant(p, l) ==
    LET t    == FinalIndex[l + 1]
        both == IF p = None \/ t = 0 THEN None
                ELSE IF p.t = 0 THEN t ELSE Combine(FinalPairs, p.t, t)
    IN  IF p # None /\ p.l >= 0 /\ p.v >= 0 /\ both # None
        THEN Step(<<>>, Syllable(p.l, p.v, both))
        ELSE Step(Spell(p), Initial(l))

\* HangulComposer::push_vowel: a vowel takes the final before it along.
PushVowel(p, v) ==
    LET both  == IF p = None THEN None ELSE Combine(VowelPairs, p.v, v)
        split == SplitFinal(p.t)
    IN  CASE p = None -> Step(<<>>, Vowel(v))
          [] p # None /\ p.v < 0 -> Step(<<>>, Syllable(p.l, v, 0))
          [] p # None /\ p.v >= 0 /\ p.t = 0 ->
                IF both # None THEN Step(<<>>, Syllable(p.l, both, 0))
                ELSE Step(Spell(p), Vowel(v))
          [] p # None /\ p.v >= 0 /\ p.t # 0 ->
                Step(Spell(Syllable(p.l, p.v, split[1])), Syllable(split[2], v, 0))

\* HangulComposer::push_char.
PushJamo(p, c) ==
    CASE c[1] = "C" -> PushConsonant(p, c[2])
      [] c[1] = "V" -> PushVowel(p, c[2])
      [] c[1] = "J" -> Step(Append(Spell(p), c), None)

\* apply_mark: the glyph, or None.
ApplyMark(p, mark) ==
    IF p # None /\ mark \in Voiced[p.base] THEN Kana(p.base, mark) ELSE None

\* KanaComposer::push_char.
PushKana(p, c) ==
    LET out == ApplyMark(p, c[2])
    IN  IF c[1] = "K" THEN Step(Spell(p), Kana(c[2], None))
        ELSE IF out # None THEN Step(Spell(out), None)
        ELSE Step(Append(Spell(p), c), None)

\* push_text: the characters of a chunk one after the other.
PushChar(target, s, c) ==
    LET n == IF target = "hangul" THEN PushJamo(s.pending, c) ELSE PushKana(s.pending, c)
    IN  Step(s.commit \o n.commit, n.pending)

PushText(target, p, chunk) ==
    LET after[n \in 0 .. Len(chunk)] ==
            IF n = 0 THEN Step(<<>>, p) ELSE PushChar(target, after[n - 1], chunk[n])
    IN  after[Len(chunk)]

\* HangulComposer::can_compose, KanaComposer::can_compose, detect.
IsJamo(chunk) == chunk # <<>> /\ \A i \in DOMAIN chunk : chunk[i][1] \in {"C", "V", "J"}
IsMarkedKana(chunk) ==
    /\ \A i \in DOMAIN chunk : chunk[i][1] \in {"K", "M"}
    /\ \E i \in DOMAIN chunk : chunk[i][1] = "M"
Detect(chunk) ==
    IF IsJamo(chunk) THEN "hangul" ELSE IF IsMarkedKana(chunk) THEN "kana" ELSE "idle"

-----------------------------------------------------------------------------
(* InputComposer and the events of the host's IME.                         *)

\* flush, and its actions as the guest sees them: the pending glyph is
\* committed and the preedit is cleared.
Flushed == sent \o Spell(pending)
PreeditAfterFlush == IF pending = None THEN preedit ELSE None

\* switch_for: another composer starts after a flush.
SwitchFor(target) ==
    IF target = backend THEN [sent |-> sent, pending |-> pending]
    ELSE [sent |-> Flushed, pending |-> None]

\* InputComposer::push_text.
PushComposable(chunk) ==
    LET target == Detect(chunk)
        start  == SwitchFor(target)
        step   == PushText(target, start.pending, chunk)
    IN  /\ backend' = target
        /\ sent' = start.sent \o step.commit
        /\ pending' = step.pending
        /\ preedit' = step.pending

\* send_host_text with text no composer wants: sent as it is.
SendVerbatim(chunk) ==
    /\ backend' = "idle" /\ pending' = None
    /\ sent' = Flushed \o chunk
    /\ preedit' = None

\* Ime::Commit, or text of the keyboard.
SendHostText(chunk) ==
    /\ typed + Len(chunk) <= MaxTyped
    /\ typed' = typed + Len(chunk)
    /\ IF Detect(chunk) = "idle" THEN SendVerbatim(chunk) ELSE PushComposable(chunk)

\* Ime::Enabled, a command shortcut, a named key: flush_composer.
FlushComposer ==
    /\ backend' = "idle" /\ pending' = None
    /\ sent' = Flushed
    /\ preedit' = PreeditAfterFlush
    /\ UNCHANGED typed

\* Ime::Preedit: shown unless a composer owns the text.
ImePreedit(text) ==
    /\ text # "composable" /\ (text = "empty" => pending = None)
    /\ backend' = "idle" /\ pending' = None
    /\ sent' = Flushed
    /\ preedit' = IF text = "empty" THEN None ELSE Host
    /\ UNCHANGED typed

\* Ime::Disabled.
ImeDisabled ==
    /\ backend' = "idle" /\ pending' = None
    /\ sent' = Flushed /\ preedit' = None
    /\ UNCHANGED typed

\* HangulComposer::backspace: a final, a vowel, then the initial.
HangulBackspace(p) ==
    IF p.l < 0 \/ p.v < 0 THEN None
    ELSE IF p.t # 0 THEN Syllable(p.l, p.v, 0)
    ELSE Initial(p.l)

\* Backspace, with something pending.
Backspace ==
    /\ pending # None
    /\ pending' = IF backend = "kana" THEN None ELSE HangulBackspace(pending)
    /\ preedit' = pending'
    /\ UNCHANGED <<backend, sent, typed>>

Jamo == {<<"C", i>> : i \in Consonants} \cup {<<"V", i>> : i \in Vowels}
        \cup {<<"J", i>> : i \in Others}
OtherChunks ==
    {<<<<"X", "x">>>>} \cup {<<<<"M", k>>>> : k \in Marks}
    \cup {<<<<"K", b>>, <<"M", k>>>> : b \in Bases, k \in Marks}
    \cup {<<<<"M", k>>, <<"K", b>>>> : b \in Bases, k \in Marks}
Chunks == {<<c>> : c \in Jamo} \cup OtherChunks

ComposerInit ==
    /\ backend = "idle" /\ pending = None
    /\ sent = <<>> /\ preedit = None /\ typed = 0

ComposerNext ==
    \/ \E chunk \in Chunks : SendHostText(chunk)
    \/ \E text \in {"empty", "composable", "other"} : ImePreedit(text)
    \/ FlushComposer \/ ImeDisabled \/ Backspace

ComposerSpec == ComposerInit /\ [][ComposerNext]_ComposerVars

-----------------------------------------------------------------------------
\* What may be typed, a compound vowel as the two it is made of.
Primitive(c) == IF c[1] = "V" THEN VowelParts(c[2]) ELSE <<c>>
TypedText == {Primitive(c) : c \in Jamo} \cup OtherChunks

Buffer == INSTANCE TextBuffer WITH Chunks <- TypedText, out <- sent, held <- Spell(pending)

\* The composers implement a text buffer: whatever is typed, switched, shown,
\* flushed or erased, the glyphs sent spell the text in order and once.
Buffers == Buffer!Spec

\* The guest shows as preedit exactly what the composer holds, and the host's
\* own preedit only while it holds nothing.
PreeditShowsHeld == preedit = pending \/ (preedit = Host /\ pending = None)

ComposerTypeOK ==
    /\ backend \in {"idle", "hangul", "kana"}
    /\ pending # None =>
          \/ /\ backend = "hangul" /\ pending \in Syllables
             /\ pending.l >= 0 \/ pending.v >= 0
             /\ pending.t # 0 => pending.l >= 0 /\ pending.v >= 0
          \/ /\ backend = "kana" /\ pending \in KanaGlyphs
             /\ pending.mark = None
    /\ typed \in 0 .. MaxTyped

=============================================================================
