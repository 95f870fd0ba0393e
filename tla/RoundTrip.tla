------------------------------ MODULE RoundTrip -----------------------------
(***************************************************************************)
(* From a prompt to its masked form and back: the numbering of the         *)
(* placeholders (assign_placeholders, src/src/privacy/detector.py), the    *)
(* mapping a session keeps, and the substitution loop of                   *)
(* SessionVault.restore (src/src/privacy/vault.py) on what the client      *)
(* sends back.                                                             *)
(*                                                                         *)
(* A text is a sequence of pieces.  A placeholder <TYPE_n> is two pieces,  *)
(* its head "<TYPE_" and its tail "n>"; both may also stand anywhere in a  *)
(* prompt by themselves, and a value that is masked may contain them.  In  *)
(* characters a placeholder can come about from any fragments of it, down  *)
(* to a digit or a bracket: text that may be such a fragment is a head or  *)
(* a tail here, never plain.                                               *)
(*                                                                         *)
(* Any disjoint spans may be what is masked: how they are found is the     *)
(* subject of Masking.  A type is a number; a session has fewer than ten   *)
(* placeholders of a type, so that the length of a placeholder is given by *)
(* its type.                                                               *)
(***************************************************************************)
EXTENDS Integers, Sequences, FiniteSets, SequencesExt

CONSTANTS
    Types,          \* entity types
    NameLength,     \* NameLength[ty]: characters of the type's name
    MaxText,        \* max_restore_bytes, counted in pieces
    MaxPrompt,      \* bound: pieces of a prompt
    MaxEdit         \* bound: placeholders and pieces of an edited reply

ASSUME TypesAssumption == Types \subseteq Nat /\ NameLength \in [Types -> Nat]
ASSUME BoundsAssumption ==
    MaxText \in Nat /\ MaxPrompt \in Nat \ {0} /\ MaxEdit \in Nat

VARIABLES
    prompt,
    spans,      \* what is masked
    pc,
    reply,      \* the text sent back, before restore touches it
    text,       \* the text restore works on
    todo,       \* placeholders the loop has still to substitute
    outcome

vars == <<prompt, spans, pc, reply, text, todo, outcome>>

-----------------------------------------------------------------------------
(* Pieces and spans.                                                       *)

HeadOf(ty) == <<"head", ty>>
TailOf(n) == <<"tail", n>>

Heads == {HeadOf(ty) : ty \in Types}

Pieces == {<<"plain", 1>>, <<"plain", 2>>, TailOf(0), TailOf(1)} \cup Heads

Span == [type : Types, first : 1..MaxPrompt, last : 1..MaxPrompt]

Disjoint(a, b) == a.last < b.first \/ b.last < a.first

\* The sets of spans that may be masked in s, never empty: without an entity
\* there is no session.
Maskings(s) ==
    {S \in SUBSET {sp \in Span : sp.first <= sp.last /\ sp.last <= Len(s)} :
        S # {} /\ \A a, b \in S : a # b => Disjoint(a, b)}

Value(sp) == SubSeq(prompt, sp.first, sp.last)

-----------------------------------------------------------------------------
(* assign_placeholders                                                     *)

Alike(a, b) == a.type = b.type /\ Value(a) = Value(b)

\* The first entity of this type and value.
Leader(sp) ==
    CHOOSE a \in spans : /\ Alike(a, sp)
                         /\ \A b \in spans : Alike(b, sp) => a.first <= b.first

\* Wrong variant: a type's number is not counted up.
NumberOnce(sp) == 0

\* Wrong variant: every entity gets a number of its own.
NumberEach(sp) ==
    Cardinality({o \in spans : o.type = sp.type /\ o.first < sp.first})

\* by_type: the values of the type that were numbered before.
Number(sp) ==
    Cardinality({Value(o) : o \in {a \in spans :
                    a.type = sp.type /\ a.first < Leader(sp).first}})

Placeholder(sp) == <<HeadOf(sp.type), TailOf(Number(sp))>>

-----------------------------------------------------------------------------
(* The masked text and the mapping.                                        *)

Masked ==
    FlattenSeq([i \in DOMAIN prompt |->
        IF \E sp \in spans : sp.first = i
          THEN Placeholder(CHOOSE sp \in spans : sp.first = i)
        ELSE IF \E sp \in spans : sp.first < i /\ i <= sp.last
          THEN <<>> ELSE <<prompt[i]>>])

Placeholders == {Placeholder(sp) : sp \in spans}

Holders(ph) == {sp \in spans : Placeholder(sp) = ph}

\* {e.placeholder: e.value for e in entities}: the last one wins.
Mapped(ph) ==
    Value(CHOOSE a \in Holders(ph) :
             \A b \in Holders(ph) : b.first <= a.first)

\* A dictionary keeps the order of the first insertions.
Position(ph) ==
    (CHOOSE a \in Holders(ph) :
        \A b \in Holders(ph) : a.first <= b.first).first

TypeOf(ph) == ph[1][2]

\* sorted(..., key=-len(placeholder)), a stable sort.
Before(p, q) ==
    \/ NameLength[TypeOf(p)] > NameLength[TypeOf(q)]
    \/ /\ NameLength[TypeOf(p)] = NameLength[TypeOf(q)]
       /\ Position(p) < Position(q)

-----------------------------------------------------------------------------
OccursAt(ph, s, i) == i \in 1..(Len(s) - 1) /\ SubSeq(s, i, i + 1) = ph

\* Wrong variant: only the first occurrence is replaced.
ReplacedOnce(s, ph, v) ==
    LET hits == {i \in DOMAIN s : OccursAt(ph, s, i)}
        i == CHOOSE j \in hits : \A k \in hits : j <= k
    IN  IF hits = {} THEN s
        ELSE SubSeq(s, 1, i - 1) \o v \o SubSeq(s, i + 2, Len(s))

\* str.replace.  A head is no tail, so two occurrences never overlap.
Replaced(s, ph, v) ==
    FlattenSeq([i \in DOMAIN s |->
        IF OccursAt(ph, s, i) THEN v
        ELSE IF OccursAt(ph, s, i - 1) THEN <<>> ELSE <<s[i]>>])

Init ==
    /\ prompt \in SeqOf(Pieces, MaxPrompt)
    /\ spans \in Maskings(prompt)
    /\ pc = "reply"
    /\ reply = <<>> /\ text = <<>> /\ todo = {} /\ outcome = "none"

\* What the client may send: the masked prompt as it is, or an edited text
\* that repeats, drops and reorders the placeholders and has pieces of its
\* own.
Edited ==
    {FlattenSeq(u) : u \in SeqOf(Placeholders
        \cup {<<p>> : p \in Heads \cup {TailOf(0), <<"plain", 1>>}}, MaxEdit)}

\* The size of the text is tested before the session is looked at.
Send ==
    /\ pc = "reply"
    /\ reply' \in {Masked} \cup Edited
    /\ text' = reply'
    /\ todo' = Placeholders
    /\ IF Len(reply') > MaxText
         THEN pc' = "done" /\ outcome' = "too_large"
         ELSE pc' = "restore" /\ UNCHANGED outcome
    /\ UNCHANGED <<prompt, spans>>

\* Wrong variant: the size is not tested.
NeverTooLong(s) == FALSE

TooLong(s) == Len(s) > MaxText

\* One round of the loop; the size is tested after each replacement.
Substitute ==
    /\ pc = "restore"
    /\ \E ph \in todo :
          /\ \A other \in todo : ~Before(other, ph)
          /\ text' = Replaced(text, ph, Mapped(ph))
          /\ todo' = todo \ {ph}
    /\ IF TooLong(text')
         THEN pc' = "done" /\ outcome' = "too_large"
         ELSE UNCHANGED <<pc, outcome>>
    /\ UNCHANGED <<prompt, spans, reply>>

Answer ==
    /\ pc = "restore" /\ todo = {}
    /\ pc' = "done" /\ outcome' = "ok"
    /\ UNCHANGED <<prompt, spans, reply, text, todo>>

Finished == pc = "done" /\ UNCHANGED vars

Next == Send \/ Substitute \/ Answer \/ Finished

Spec == Init /\ [][Next]_vars

-----------------------------------------------------------------------------
(* What must hold.                                                         *)

\* Types; that a text is never given back beyond the limit is the part that
\* the loop's tests are for.
TypeOK ==
    /\ prompt \in SeqOf(Pieces, MaxPrompt)
    /\ spans \in Maskings(prompt)
    /\ pc \in {"reply", "restore", "done"}
    /\ reply \in Seq(Pieces \cup {TailOf(n) : n \in 0..MaxPrompt})
    /\ text \in Seq(Pieces \cup {TailOf(n) : n \in 0..MaxPrompt})
    /\ todo \subseteq Placeholders
    /\ outcome \in {"none", "ok", "too_large"}
    /\ outcome = "ok" => Len(text) <= MaxText

\* Within a session, two entities have the same placeholder exactly if they
\* have the same type and the same value.
OnePlaceholderPerValue ==
    \A a, b \in spans : Placeholder(a) = Placeholder(b) <=> Alike(a, b)

Has(s, pieces) == \E i \in DOMAIN s : s[i] \in pieces

\* What is masked comes back: the masked prompt, sent back as it is, is
\* restored to the prompt, unless the prompt had the beginning of a
\* placeholder of a masked type in it.  (If it had, a literal "<EMAIL_0>" of
\* the client, or one inside a value, is substituted too.)
RoundTripExact ==
    /\ outcome = "ok" /\ reply = Masked
    /\ ~Has(prompt, {HeadOf(sp.type) : sp \in spans})
    => text = prompt

Known(s, i) == {ph \in Placeholders : OccursAt(ph, s, i)}

\* Every placeholder of the session replaced at once.
AllAtOnce(s) ==
    FlattenSeq([i \in DOMAIN s |->
        IF Known(s, i) # {} THEN Mapped(CHOOSE ph \in Known(s, i) : TRUE)
        ELSE IF Known(s, i - 1) # {} THEN <<>> ELSE <<s[i]>>])

PlainValues ==
    \A sp \in spans : \A i \in DOMAIN Value(sp) : Value(sp)[i][1] = "plain"

Grow == \E sp \in spans : Len(Value(sp)) > 2
Shrink == \E sp \in spans : Len(Value(sp)) < 2

\* If no value has a piece of a placeholder in it (in characters: nothing that
\* could be any fragment of one, not even a digit), the order of the rounds
\* does not show: whatever the reply repeats, drops or adds, it is restored
\* as if all placeholders were replaced at once, or it is refused because the
\* reply or the restored text is too long.  (If the session has values longer
\* and values shorter than their placeholders, a text in between may be too
\* long although neither is.)
RestoredAtOnce ==
    PlainValues =>
       /\ outcome = "ok" => text = AllAtOnce(reply)
       /\ outcome = "too_large" =>
             \/ Len(reply) > MaxText
             \/ Len(AllAtOnce(reply)) > MaxText
             \/ (Grow /\ Shrink)
=============================================================================
