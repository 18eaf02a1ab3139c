---------------------------- MODULE ContextBroker ----------------------------
(***************************************************************************)
(* The prompt of an attempt (agents_runtime/context_broker.py): tiers of   *)
(* text, most important first, cut or dropped to stay within a budget of   *)
(* estimated tokens.  A text is the sequence of the lengths of its lines.  *)
(***************************************************************************)
EXTENDS Integers, Sequences, FiniteSets, SequencesExt, FiniteSetsExt, Sums

CONSTANTS
  Offers,      \* the texts a tier may be given, <<>> for none
  TierBudgets  \* context_budget_tokens, scaled

ASSUME ContextAssumption == Offers \subseteq Seq(Nat) /\ TierBudgets \subseteq Nat

VARIABLES
  budget,     \* 0 before the assembly
  tier,       \* the next tier
  sections,   \* [tier, text (offered), kept (lines shown, in the order tried), tokens]
  dropped     \* dropped_tiers

contextVars == <<budget, tier, sections, dropped>>

Tiers == 0..5
MIN_SECTION_TOKENS == 16
KeepsTail(t) == t = 4

\* Characters, with the newlines between the lines.
Chars(lines) == IF lines = <<>> THEN 0 ELSE Total(lines) + Len(lines) - 1
Estimate(chars) == Max({1, chars \div 4})
Tokens(lines) == Estimate(Chars(lines))

\* The characters of a marker that says n.  Bound: n has no more than MaxDigits.
MaxDigits == 9
Digits(n) == 1 + Cardinality({d \in 1..(MaxDigits - 1) : 10 ^ d <= n})
Marker(n) == 30 + Digits(n)

\* _compose with a marker, which stands where the text was cut; empty lines at
\* the other end are stripped.
Composed(kept, marker) ==
  LET full == {i \in DOMAIN kept : kept[i] # 0}
  IN IF full = {} THEN marker ELSE Chars(SubSeq(kept, Min(full), Len(kept))) + 1 + marker

\* truncate_text: the lines in order, as long as they fit beside the marker, then
\* fewer until the real marker fits as well; the marker alone if none does.
Prefix(lines, n) == SubSeq(lines, 1, n)
Fits(lines, n, marker, max) == Estimate(Composed(Prefix(lines, n), marker)) <= max
Omitted(text, lines, n) == Max({0, Tokens(text) - Tokens(Prefix(lines, n))})
Tried(text, lines, max) ==
  Max({n \in 0..Len(lines) : \A i \in 1..n : Fits(lines, i, Marker(Tokens(text)), max)})
Shown(text, lines, max) ==
  Max({0} \cup {n \in 1..Tried(text, lines, max) : Fits(lines, n, Marker(Omitted(text, lines, n)), max)})
Cut(t, text, max) ==
  LET lines == IF KeepsTail(t) THEN Reverse(text) ELSE text
      shown == Shown(text, lines, max)
      marker == Marker(IF shown = 0 THEN Tokens(text) ELSE Omitted(text, lines, shown))
  IN [tier |-> t, text |-> text, kept |-> Prefix(lines, shown),
      tokens |-> Estimate(Composed(Prefix(lines, shown), marker))]

Whole(t, text) == [tier |-> t, text |-> text, kept |-> text, tokens |-> Tokens(text)]
TotalTokens == Total([i \in DOMAIN sections |-> sections[i].tokens])
Remaining == budget - TotalTokens

----------------------------------------------------------------------------
BeginContext(b) ==
  /\ budget = 0 /\ budget' = b
  /\ UNCHANGED <<tier, sections, dropped>>

\* T0 is shown, cut to the budget if need be.
AddSafety(text) ==
  /\ budget # 0 /\ tier = 0 /\ text # <<>>
  /\ sections' = <<IF Tokens(text) > budget THEN Cut(0, text, budget) ELSE Whole(0, text)>>
  /\ tier' = 1 /\ UNCHANGED <<budget, dropped>>

SkipTier ==
  /\ tier \in Tiers \ {0} /\ tier' = tier + 1
  /\ UNCHANGED <<budget, sections, dropped>>

\* Mutant of WorthAStub: anything left is cut into.
AnyLeft == Remaining > 0

WorthAStub == Remaining >= MIN_SECTION_TOKENS

AddTier(text) ==
  /\ tier \in Tiers \ {0} /\ text # <<>>
  /\ \/ /\ Tokens(text) <= Remaining
        /\ sections' = Append(sections, Whole(tier, text)) /\ UNCHANGED dropped
     \/ /\ Tokens(text) > Remaining /\ WorthAStub
        /\ sections' = Append(sections, Cut(tier, text, Remaining)) /\ UNCHANGED dropped
     \/ /\ Tokens(text) > Remaining /\ ~ WorthAStub
        /\ dropped' = Append(dropped, tier) /\ UNCHANGED sections
  /\ tier' = tier + 1 /\ UNCHANGED budget

----------------------------------------------------------------------------
ContextInit == budget = 0 /\ tier = 0 /\ sections = <<>> /\ dropped = <<>>

ContextNext ==
  \/ \E b \in TierBudgets : BeginContext(b)
  \/ SkipTier
  \/ \E text \in Offers : AddSafety(text) \/ AddTier(text)

\* What is shown of a text is one end of it: the newest lines of the history, the
\* first lines of everything else.
OneEnd(s) == IF KeepsTail(s.tier) /\ s.kept # s.text THEN IsPrefix(s.kept, Reverse(s.text)) ELSE IsPrefix(s.kept, s.text)

\* "The total stays bounded" (context_broker.py:12): a budget that holds a marker
\* is never exceeded, though every cut adds a marker and every estimate rounds; the
\* policy is always there, and no line is shown out of its place.
ContextBounded ==
  /\ budget >= Estimate(30 + MaxDigits) => TotalTokens <= budget
  /\ tier > 0 => sections # <<>> /\ sections[1].tier = 0
  /\ \A i \in DOMAIN sections : OneEnd(sections[i])
=============================================================================
