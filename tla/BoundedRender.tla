---------------------------- MODULE BoundedRender ----------------------------
(***************************************************************************)
(* The tiering loop every bounded rendering goes through, boundedRender of *)
(* packages/roundtable/bounded-render.ts: items in priority order, first   *)
(* verbatim, then as headlines, then only counted.                         *)
(*                                                                         *)
(* An item is the lengths of its two lines as the caller's formatters      *)
(* return them (the caps bound the text inside a line, not the line), and  *)
(* the marker is the length its formatter returns.  One step is one item.  *)
(***************************************************************************)
EXTENDS Integers, Sequences

CONSTANTS
  Total,        \* items.length
  LineLengths,  \* lengths a formatter may return for a line
  MarkerLengths,\* lengths it may return for the marker
  Budgets       \* options.budget

ASSUME TotalAssumption == Total \in Nat
ASSUME LengthsAssumption == LineLengths \subseteq Nat /\ MarkerLengths \subseteq Nat
ASSUME BudgetsAssumption == Budgets \subseteq Int

MIN_BUDGET == 200
MAX_MARKER_CHARS == 200

VARIABLES
  asked,          \* options.budget
  item,           \* item[i]: the lengths of item i's verbatim line and headline
  marker,         \* the length of the marker the formatter would return
  index,          \* the item the loop is at
  tier,           \* "verbatim", "headline"; "done" after the loop
  verbatimLines,  \* the items rendered in full
  headlineLines,  \* the items rendered as headlines
  spent,          \* of the budget
  collapsed,      \* how many items are only counted
  text            \* the length of all lines pushed to parts, joins excluded

renderVars == <<asked, item, marker, index, tier, verbatimLines, headlineLines,
                spent, collapsed, text>>

Items == 1 .. Total

budget == IF asked >= MIN_BUDGET THEN asked ELSE MIN_BUDGET

\* normalizeMarker: one line of at most MAX_MARKER_CHARS.
NormalizedMarker == IF marker <= MAX_MARKER_CHARS THEN marker ELSE MAX_MARKER_CHARS

RenderInit ==
  /\ asked \in Budgets
  /\ item \in [Items -> [verbatim : LineLengths, headline : LineLengths]]
  /\ marker \in MarkerLengths
  /\ index = 1
  /\ tier = "verbatim"
  /\ verbatimLines = <<>>
  /\ headlineLines = <<>>
  /\ spent = 0
  /\ collapsed = 0
  /\ text = 0

-----------------------------------------------------------------------------
\* A variant that forgets the newline a line is joined with.
FitsWithoutNewline(len) == spent + len <= budget

\* A line costs its length and the newline that joins it to the next.
Fits(len) == spent + len + 1 <= budget

Verbatim ==
  LET len == item[index].verbatim IN
  /\ index \in Items /\ tier = "verbatim"
  /\ Fits(len)
  /\ verbatimLines' = Append(verbatimLines, index)
  /\ spent' = spent + len + 1
  /\ text' = text + len
  /\ index' = index + 1
  /\ UNCHANGED <<asked, item, marker, tier, headlineLines, collapsed>>

\* The next item is tried as a headline: the tier is down already, or this
\* item's full form does not fit.
Degraded == index \in Items /\ (tier = "verbatim" => ~Fits(item[index].verbatim)) /\ tier # "done"

\* A variant that tries the next item verbatim again.
HeadlineOnce ==
  LET len == item[index].headline IN
  /\ Degraded /\ Fits(len)
  /\ headlineLines' = Append(headlineLines, index)
  /\ spent' = spent + len + 1
  /\ text' = text + len
  /\ index' = index + 1
  /\ UNCHANGED <<asked, item, marker, tier, verbatimLines, collapsed>>

Headline ==
  LET len == item[index].headline IN
  /\ Degraded /\ Fits(len)
  /\ headlineLines' = Append(headlineLines, index)
  /\ spent' = spent + len + 1
  /\ text' = text + len
  /\ index' = index + 1
  /\ tier' = "headline"
  /\ UNCHANGED <<asked, item, marker, verbatimLines, collapsed>>

\* A variant that counts the items after the one that did not fit.
CollapseFromNext ==
  /\ Degraded /\ ~Fits(item[index].headline)
  /\ collapsed' = Total - index
  /\ text' = text + NormalizedMarker
  /\ tier' = "done"
  /\ UNCHANGED <<asked, item, marker, index, verbatimLines, headlineLines, spent>>

\* Not even the headline fits: it and everything after it is collapsed.
Collapse ==
  /\ Degraded /\ ~Fits(item[index].headline)
  /\ collapsed' = Total - index + 1
  /\ text' = text + NormalizedMarker
  /\ tier' = "done"
  /\ UNCHANGED <<asked, item, marker, index, verbatimLines, headlineLines, spent>>

\* The loop ends with every item rendered.
AllRendered ==
  /\ index = Total + 1 /\ tier # "done"
  /\ tier' = "done"
  /\ UNCHANGED <<asked, item, marker, index, verbatimLines, headlineLines, spent, collapsed, text>>

RenderNext == Verbatim \/ Headline \/ Collapse \/ AllRendered

RenderSpec == RenderInit /\ [][RenderNext]_renderVars

-----------------------------------------------------------------------------
RenderTypeOK ==
  /\ asked \in Int
  /\ item \in [Items -> [verbatim : Nat, headline : Nat]]
  /\ marker \in Nat
  /\ index \in 1 .. Total + 1
  /\ tier \in {"verbatim", "headline", "done"}
  /\ verbatimLines \in Seq(Items)
  /\ headlineLines \in Seq(Items)
  /\ spent \in Nat
  /\ collapsed \in 0 .. Total
  /\ text \in Nat

\* The parts that are joined, and the length of the joined text.
Parts == Len(verbatimLines) + Len(headlineLines) + (IF collapsed > 0 THEN 1 ELSE 0)
Chars == IF Parts = 0 THEN 0 ELSE text + Parts - 1

\* The output is at most the budget plus one marker line, whatever lengths
\* the formatters return (boundedRender's three comparisons and the marker's
\* normalisation; the budget itself has a floor).
WithinBudget == Chars <= budget + MAX_MARKER_CHARS

\* Budget is spent in priority order: no item is in a lower tier than one that
\* comes after it, the lines of a tier are in order, and once the loop is over
\* every item is in exactly one tier or counted by the marker.
PriorityRespected ==
  /\ \A i \in 1 .. Len(verbatimLines) : verbatimLines[i] = i
  /\ \A i \in 1 .. Len(headlineLines) : headlineLines[i] = Len(verbatimLines) + i
  /\ tier = "done" => Len(verbatimLines) + Len(headlineLines) + collapsed = Total
=============================================================================
