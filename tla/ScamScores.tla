----------------------------- MODULE ScamScores -----------------------------
(***************************************************************************)
(* The three scam scorers of verdict-api (internal/supportscam,            *)
(* internal/paymentscam, internal/cryptodrainer): phrases of a page count  *)
(* in capped categories, tokens of its name (the SLD) count in pairs, and  *)
(* the sum is compared with three thresholds.                              *)
(*                                                                         *)
(* Weights are in hundredths.  A text is what its phrases weigh: a step    *)
(* shows the scorer one more phrase of a dictionary, one more token of the *)
(* name or one more script finding, in any order and mix.  The running sum *)
(* of a category saturates at its cap, as min(cap, sum) does.              *)
(***************************************************************************)
EXTENDS Integers, FiniteSets

CONSTANT MaxSeen   \* bound on the phrases, tokens and findings of a page
ASSUME MaxSeenAssumption == MaxSeen \in Nat

VARIABLES
  scorer,  \* which of the three looks at the page
  listed,  \* whether the brand graph knows the host
  sums,    \* category |-> what its phrases weigh, at most its cap
  heads,   \* tokens of the name from the scorer's first list, at most 3
  tails,   \* and from its second list: 3 pairs are over the composite's cap
  methods, \* what the wallet methods among the script findings weigh
  seen     \* the number of steps

scamVars == <<scorer, listed, sums, heads, tails, methods, seen>>

Scorers == {"support", "payment", "drainer"}

AtMost(cap, n) == IF n > cap THEN cap ELSE n

\* The caps that Score passes to addCategory.
SupportCaps == [scareware |-> 30, payment_demand |-> 30, remote_tool |-> 30,
                brand |-> 35, gov |-> 25, phone |-> 20]
PaymentCaps == [gift_card |-> 35, wire |-> 30, tax_refund |-> 30, invoice |-> 25,
                lottery |-> 30, romance |-> 20, charity |-> 20, gov |-> 30]
DrainerCaps == [airdrop |-> 35, revoke |-> 30, mint |-> 30, connect |-> 25, defi |-> 25]
Caps(s) == CASE s = "support" -> SupportCaps
             [] s = "payment" -> PaymentCaps
             [] s = "drainer" -> DrainerCaps

\* The weights of the phrases in each dictionary.
SupportPhrases ==
  [scareware |-> {8, 10, 12, 15}, payment_demand |-> {5, 8, 10, 12, 15, 20},
   remote_tool |-> {10, 15}, brand |-> {10, 12, 15}, gov |-> {8, 10, 12, 15},
   phone |-> {5, 8}]
PaymentPhrases ==
  [gift_card |-> {15, 18, 20}, wire |-> {5, 8, 10, 12, 15, 20},
   tax_refund |-> {6, 8, 10, 12, 15, 20}, invoice |-> {6, 8, 10, 12, 15, 18},
   lottery |-> {8, 10, 12, 15, 18, 20}, romance |-> {5, 10, 15},
   charity |-> {5, 6, 8}, gov |-> {6, 8, 10, 12, 15, 18, 20}]
DrainerPhrases ==
  [airdrop |-> {10, 15, 18, 20}, revoke |-> {10, 15, 18, 20},
   mint |-> {10, 12, 15, 18, 20}, connect |-> {10, 15, 18}, defi |-> {8, 10}]
WalletMethods == {15, 20, 25}

\* addSLDCompositeBonus of each scorer: pairs of a token of either list count, or else
\* two pretexts for a payment, two lures for a drainer.
SupportPairs(h, t) == AtMost(35, 15 * h * t)
PaymentPairs(h, t) ==
  IF h * t > 0 THEN AtMost(35, 15 * h * t) ELSE IF t >= 2 THEN 30 ELSE 0
DrainerPairs(h, t) ==
  IF h * t > 0 THEN AtMost(40, 20 * h * t) ELSE IF h >= 2 THEN 30 ELSE 0

\* Faulty variant: the weights as the comment on the first of them has them.
CompositeLow(s, h, t) ==
  IF h * t > 0 THEN AtMost(30, 10 * h * t)
  ELSE IF (s = "payment" /\ t >= 2) \/ (s = "drainer" /\ h >= 2) THEN 30 ELSE 0

Composite(s, h, t) ==
  CASE s = "support" -> SupportPairs(h, t)
    [] s = "payment" -> PaymentPairs(h, t)
    [] s = "drainer" -> DrainerPairs(h, t)

SupportTotal(f) == f.scareware + f.payment_demand + f.remote_tool + f.brand + f.gov + f.phone
PaymentTotal(f) == f.gift_card + f.wire + f.tax_refund + f.invoice + f.lottery
                     + f.romance + f.charity + f.gov
DrainerTotal(f) == f.airdrop + f.revoke + f.mint + f.connect + f.defi
Total(s, f) == CASE s = "support" -> SupportTotal(f)
                 [] s = "payment" -> PaymentTotal(f)
                 [] s = "drainer" -> DrainerTotal(f)

\* Score: a host of the brand graph scores nothing for payments and drainers; for
\* support it is spared the brand category (NewPhrase) and the composite.
ScoreOf(s, known, f, h, t, w) ==
  IF known THEN IF s = "support" THEN AtMost(150, SupportTotal(f)) ELSE 0
  ELSE AtMost(150, Total(s, f) + w + Composite(s, h, t))
Score == ScoreOf(scorer, listed, sums, heads, tails, methods)

ThresholdWarn == 30
ThresholdBlock == 50
ThresholdHardBlock == 80

-----------------------------------------------------------------------------
ScamInit ==
  /\ scorer \in Scorers
  /\ listed \in BOOLEAN
  /\ sums = [c \in DOMAIN Caps(scorer) |-> 0]
  /\ heads = 0 /\ tails = 0 /\ methods = 0 /\ seen = 0

\* addCategory: a phrase counts once whatever the sources that hold it.
AddCategory(c, w) == [sums EXCEPT ![c] = AtMost(Caps(scorer)[c], @ + w)]

\* A phrase of a dictionary is found in the URL, the name, the title or the text.
\* The support scorer does not look for brands on the hosts of brands.
SupportPhrase ==
  \E c \in DOMAIN SupportCaps : \E w \in SupportPhrases[c] :
    /\ scorer = "support" /\ (c = "brand" => ~listed)
    /\ sums' = AddCategory(c, w)
PaymentPhrase ==
  \E c \in DOMAIN PaymentCaps : \E w \in PaymentPhrases[c] :
    scorer = "payment" /\ sums' = AddCategory(c, w)
DrainerPhrase ==
  \E c \in DOMAIN DrainerCaps : \E w \in DrainerPhrases[c] :
    scorer = "drainer" /\ sums' = AddCategory(c, w)
NewPhrase ==
  /\ SupportPhrase \/ PaymentPhrase \/ DrainerPhrase
  /\ UNCHANGED <<heads, tails, methods>>

\* One more token of the first or of the second list is part of the name.
NewToken ==
  /\ \/ heads < 3 /\ heads' = heads + 1 /\ UNCHANGED tails
     \/ tails < 3 /\ tails' = tails + 1 /\ UNCHANGED heads
  /\ UNCHANGED <<sums, methods>>

\* addWalletMethodSignals: each finding counts, there is no cap.
NewMethod ==
  /\ scorer = "drainer"
  /\ \E w \in WalletMethods : methods' = methods + w
  /\ UNCHANGED <<sums, heads, tails>>

ScamNext ==
  /\ seen < MaxSeen
  /\ seen' = seen + 1
  /\ NewPhrase \/ NewToken \/ NewMethod
  /\ UNCHANGED <<scorer, listed>>

ScamSpec == ScamInit /\ [][ScamNext]_scamVars

-----------------------------------------------------------------------------
ScamTypeOK ==
  /\ scorer \in Scorers /\ listed \in BOOLEAN
  /\ sums \in [DOMAIN Caps(scorer) -> 0..35]
  /\ \A c \in DOMAIN sums : sums[c] <= Caps(scorer)[c]
  /\ heads \in 0..3 /\ tails \in 0..3
  /\ methods \in Nat
  /\ seen \in Nat

\* The kinds of evidence that count: categories with a phrase, the composite, scripts.
Kinds ==
  Cardinality({c \in DOMAIN sums : sums[c] > 0})
    + (IF Composite(scorer, heads, tails) > 0 THEN 1 ELSE 0)

\* The thresholds count kinds of evidence, not phrases: however often a page repeats
\* one theme it is not blocked on sensitive pages, and however often it repeats two,
\* not everywhere.  Only script findings, which have no cap, may do it alone.
ThresholdsNeedKinds ==
  methods = 0 =>
    /\ Score >= ThresholdBlock => Kinds >= 2
    /\ Score >= ThresholdHardBlock => Kinds >= 3

\* A page never looks better for showing more of a scam, though a token may replace
\* the weight of two of one list by that of the pairs.
ShowingMoreNeverLowers ==
  [][ScoreOf(scorer', listed', sums', heads', tails', methods') >= Score]_scamVars

\* A score says what was seen: it needs several kinds of evidence to block, and more of
\* any kind never makes the page look better.
ScoresAreSound == [](ScamTypeOK /\ ThresholdsNeedKinds) /\ ShowingMoreNeverLowers

\* The comment on Score (supportscam.go:102-104): one category cannot cross the WARN
\* threshold without another.
OneCategoryNeverWarns ==
  methods = 0 /\ Kinds = 1 /\ Composite(scorer, heads, tails) = 0 => Score < ThresholdWarn
=============================================================================
