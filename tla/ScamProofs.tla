----------------------------- MODULE ScamProofs -----------------------------
(***************************************************************************)
(* Proofs about the scam scorers: for a page with any number of phrases,   *)
(* tokens and script findings, the thresholds need several kinds of        *)
(* evidence, and no further evidence lowers a score.                       *)
(***************************************************************************)
EXTENDS ScamScores, FiniteSetTheorems, TLAPS

LEMMA CapsAreSmall ==
  ASSUME NEW s \in Scorers, NEW c \in DOMAIN Caps(s)
  PROVE  Caps(s)[c] \in 0..35
<1>1. CASE s = "support"
  BY <1>1 DEF Caps, SupportCaps
<1>2. CASE s = "payment"
  BY <1>2 DEF Caps, PaymentCaps
<1>3. CASE s = "drainer"
  BY <1>3 DEF Caps, DrainerCaps
<1> QED
  BY <1>1, <1>2, <1>3 DEF Scorers

\* Whichever dictionary it is from, a phrase adds its weight to one category.
LEMMA PhraseSteps ==
  ASSUME NewPhrase
  PROVE  \E c \in DOMAIN Caps(scorer), w \in Nat : sums' = AddCategory(c, w)
<1>1. CASE SupportPhrase
  <2>1. \A c \in DOMAIN SupportCaps : SupportPhrases[c] \subseteq Nat
    BY DEF SupportCaps, SupportPhrases
  <2>2. PICK c \in DOMAIN SupportCaps : \E w \in SupportPhrases[c] :
          scorer = "support" /\ sums' = AddCategory(c, w)
    BY <1>1 DEF SupportPhrase
  <2> QED
    BY <2>1, <2>2 DEF Caps
<1>2. CASE PaymentPhrase
  <2>1. \A c \in DOMAIN PaymentCaps : PaymentPhrases[c] \subseteq Nat
    BY DEF PaymentCaps, PaymentPhrases
  <2>2. PICK c \in DOMAIN PaymentCaps : \E w \in PaymentPhrases[c] :
          scorer = "payment" /\ sums' = AddCategory(c, w)
    BY <1>2 DEF PaymentPhrase
  <2> QED
    BY <2>1, <2>2 DEF Caps
<1>3. CASE DrainerPhrase
  <2>1. \A c \in DOMAIN DrainerCaps : DrainerPhrases[c] \subseteq Nat
    BY DEF DrainerCaps, DrainerPhrases
  <2>2. PICK c \in DOMAIN DrainerCaps : \E w \in DrainerPhrases[c] :
          scorer = "drainer" /\ sums' = AddCategory(c, w)
    BY <1>3 DEF DrainerPhrase
  <2> QED
    BY <2>1, <2>2 DEF Caps
<1> QED
  BY <1>1, <1>2, <1>3 DEF NewPhrase

\* It raises that category, up to its cap, and lowers none.
LEMMA PhraseRaises ==
  ASSUME ScamTypeOK, NEW c \in DOMAIN Caps(scorer), NEW w \in Nat, sums' = AddCategory(c, w)
  PROVE  /\ sums' \in [DOMAIN Caps(scorer) -> 0..35]
         /\ \A d \in DOMAIN Caps(scorer) : sums[d] <= sums'[d] /\ sums'[d] <= Caps(scorer)[d]
<1> USE DEF ScamTypeOK, AddCategory, AtMost
<1>1. Caps(scorer)[c] \in 0..35
  BY CapsAreSmall
<1>2. sums[c] \in 0..35 /\ sums[c] <= Caps(scorer)[c]
  OBVIOUS
<1>3. sums'[c] \in 0..35 /\ sums[c] <= sums'[c] /\ sums'[c] <= Caps(scorer)[c]
  BY <1>1, <1>2
<1>4. \A d \in DOMAIN Caps(scorer) \ {c} : sums'[d] = sums[d]
  OBVIOUS
<1>5. DOMAIN sums' = DOMAIN Caps(scorer)
  OBVIOUS
<1>6. \A d \in DOMAIN Caps(scorer) : sums[d] <= sums'[d] /\ sums'[d] <= Caps(scorer)[d]
  BY <1>3, <1>4
<1> QED
  BY <1>3, <1>4, <1>5, <1>6

-----------------------------------------------------------------------------
LEMMA InitTypes == ScamInit => ScamTypeOK
<1> SUFFICES ASSUME ScamInit PROVE ScamTypeOK
  OBVIOUS
<1>1. \A c \in DOMAIN Caps(scorer) : 0 <= Caps(scorer)[c]
  BY CapsAreSmall DEF ScamInit
<1> QED
  BY <1>1 DEF ScamInit, ScamTypeOK

LEMMA NextTypes == ScamTypeOK /\ [ScamNext]_scamVars => ScamTypeOK'
<1> SUFFICES ASSUME ScamTypeOK, [ScamNext]_scamVars PROVE ScamTypeOK'
  OBVIOUS
<1> USE DEF ScamTypeOK
<1>1. CASE ScamNext
  <2> USE <1>1 DEF ScamNext
  <2>1. UNCHANGED <<scorer, listed>> /\ seen' \in Nat
    OBVIOUS
  <2>2. CASE NewPhrase
    <3>1. PICK c \in DOMAIN Caps(scorer), w \in Nat : sums' = AddCategory(c, w)
      BY <2>2, PhraseSteps
    <3>2. /\ sums' \in [DOMAIN Caps(scorer) -> 0..35]
          /\ \A d \in DOMAIN Caps(scorer) : sums'[d] <= Caps(scorer)[d]
      BY <3>1, PhraseRaises
    <3>3. UNCHANGED <<heads, tails, methods>>
      BY <2>2 DEF NewPhrase
    <3> QED
      BY <2>1, <3>2, <3>3
  <2>3. CASE NewToken
    <3>1. heads' \in 0..3 /\ tails' \in 0..3 /\ UNCHANGED <<sums, methods>>
      BY <2>3 DEF NewToken
    <3> QED
      BY <2>1, <3>1
  <2>4. CASE NewMethod
    <3>1. methods' \in Nat /\ UNCHANGED <<sums, heads, tails>>
      BY <2>4 DEF NewMethod, WalletMethods
    <3> QED
      BY <2>1, <3>1
  <2> QED
    BY <2>2, <2>3, <2>4
<1>2. CASE UNCHANGED scamVars
  BY <1>2 DEF scamVars
<1> QED
  BY <1>1, <1>2

-----------------------------------------------------------------------------
(* More evidence *)

\* The categories of each scorer.
LEMMA Categories ==
  /\ DOMAIN SupportCaps = {"scareware", "payment_demand", "remote_tool", "brand", "gov", "phone"}
  /\ DOMAIN PaymentCaps = {"gift_card", "wire", "tax_refund", "invoice", "lottery", "romance", "charity", "gov"}
  /\ DOMAIN DrainerCaps = {"airdrop", "revoke", "mint", "connect", "defi"}
  BY DEF SupportCaps, PaymentCaps, DrainerCaps

LEMMA SupportGrows ==
  ASSUME NEW f \in [DOMAIN SupportCaps -> 0..35], NEW g \in [DOMAIN SupportCaps -> 0..35],
         \A c \in DOMAIN SupportCaps : f[c] <= g[c]
  PROVE  SupportTotal(f) \in Nat /\ SupportTotal(g) \in Nat /\ SupportTotal(f) <= SupportTotal(g)
<1>1. f.scareware \in Nat /\ g.scareware \in Nat /\ f.scareware <= g.scareware
  BY Categories
<1>2. f.payment_demand \in Nat /\ g.payment_demand \in Nat /\ f.payment_demand <= g.payment_demand
  BY Categories
<1>3. f.remote_tool \in Nat /\ g.remote_tool \in Nat /\ f.remote_tool <= g.remote_tool
  BY Categories
<1>4. f.brand \in Nat /\ g.brand \in Nat /\ f.brand <= g.brand
  BY Categories
<1>5. f.gov \in Nat /\ g.gov \in Nat /\ f.gov <= g.gov
  BY Categories
<1>6. f.phone \in Nat /\ g.phone \in Nat /\ f.phone <= g.phone
  BY Categories
<1>7. f.scareware + f.payment_demand \in Nat /\ g.scareware + g.payment_demand \in Nat
      /\ f.scareware + f.payment_demand <= g.scareware + g.payment_demand
  BY <1>1, <1>2
<1>8. f.scareware + f.payment_demand + f.remote_tool \in Nat /\ g.scareware + g.payment_demand + g.remote_tool \in Nat
      /\ f.scareware + f.payment_demand + f.remote_tool <= g.scareware + g.payment_demand + g.remote_tool
  BY <1>7, <1>3
<1>9. /\ f.scareware + f.payment_demand + f.remote_tool + f.brand \in Nat
       /\ g.scareware + g.payment_demand + g.remote_tool + g.brand \in Nat
       /\ f.scareware + f.payment_demand + f.remote_tool + f.brand
            <= g.scareware + g.payment_demand + g.remote_tool + g.brand
  BY <1>8, <1>4
<1>10. /\ f.scareware + f.payment_demand + f.remote_tool + f.brand + f.gov \in Nat
       /\ g.scareware + g.payment_demand + g.remote_tool + g.brand + g.gov \in Nat
       /\ f.scareware + f.payment_demand + f.remote_tool + f.brand + f.gov
            <= g.scareware + g.payment_demand + g.remote_tool + g.brand + g.gov
  BY <1>9, <1>5
<1>11. /\ f.scareware + f.payment_demand + f.remote_tool + f.brand + f.gov + f.phone \in Nat
       /\ g.scareware + g.payment_demand + g.remote_tool + g.brand + g.gov + g.phone \in Nat
       /\ f.scareware + f.payment_demand + f.remote_tool + f.brand + f.gov + f.phone
            <= g.scareware + g.payment_demand + g.remote_tool + g.brand + g.gov + g.phone
  BY <1>10, <1>6
<1> QED
  BY <1>11 DEF SupportTotal

LEMMA PaymentGrows ==
  ASSUME NEW f \in [DOMAIN PaymentCaps -> 0..35], NEW g \in [DOMAIN PaymentCaps -> 0..35],
         \A c \in DOMAIN PaymentCaps : f[c] <= g[c]
  PROVE  PaymentTotal(f) \in Nat /\ PaymentTotal(g) \in Nat /\ PaymentTotal(f) <= PaymentTotal(g)
<1>1. f.gift_card \in Nat /\ g.gift_card \in Nat /\ f.gift_card <= g.gift_card
  BY Categories
<1>2. f.wire \in Nat /\ g.wire \in Nat /\ f.wire <= g.wire
  BY Categories
<1>3. f.tax_refund \in Nat /\ g.tax_refund \in Nat /\ f.tax_refund <= g.tax_refund
  BY Categories
<1>4. f.invoice \in Nat /\ g.invoice \in Nat /\ f.invoice <= g.invoice
  BY Categories
<1>5. f.lottery \in Nat /\ g.lottery \in Nat /\ f.lottery <= g.lottery
  BY Categories
<1>6. f.romance \in Nat /\ g.romance \in Nat /\ f.romance <= g.romance
  BY Categories
<1>7. f.charity \in Nat /\ g.charity \in Nat /\ f.charity <= g.charity
  BY Categories
<1>8. f.gov \in Nat /\ g.gov \in Nat /\ f.gov <= g.gov
  BY Categories
<1>9. f.gift_card + f.wire \in Nat /\ g.gift_card + g.wire \in Nat
      /\ f.gift_card + f.wire <= g.gift_card + g.wire
  BY <1>1, <1>2
<1>10. f.gift_card + f.wire + f.tax_refund \in Nat /\ g.gift_card + g.wire + g.tax_refund \in Nat
      /\ f.gift_card + f.wire + f.tax_refund <= g.gift_card + g.wire + g.tax_refund
  BY <1>9, <1>3
<1>11. /\ f.gift_card + f.wire + f.tax_refund + f.invoice \in Nat
       /\ g.gift_card + g.wire + g.tax_refund + g.invoice \in Nat
       /\ f.gift_card + f.wire + f.tax_refund + f.invoice
            <= g.gift_card + g.wire + g.tax_refund + g.invoice
  BY <1>10, <1>4
<1>12. /\ f.gift_card + f.wire + f.tax_refund + f.invoice + f.lottery \in Nat
       /\ g.gift_card + g.wire + g.tax_refund + g.invoice + g.lottery \in Nat
       /\ f.gift_card + f.wire + f.tax_refund + f.invoice + f.lottery
            <= g.gift_card + g.wire + g.tax_refund + g.invoice + g.lottery
  BY <1>11, <1>5
<1>13. /\ f.gift_card + f.wire + f.tax_refund + f.invoice + f.lottery + f.romance \in Nat
       /\ g.gift_card + g.wire + g.tax_refund + g.invoice + g.lottery + g.romance \in Nat
       /\ f.gift_card + f.wire + f.tax_refund + f.invoice + f.lottery + f.romance
            <= g.gift_card + g.wire + g.tax_refund + g.invoice + g.lottery + g.romance
  BY <1>12, <1>6
<1>14. /\ f.gift_card + f.wire + f.tax_refund + f.invoice + f.lottery + f.romance + f.charity \in Nat
       /\ g.gift_card + g.wire + g.tax_refund + g.invoice + g.lottery + g.romance + g.charity \in Nat
       /\ f.gift_card + f.wire + f.tax_refund + f.invoice + f.lottery + f.romance + f.charity
            <= g.gift_card + g.wire + g.tax_refund + g.invoice + g.lottery + g.romance + g.charity
  BY <1>13, <1>7
<1>15. /\ f.gift_card + f.wire + f.tax_refund + f.invoice + f.lottery + f.romance + f.charity + f.gov \in Nat
       /\ g.gift_card + g.wire + g.tax_refund + g.invoice + g.lottery + g.romance + g.charity + g.gov \in Nat
       /\ f.gift_card + f.wire + f.tax_refund + f.invoice + f.lottery + f.romance + f.charity + f.gov
            <= g.gift_card + g.wire + g.tax_refund + g.invoice + g.lottery + g.romance + g.charity + g.gov
  BY <1>14, <1>8
<1> QED
  BY <1>15 DEF PaymentTotal

LEMMA DrainerGrows ==
  ASSUME NEW f \in [DOMAIN DrainerCaps -> 0..35], NEW g \in [DOMAIN DrainerCaps -> 0..35],
         \A c \in DOMAIN DrainerCaps : f[c] <= g[c]
  PROVE  DrainerTotal(f) \in Nat /\ DrainerTotal(g) \in Nat /\ DrainerTotal(f) <= DrainerTotal(g)
<1>1. f.airdrop \in Nat /\ g.airdrop \in Nat /\ f.airdrop <= g.airdrop
  BY Categories
<1>2. f.revoke \in Nat /\ g.revoke \in Nat /\ f.revoke <= g.revoke
  BY Categories
<1>3. f.mint \in Nat /\ g.mint \in Nat /\ f.mint <= g.mint
  BY Categories
<1>4. f.connect \in Nat /\ g.connect \in Nat /\ f.connect <= g.connect
  BY Categories
<1>5. f.defi \in Nat /\ g.defi \in Nat /\ f.defi <= g.defi
  BY Categories
<1>6. f.airdrop + f.revoke \in Nat /\ g.airdrop + g.revoke \in Nat
      /\ f.airdrop + f.revoke <= g.airdrop + g.revoke
  BY <1>1, <1>2
<1>7. f.airdrop + f.revoke + f.mint \in Nat /\ g.airdrop + g.revoke + g.mint \in Nat
      /\ f.airdrop + f.revoke + f.mint <= g.airdrop + g.revoke + g.mint
  BY <1>6, <1>3
<1>8. /\ f.airdrop + f.revoke + f.mint + f.connect \in Nat
       /\ g.airdrop + g.revoke + g.mint + g.connect \in Nat
       /\ f.airdrop + f.revoke + f.mint + f.connect
            <= g.airdrop + g.revoke + g.mint + g.connect
  BY <1>7, <1>4
<1>9. /\ f.airdrop + f.revoke + f.mint + f.connect + f.defi \in Nat
       /\ g.airdrop + g.revoke + g.mint + g.connect + g.defi \in Nat
       /\ f.airdrop + f.revoke + f.mint + f.connect + f.defi
            <= g.airdrop + g.revoke + g.mint + g.connect + g.defi
  BY <1>8, <1>5
<1> QED
  BY <1>9 DEF DrainerTotal

LEMMA TotalGrows ==
  ASSUME NEW s \in Scorers,
         NEW f \in [DOMAIN Caps(s) -> 0..35], NEW g \in [DOMAIN Caps(s) -> 0..35],
         \A c \in DOMAIN Caps(s) : f[c] <= g[c]
  PROVE  Total(s, f) \in Nat /\ Total(s, g) \in Nat /\ Total(s, f) <= Total(s, g)
<1>1. CASE s = "support"
  <2>1. Caps(s) = SupportCaps /\ Total(s, f) = SupportTotal(f) /\ Total(s, g) = SupportTotal(g)
    BY <1>1 DEF Caps, Total
  <2> QED
    BY <2>1, SupportGrows
<1>2. CASE s = "payment"
  <2>1. Caps(s) = PaymentCaps /\ Total(s, f) = PaymentTotal(f) /\ Total(s, g) = PaymentTotal(g)
    BY <1>2 DEF Caps, Total
  <2> QED
    BY <2>1, PaymentGrows
<1>3. CASE s = "drainer"
  <2>1. Caps(s) = DrainerCaps /\ Total(s, f) = DrainerTotal(f) /\ Total(s, g) = DrainerTotal(g)
    BY <1>3 DEF Caps, Total
  <2> QED
    BY <2>1, DrainerGrows
<1> QED
  BY <1>1, <1>2, <1>3 DEF Scorers

\* A product of token counts, so that the weights of pairs are linear in it.
LEMMA Pairs ==
  ASSUME NEW h \in 0..3, NEW t \in 0..3
  PROVE  /\ h * t \in 0..9 /\ (h * t > 0 <=> h > 0 /\ t > 0)
         /\ 15 * h * t = 15 * (h * t) /\ 20 * h * t = 20 * (h * t)
         /\ \A k \in 0..3, m \in 0..3 : h <= k /\ t <= m => h * t <= k * m
<1>1. CASE h = 0
  BY <1>1
<1>2. CASE h = 1
  BY <1>2
<1>3. CASE h = 2
  BY <1>3
<1>4. CASE h = 3
  BY <1>4
<1> QED
  BY <1>1, <1>2, <1>3, <1>4

LEMMA CompositeGrows ==
  ASSUME NEW s \in Scorers, NEW h \in 0..3, NEW t \in 0..3,
         NEW k \in 0..3, NEW m \in 0..3, h <= k, t <= m
  PROVE  Composite(s, h, t) \in 0..40 /\ Composite(s, h, t) <= Composite(s, k, m)
<1> DEFINE p == h * t
           q == k * m
<1>1. p \in 0..9 /\ (p > 0 <=> h > 0 /\ t > 0) /\ 15 * h * t = 15 * p /\ 20 * h * t = 20 * p
  BY Pairs
<1>2. q \in 0..9 /\ (q > 0 <=> k > 0 /\ m > 0) /\ 15 * k * m = 15 * q /\ 20 * k * m = 20 * q
  BY Pairs
<1>3. p <= q
  BY Pairs
<1> HIDE DEF p, q
<1>4. CASE s = "support"
  BY <1>1, <1>2, <1>3, <1>4 DEF Composite, SupportPairs, AtMost
<1>5. CASE s = "payment"
  BY <1>1, <1>2, <1>3, <1>5 DEF Composite, PaymentPairs, AtMost, p, q
<1>6. CASE s = "drainer"
  BY <1>1, <1>2, <1>3, <1>6 DEF Composite, DrainerPairs, AtMost, p, q
<1> QED
  BY <1>4, <1>5, <1>6 DEF Scorers

\* The score of a page that shows at least as much is no lower.
LEMMA ScoreGrows ==
  ASSUME ScamTypeOK, ScamTypeOK', UNCHANGED <<scorer, listed>>,
         \A c \in DOMAIN Caps(scorer) : sums[c] <= sums'[c],
         heads <= heads', tails <= tails', methods <= methods'
  PROVE  ScoreOf(scorer', listed', sums', heads', tails', methods') >= Score
<1> USE DEF ScamTypeOK
<1>1. /\ Total(scorer, sums) \in Nat /\ Total(scorer, sums') \in Nat
      /\ Total(scorer, sums) <= Total(scorer, sums')
  BY TotalGrows
<1>2. /\ Composite(scorer, heads, tails) \in 0..40
      /\ Composite(scorer, heads, tails) <= Composite(scorer, heads', tails')
  BY CompositeGrows
<1>3. Composite(scorer, heads', tails') \in 0..40
  BY CompositeGrows
<1>4. scorer = "support" => /\ SupportTotal(sums) = Total(scorer, sums)
                            /\ SupportTotal(sums') = Total(scorer, sums')
  BY DEF Total
<1>5. methods \in Nat /\ methods' \in Nat /\ scorer' = scorer /\ listed' = listed
  OBVIOUS
<1> QED
  BY ONLY <1>1, <1>2, <1>3, <1>4, <1>5, methods <= methods' DEF Score, ScoreOf, AtMost

LEMMA StepNeverLowers ==
  ASSUME ScamTypeOK, ScamTypeOK', ScamNext
  PROVE  ScoreOf(scorer', listed', sums', heads', tails', methods') >= Score
<1> USE DEF ScamNext, ScamTypeOK
<1>1. CASE NewPhrase
  <2>1. PICK c \in DOMAIN Caps(scorer), w \in Nat : sums' = AddCategory(c, w)
    BY <1>1, PhraseSteps
  <2>2. \A d \in DOMAIN Caps(scorer) : sums[d] <= sums'[d]
    BY <2>1, PhraseRaises
  <2> QED
    BY <1>1, <2>2, ScoreGrows DEF NewPhrase
<1>2. CASE NewToken
  BY <1>2, ScoreGrows DEF NewToken
<1>3. CASE NewMethod
  BY <1>3, ScoreGrows DEF NewMethod, WalletMethods
<1> QED
  BY <1>1, <1>2, <1>3

-----------------------------------------------------------------------------
(* Kinds of evidence *)

\* A set of one or two elements has no others.
LEMMA FewElements ==
  ASSUME NEW S, IsFiniteSet(S)
  PROVE  /\ Cardinality(S) = 0 => S = {}
         /\ Cardinality(S) <= 1 => \E a : S \subseteq {a}
         /\ Cardinality(S) <= 2 => \E a, b : S \subseteq {a, b}
<1>1. \A T : IsFiniteSet(T) => Cardinality(T) \in Nat /\ (Cardinality(T) = 0 <=> T = {})
  BY FS_CardinalityType, FS_EmptySet
<1>2. \A T : \A x \in T : IsFiniteSet(T) =>
        IsFiniteSet(T \ {x}) /\ Cardinality(T \ {x}) = Cardinality(T) - 1
  BY FS_RemoveElement
<1>3. \A T : IsFiniteSet(T) /\ Cardinality(T) <= 1 => \E a : T \subseteq {a}
  <2> SUFFICES ASSUME NEW T, IsFiniteSet(T), Cardinality(T) <= 1, NEW a \in T
               PROVE  T \subseteq {a}
    OBVIOUS
  <2>1. Cardinality(T \ {a}) = 0 /\ IsFiniteSet(T \ {a})
    BY <1>1, <1>2
  <2> QED
    BY <1>1, <2>1
<1>4. Cardinality(S) <= 2 => \E a, b : S \subseteq {a, b}
  <2> SUFFICES ASSUME Cardinality(S) <= 2, NEW a \in S PROVE \E b : S \subseteq {a, b}
    OBVIOUS
  <2>1. IsFiniteSet(S \ {a}) /\ Cardinality(S \ {a}) <= 1
    BY <1>1, <1>2
  <2>2. PICK b : S \ {a} \subseteq {b}
    BY <1>3, <2>1
  <2> QED
    BY <2>2
<1> QED
  BY <1>1, <1>3, <1>4

Shown == {c \in DOMAIN sums : sums[c] > 0}

LEMMA FinitelyMany == ScamTypeOK => IsFiniteSet(Shown)
<1> SUFFICES ASSUME ScamTypeOK PROVE IsFiniteSet(Shown)
  OBVIOUS
<1>1. \A a, b, c, d, e, f, g, h : IsFiniteSet({a, b, c, d, e, f, g, h})
  <2> SUFFICES ASSUME NEW a, NEW b, NEW c, NEW d, NEW e, NEW f, NEW g, NEW h
               PROVE  IsFiniteSet({a, b, c, d, e, f, g, h})
    OBVIOUS
  <2>1. IsFiniteSet({a, b}) /\ IsFiniteSet({c, d}) /\ IsFiniteSet({e, f}) /\ IsFiniteSet({g, h})
    <3>1. \A x : IsFiniteSet({x})
      BY FS_Singleton
    <3>2. \A S, T : IsFiniteSet(S) /\ IsFiniteSet(T) => IsFiniteSet(S \cup T)
      BY FS_Union
    <3>3. \A x, y : {x, y} = {x} \cup {y}
      OBVIOUS
    <3>4. \A x, y : IsFiniteSet({x, y})
      <4> SUFFICES ASSUME NEW x, NEW y PROVE IsFiniteSet({x, y})
        OBVIOUS
      <4>1. IsFiniteSet({x}) /\ IsFiniteSet({y})
        BY <3>1
      <4>2. IsFiniteSet({x} \cup {y})
        BY <3>2, <4>1
      <4>3. {x, y} = {x} \cup {y}
        BY <3>3
      <4> QED
        BY <4>2, <4>3
    <3> QED
      BY <3>4
  <2>2. IsFiniteSet({a, b} \cup {c, d}) /\ IsFiniteSet({e, f} \cup {g, h})
    BY <2>1, FS_Union
  <2>3. IsFiniteSet(({a, b} \cup {c, d}) \cup ({e, f} \cup {g, h}))
    BY <2>2, FS_Union
  <2>4. ({a, b} \cup {c, d}) \cup ({e, f} \cup {g, h}) = {a, b, c, d, e, f, g, h}
    OBVIOUS
  <2> QED
    BY <2>3, <2>4
<1>2. IsFiniteSet(DOMAIN Caps(scorer))
  <2>1. CASE scorer = "support"
    <3>1. DOMAIN Caps(scorer) = {"scareware", "payment_demand", "remote_tool", "brand", "gov", "phone"}
      BY <2>1, Categories DEF Caps
    <3>2. {"scareware", "payment_demand", "remote_tool", "brand", "gov", "phone"}
          = {"scareware", "payment_demand", "remote_tool", "brand", "gov", "phone", "phone", "phone"}
      OBVIOUS
    <3>3. IsFiniteSet({"scareware", "payment_demand", "remote_tool", "brand", "gov", "phone"})
      BY <1>1, <3>2
    <3> QED
      BY <3>1, <3>3
  <2>2. CASE scorer = "payment"
    <3>1. DOMAIN Caps(scorer) = {"gift_card", "wire", "tax_refund", "invoice", "lottery", "romance", "charity", "gov"}
      BY <2>2, Categories DEF Caps
    <3>2. {"gift_card", "wire", "tax_refund", "invoice", "lottery", "romance", "charity", "gov"}
          = {"gift_card", "wire", "tax_refund", "invoice", "lottery", "romance", "charity", "gov"}
      OBVIOUS
    <3>3. IsFiniteSet({"gift_card", "wire", "tax_refund", "invoice", "lottery", "romance", "charity", "gov"})
      BY <1>1, <3>2
    <3> QED
      BY <3>1, <3>3
  <2>3. CASE scorer = "drainer"
    <3>1. DOMAIN Caps(scorer) = {"airdrop", "revoke", "mint", "connect", "defi"}
      BY <2>3, Categories DEF Caps
    <3>2. {"airdrop", "revoke", "mint", "connect", "defi"}
          = {"airdrop", "revoke", "mint", "connect", "defi", "defi", "defi", "defi"}
      OBVIOUS
    <3>3. IsFiniteSet({"airdrop", "revoke", "mint", "connect", "defi"})
      BY <1>1, <3>2
    <3> QED
      BY <3>1, <3>3
  <2> QED
    BY <2>1, <2>2, <2>3 DEF ScamTypeOK, Scorers
<1>3. Shown \subseteq DOMAIN Caps(scorer)
  BY DEF Shown, ScamTypeOK
<1> QED
  BY <1>2, <1>3, FS_Subset

\* Two categories weigh twice a cap at most, and where none else shows, so does the sum.
LEMMA TwoWeigh ==
  ASSUME ScamTypeOK, NEW a, NEW b, Shown \subseteq {a, b}
  PROVE  Total(scorer, sums) <= 70 /\ (a = b => Total(scorer, sums) <= 35)
<1> DEFINE u(P) == IF a \in P THEN 35 ELSE 0
           v(P) == IF b \in P /\ a # b THEN 35 ELSE 0
<1>1. \A c \in DOMAIN Caps(scorer) : sums[c] \in Int /\ sums[c] <= u({c}) + v({c})
  BY DEF Shown, ScamTypeOK
<1>2. \A P : /\ u(P) \in Int /\ v(P) \in Int
              /\ u(P) <= 35 /\ v(P) <= 35 /\ (a = b => v(P) = 0)
  OBVIOUS
<1>3. \A P, c : c \notin P => u(P \cup {c}) = u(P) + u({c}) /\ v(P \cup {c}) = v(P) + v({c})
  OBVIOUS
<1> HIDE DEF u, v
<1>4. CASE scorer = "support"
  <2>1. Caps(scorer) = SupportCaps /\ Total(scorer, sums) = SupportTotal(sums)
    BY <1>4 DEF Caps, Total
  <2> DEFINE bound(t, P) == t \in Int /\ t <= u(P) + v(P)
  <2>2. \A t, P, c : bound(t, P) /\ c \notin P /\ c \in DOMAIN Caps(scorer)
                        => bound(t + sums[c], P \cup {c})
    <3> SUFFICES ASSUME NEW t, NEW P, NEW c, bound(t, P), c \notin P, c \in DOMAIN Caps(scorer)
                 PROVE  bound(t + sums[c], P \cup {c})
      OBVIOUS
    <3>1. sums[c] \in Int /\ sums[c] <= u({c}) + v({c})
      BY <1>1
    <3>2. u(P \cup {c}) = u(P) + u({c}) /\ v(P \cup {c}) = v(P) + v({c})
      BY <1>3
    <3>3. u(P) \in Int /\ v(P) \in Int /\ u({c}) \in Int /\ v({c}) \in Int
      BY <1>2
    <3> QED
      BY <3>1, <3>2, <3>3
  <2>3. bound(sums.scareware, {"scareware"})
    BY <1>1, <2>1, Categories
  <2> HIDE DEF bound
  <2>4. bound(sums.scareware + sums.payment_demand,
              {"scareware"} \cup {"payment_demand"})
    BY <2>1, <2>2, <2>3, Categories
  <2>5. bound(sums.scareware + sums.payment_demand + sums.remote_tool,
              {"scareware", "payment_demand"} \cup {"remote_tool"})
    <3> {"scareware", "payment_demand"} = {"scareware"} \cup {"payment_demand"}
      OBVIOUS
    <3> QED
      BY <2>1, <2>2, <2>4, Categories
  <2>6. bound(sums.scareware + sums.payment_demand + sums.remote_tool + sums.brand,
              {"scareware", "payment_demand", "remote_tool"} \cup {"brand"})
    <3> {"scareware", "payment_demand", "remote_tool"} = {"scareware", "payment_demand"} \cup {"remote_tool"}
      OBVIOUS
    <3> QED
      BY <2>1, <2>2, <2>5, Categories
  <2>7. bound(sums.scareware + sums.payment_demand + sums.remote_tool + sums.brand + sums.gov,
              {"scareware", "payment_demand", "remote_tool", "brand"} \cup {"gov"})
    <3> {"scareware", "payment_demand", "remote_tool", "brand"} = {"scareware", "payment_demand", "remote_tool"} \cup {"brand"}
      OBVIOUS
    <3> QED
      BY <2>1, <2>2, <2>6, Categories
  <2>8. bound(sums.scareware + sums.payment_demand + sums.remote_tool + sums.brand + sums.gov + sums.phone,
              {"scareware", "payment_demand", "remote_tool", "brand", "gov"} \cup {"phone"})
    <3> {"scareware", "payment_demand", "remote_tool", "brand", "gov"} = {"scareware", "payment_demand", "remote_tool", "brand"} \cup {"gov"}
      OBVIOUS
    <3> QED
      BY <2>1, <2>2, <2>7, Categories
  <2> QED
    BY <1>2, <2>1, <2>8 DEF SupportTotal, bound
<1>5. CASE scorer = "payment"
  <2>1. Caps(scorer) = PaymentCaps /\ Total(scorer, sums) = PaymentTotal(sums)
    BY <1>5 DEF Caps, Total
  <2> DEFINE bound(t, P) == t \in Int /\ t <= u(P) + v(P)
  <2>2. \A t, P, c : bound(t, P) /\ c \notin P /\ c \in DOMAIN Caps(scorer)
                        => bound(t + sums[c], P \cup {c})
    <3> SUFFICES ASSUME NEW t, NEW P, NEW c, bound(t, P), c \notin P, c \in DOMAIN Caps(scorer)
                 PROVE  bound(t + sums[c], P \cup {c})
      OBVIOUS
    <3>1. sums[c] \in Int /\ sums[c] <= u({c}) + v({c})
      BY <1>1
    <3>2. u(P \cup {c}) = u(P) + u({c}) /\ v(P \cup {c}) = v(P) + v({c})
      BY <1>3
    <3>3. u(P) \in Int /\ v(P) \in Int /\ u({c}) \in Int /\ v({c}) \in Int
      BY <1>2
    <3> QED
      BY <3>1, <3>2, <3>3
  <2>3. bound(sums.gift_card, {"gift_card"})
    BY <1>1, <2>1, Categories
  <2> HIDE DEF bound
  <2>4. bound(sums.gift_card + sums.wire,
              {"gift_card"} \cup {"wire"})
    BY <2>1, <2>2, <2>3, Categories
  <2>5. bound(sums.gift_card + sums.wire + sums.tax_refund,
              {"gift_card", "wire"} \cup {"tax_refund"})
    <3> {"gift_card", "wire"} = {"gift_card"} \cup {"wire"}
      OBVIOUS
    <3> QED
      BY <2>1, <2>2, <2>4, Categories
  <2>6. bound(sums.gift_card + sums.wire + sums.tax_refund + sums.invoice,
              {"gift_card", "wire", "tax_refund"} \cup {"invoice"})
    <3> {"gift_card", "wire", "tax_refund"} = {"gift_card", "wire"} \cup {"tax_refund"}
      OBVIOUS
    <3> QED
      BY <2>1, <2>2, <2>5, Categories
  <2>7. bound(sums.gift_card + sums.wire + sums.tax_refund + sums.invoice + sums.lottery,
              {"gift_card", "wire", "tax_refund", "invoice"} \cup {"lottery"})
    <3> {"gift_card", "wire", "tax_refund", "invoice"} = {"gift_card", "wire", "tax_refund"} \cup {"invoice"}
      OBVIOUS
    <3> QED
      BY <2>1, <2>2, <2>6, Categories
  <2>8. bound(sums.gift_card + sums.wire + sums.tax_refund + sums.invoice + sums.lottery + sums.romance,
              {"gift_card", "wire", "tax_refund", "invoice", "lottery"} \cup {"romance"})
    <3> {"gift_card", "wire", "tax_refund", "invoice", "lottery"} = {"gift_card", "wire", "tax_refund", "invoice"} \cup {"lottery"}
      OBVIOUS
    <3> QED
      BY <2>1, <2>2, <2>7, Categories
  <2>9. bound(sums.gift_card + sums.wire + sums.tax_refund + sums.invoice + sums.lottery + sums.romance + sums.charity,
              {"gift_card", "wire", "tax_refund", "invoice", "lottery", "romance"} \cup {"charity"})
    <3> {"gift_card", "wire", "tax_refund", "invoice", "lottery", "romance"} = {"gift_card", "wire", "tax_refund", "invoice", "lottery"} \cup {"romance"}
      OBVIOUS
    <3> QED
      BY <2>1, <2>2, <2>8, Categories
  <2>10. bound(sums.gift_card + sums.wire + sums.tax_refund + sums.invoice + sums.lottery + sums.romance + sums.charity + sums.gov,
              {"gift_card", "wire", "tax_refund", "invoice", "lottery", "romance", "charity"} \cup {"gov"})
    <3> {"gift_card", "wire", "tax_refund", "invoice", "lottery", "romance", "charity"} = {"gift_card", "wire", "tax_refund", "invoice", "lottery", "romance"} \cup {"charity"}
      OBVIOUS
    <3> QED
      BY <2>1, <2>2, <2>9, Categories
  <2> QED
    BY <1>2, <2>1, <2>10 DEF PaymentTotal, bound
<1>6. CASE scorer = "drainer"
  <2>1. Caps(scorer) = DrainerCaps /\ Total(scorer, sums) = DrainerTotal(sums)
    BY <1>6 DEF Caps, Total
  <2> DEFINE bound(t, P) == t \in Int /\ t <= u(P) + v(P)
  <2>2. \A t, P, c : bound(t, P) /\ c \notin P /\ c \in DOMAIN Caps(scorer)
                        => bound(t + sums[c], P \cup {c})
    <3> SUFFICES ASSUME NEW t, NEW P, NEW c, bound(t, P), c \notin P, c \in DOMAIN Caps(scorer)
                 PROVE  bound(t + sums[c], P \cup {c})
      OBVIOUS
    <3>1. sums[c] \in Int /\ sums[c] <= u({c}) + v({c})
      BY <1>1
    <3>2. u(P \cup {c}) = u(P) + u({c}) /\ v(P \cup {c}) = v(P) + v({c})
      BY <1>3
    <3>3. u(P) \in Int /\ v(P) \in Int /\ u({c}) \in Int /\ v({c}) \in Int
      BY <1>2
    <3> QED
      BY <3>1, <3>2, <3>3
  <2>3. bound(sums.airdrop, {"airdrop"})
    BY <1>1, <2>1, Categories
  <2> HIDE DEF bound
  <2>4. bound(sums.airdrop + sums.revoke,
              {"airdrop"} \cup {"revoke"})
    BY <2>1, <2>2, <2>3, Categories
  <2>5. bound(sums.airdrop + sums.revoke + sums.mint,
              {"airdrop", "revoke"} \cup {"mint"})
    <3> {"airdrop", "revoke"} = {"airdrop"} \cup {"revoke"}
      OBVIOUS
    <3> QED
      BY <2>1, <2>2, <2>4, Categories
  <2>6. bound(sums.airdrop + sums.revoke + sums.mint + sums.connect,
              {"airdrop", "revoke", "mint"} \cup {"connect"})
    <3> {"airdrop", "revoke", "mint"} = {"airdrop", "revoke"} \cup {"mint"}
      OBVIOUS
    <3> QED
      BY <2>1, <2>2, <2>5, Categories
  <2>7. bound(sums.airdrop + sums.revoke + sums.mint + sums.connect + sums.defi,
              {"airdrop", "revoke", "mint", "connect"} \cup {"defi"})
    <3> {"airdrop", "revoke", "mint", "connect"} = {"airdrop", "revoke", "mint"} \cup {"connect"}
      OBVIOUS
    <3> QED
      BY <2>1, <2>2, <2>6, Categories
  <2> QED
    BY <1>2, <2>1, <2>7 DEF DrainerTotal, bound
<1> QED
  BY <1>4, <1>5, <1>6 DEF ScamTypeOK, Scorers

LEMMA ThresholdsHold == ScamTypeOK => ThresholdsNeedKinds
<1> SUFFICES ASSUME ScamTypeOK, methods = 0
             PROVE  /\ Score >= ThresholdBlock => Kinds >= 2
                    /\ Score >= ThresholdHardBlock => Kinds >= 3
  BY DEF ThresholdsNeedKinds
<1> DEFINE n == Cardinality(Shown)
           t == Total(scorer, sums)
           k == Composite(scorer, heads, tails)
<1>1. n \in Nat
  BY FinitelyMany, FS_CardinalityType
<1>2. n = 0 => t <= 0
  <2> SUFFICES ASSUME Shown = {} PROVE t <= 0
    BY FinitelyMany, FewElements
  <2>1. \A c \in DOMAIN Caps(scorer) : sums[c] <= 0
    BY DEF Shown, ScamTypeOK
  <2> DEFINE z == [c \in DOMAIN Caps(scorer) |-> 0]
  <2>2. z \in [DOMAIN Caps(scorer) -> 0..35] /\ (\A c \in DOMAIN Caps(scorer) : sums[c] <= z[c])
    BY <2>1
  <2>3. t <= Total(scorer, z)
    BY <2>2, TotalGrows DEF ScamTypeOK
  <2>4. Total(scorer, z) = 0
    <3>1. CASE scorer = "support"
      BY <3>1, Categories DEF Caps, Total, SupportTotal
    <3>2. CASE scorer = "payment"
      BY <3>2, Categories DEF Caps, Total, PaymentTotal
    <3>3. CASE scorer = "drainer"
      BY <3>3, Categories DEF Caps, Total, DrainerTotal
    <3> QED
      BY <3>1, <3>2, <3>3 DEF ScamTypeOK, Scorers
  <2> QED
    BY <2>3, <2>4
<1>3. n <= 1 => t <= 35
  <2> SUFFICES ASSUME n <= 1 PROVE t <= 35
    OBVIOUS
  <2>1. PICK a : Shown \subseteq {a}
    BY FinitelyMany, FewElements
  <2> QED
    BY <2>1, TwoWeigh
<1>4. n <= 2 => t <= 70
  <2> SUFFICES ASSUME n <= 2 PROVE t <= 70
    OBVIOUS
  <2>1. PICK a, b : Shown \subseteq {a, b}
    BY FinitelyMany, FewElements
  <2> QED
    BY <2>1, TwoWeigh
<1>5. k \in 0..40
  BY CompositeGrows DEF ScamTypeOK
<1>6. t \in Nat
  BY TotalGrows DEF ScamTypeOK
<1>7. Kinds = n + (IF k > 0 THEN 1 ELSE 0)
  BY DEF Kinds, Shown
<1>8. Score \in Int /\ Score <= t + k
  <2>1. scorer = "support" => SupportTotal(sums) = t
    BY DEF Total
  <2> HIDE DEF t, k
  <2> QED
    BY <1>5, <1>6, <2>1, methods = 0 DEF Score, ScoreOf, AtMost, t, k
<1> HIDE DEF n, t, k
<1> QED
  BY <1>1, <1>2, <1>3, <1>4, <1>5, <1>6, <1>7, <1>8 DEF ThresholdBlock, ThresholdHardBlock

-----------------------------------------------------------------------------
\* For a page of any length, thresholds need several kinds of evidence, and showing more
\* of a scam never lowers the score.
THEOREM ScoresHold == ScamSpec => ScoresAreSound
<1>1. ScamInit => ScamTypeOK
  BY InitTypes
<1>2. ScamTypeOK /\ [ScamNext]_scamVars => ScamTypeOK'
  BY NextTypes
<1>3. ScamTypeOK => ThresholdsNeedKinds
  BY ThresholdsHold
<1>4. ScamTypeOK /\ ScamTypeOK' /\ [ScamNext]_scamVars
        => [ScoreOf(scorer', listed', sums', heads', tails', methods') >= Score]_scamVars
  <2> SUFFICES ASSUME ScamTypeOK, ScamTypeOK', [ScamNext]_scamVars, ~UNCHANGED scamVars
               PROVE  ScoreOf(scorer', listed', sums', heads', tails', methods') >= Score
    OBVIOUS
  <2> QED
    BY StepNeverLowers
<1> QED
  BY <1>1, <1>2, <1>3, <1>4, PTL DEF ScamSpec, ScoresAreSound, ShowingMoreNeverLowers
=============================================================================
