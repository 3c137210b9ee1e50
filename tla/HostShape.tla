------------------------------ MODULE HostShape ------------------------------
(***************************************************************************)
(* What verdict-api reads from the name of a host alone (internal/tier1):  *)
(* how near it is to a brand's keyword, whether it looks random, and the   *)
(* sum of the signals.                                                     *)
(*                                                                         *)
(* A host is its first label, a sequence of letters.  It starts as a       *)
(* keyword and is edited a letter at a time, the way a look-alike is made; *)
(* `edits` is how often.  Weights are in hundredths.  The age of the       *)
(* certificate and the score of the DGA classifier, a sum of logarithms,   *)
(* may be anything.                                                        *)
(***************************************************************************)
EXTENDS Integers, Sequences, FiniteSets, SequencesExt

CONSTANTS
  Keywords,  \* sequence of words: the brands' keywords, in the order of this request
  Letters,   \* what an edit may write
  MaxEdits   \* bound on the edits

ASSUME KeywordsAssumption == \A k \in DOMAIN Keywords : Len(Keywords[k]) > 0
ASSUME MaxEditsAssumption == MaxEdits \in Nat

VARIABLES
  host,  \* the word
  edits  \* how many edits made it

shapeVars == <<host, edits>>

Vowels == {"a", "e", "i", "o", "u"}
Digits == {"0", "1", "3", "4", "5", "7"}

-----------------------------------------------------------------------------
(* Edit distance *)

Min3(a, b, c) == LET m == IF b < a THEN b ELSE a IN IF c < m THEN c ELSE m

\* The inner loop: row i of the table from row i - 1; row[j + 1] is the cell for the
\* first j letters of b.
NextRow(prev, i, c, b) ==
  FoldLeft(LAMBDA row, j :
             Append(row, Min3(row[j] + 1, prev[j + 1] + 1,
                              prev[j] + (IF c = b[j] THEN 0 ELSE 1))),
           <<i>>, [j \in 1..Len(b) |-> j])

\* levenshtein
Distance(a, b) ==
  IF a = b THEN 0
  ELSE FoldLeft(LAMBDA prev, i : NextRow(prev, i, a[i], b),
                [j \in 1..(Len(b) + 1) |-> j - 1], [i \in 1..Len(a) |-> i])[Len(b) + 1]

-----------------------------------------------------------------------------
(* Look-alikes *)

Confusable(c) ==
  CASE c = "0" -> "o" [] c = "1" -> "l" [] c = "3" -> "e" [] c = "4" -> "a"
    [] c = "5" -> "s" [] c = "7" -> "t" [] OTHER -> c
NormalizeConfusables(w) == [k \in DOMAIN w |-> Confusable(w[k])]
OneAsI(w) == ReplaceAll(w, "1", "i")
\* "rn" read as "m".
RnAsM(w) ==
  FoldLeft(LAMBDA s, c :
             IF s # <<>> /\ Last(s) = "r" /\ c = "n" THEN Append(Front(s), "m")
             ELSE Append(s, c), <<>>, w)

\* normalizationVariants
Variants(w) ==
  {w, NormalizeConfusables(w), NormalizeConfusables(OneAsI(w)),
   NormalizeConfusables(RnAsM(w)), NormalizeConfusables(RnAsM(OneAsI(w)))}

Holds(w, k) == \E n \in 0..(Len(w) - Len(k)) : SubSeq(w, n + 1, n + Len(k)) = k

\* Faulty variant: two edits never count.
NearOnce(v, k) == Distance(v, k) = 1

\* One edit, or two of a keyword of six letters or more.
Near(v, k) == Distance(v, k) = 1 \/ (Distance(v, k) = 2 /\ Len(k) >= 6)

\* What the host weighs against one keyword.
Against(w, k) ==
  IF w = k THEN 0
  ELSE IF k \in Variants(w) THEN 85
  ELSE IF \E v \in Variants(w) : Near(v, k) THEN 70
  ELSE IF \E v \in Variants(w) : Holds(v, k) THEN 50
  ELSE 0

\* homoglyphScore: the first keyword that gives anything decides.
HomoglyphScore(w, keywords) ==
  LET hits == SelectSeq(keywords, LAMBDA k : Against(w, k) > 0)
  IN IF hits = <<>> THEN 0 ELSE Against(w, hits[1])

-----------------------------------------------------------------------------
(* Random names *)

NoDigits(w) == SelectSeq(w, LAMBDA c : c \notin Digits)
LowVowel(w) ==
  5 * Cardinality({n \in DOMAIN w : w[n] \in Vowels}) < Len(w)
ConsonantRun(w) ==
  \E n \in 1..(Len(w) - 3) : \A m \in n..(n + 3) : w[m] \notin Vowels
NoBigramTwice(w) ==
  Len(w) >= 8 /\ \A n, m \in 1..(Len(w) - 1) :
    n # m => SubSeq(w, n, n + 1) # SubSeq(w, m, m + 1)

\* RandomHostSignal: few vowels and one more of the three pillars.
RandomHost(w) ==
  LET l == NoDigits(w) IN
  IF Len(l) < 6 \/ ~LowVowel(l) THEN 0
  ELSE IF ConsonantRun(l) /\ NoBigramTwice(l) THEN 60
  ELSE IF ConsonantRun(l) \/ NoBigramTwice(l) THEN 40
  ELSE 0

-----------------------------------------------------------------------------
(* The sum *)

\* certScore: over a week or unreachable, under a week, under a day.
CertWeights == {0, 20, 40}
\* DGASignal: under 0.55, from there, from 0.7, from 0.85; nothing of names under
\* six letters.
DGAWeights(w) == IF Len(NoDigits(w)) < 6 THEN {0} ELSE {0, 35, 50, 60}

\* Run: the score is the sum over 1.5; from 0.2 it leads to a render.
Sum(w, cert, dga) == HomoglyphScore(w, Keywords) + cert + dga + RandomHost(w)
SendsToRender(w, cert, dga) == Sum(w, cert, dga) >= 30

ShapeInit ==
  /\ \E k \in DOMAIN Keywords : host = Keywords[k]
  /\ edits = 0

\* The host of the next request is one letter off.
Edit(w) ==
  /\ edits < MaxEdits
  /\ host' = w /\ edits' = edits + 1

Substitute == \E n \in DOMAIN host, c \in Letters : Edit(ReplaceAt(host, n, c))
Insert == \E n \in 1..(Len(host) + 1), c \in Letters : Edit(InsertAt(host, n, c))
Delete == \E n \in DOMAIN host : Len(host) > 1 /\ Edit(RemoveAt(host, n))

ShapeNext == Substitute \/ Insert \/ Delete
ShapeSpec == ShapeInit /\ [][ShapeNext]_shapeVars

-----------------------------------------------------------------------------
\* One word is the other with a letter written over, put in or left out.
OneEdit(a, b) ==
  \/ Len(a) = Len(b) /\ Cardinality({n \in DOMAIN a : a[n] # b[n]}) = 1
  \/ \E n \in DOMAIN a : RemoveAt(a, n) = b
  \/ \E n \in DOMAIN b : RemoveAt(b, n) = a

\* The table of levenshtein counts edits: a word is at distance one of a keyword if
\* and only if one edit leads there, and no further away than the edits that made it.
DistanceCountsEdits ==
  \A k \in DOMAIN Keywords :
    /\ Distance(host, Keywords[k]) = 1 <=> OneEdit(host, Keywords[k])
    /\ Distance(host, Keywords[k]) = Distance(Keywords[k], host)
    /\ \E j \in DOMAIN Keywords : Distance(host, Keywords[j]) <= edits

\* A name within the rule of a keyword is never missed, whichever keywords come before
\* that one, unless it is a keyword itself: the page goes to a render
\* whatever the certificate and the classifier say.
LookAlikesAreFound ==
  \A k \in DOMAIN Keywords :
    OneEdit(host, Keywords[k])
      \/ (Len(Keywords[k]) >= 6 /\ \E n \in DOMAIN host : OneEdit(RemoveAt(host, n), Keywords[k]))
    => host \in ToSet(Keywords)
         \/ \A cert \in CertWeights, dga \in DGAWeights(host) : SendsToRender(host, cert, dga)

\* An edit moves a host by at most one.
EditsMoveByOne ==
  [][edits' > edits => \A k \in DOMAIN Keywords :
       Distance(host', Keywords[k]) - Distance(host, Keywords[k]) \in -1..1]_shapeVars

\* tier1.go:113-115: a name that is a keyword is the legitimate brand and is skipped.
OwnNameIsSpared == host \in ToSet(Keywords) => HomoglyphScore(host, Keywords) = 0

\* The order in which the keywords are looked at, which is that of a map's iteration,
\* does not matter.
OrderIsImmaterial ==
  HomoglyphScore(host, Keywords) = HomoglyphScore(host, Reverse(Keywords))
=============================================================================
