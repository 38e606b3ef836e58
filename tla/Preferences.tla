----------------------------- MODULE Preferences -----------------------------
(***************************************************************************)
(* The capability preference of an agent: the defaults, what each keyword  *)
(* sets, and the two short cuts that set several fields at once.  Weights  *)
(* and thresholds are in hundredths.                                       *)
(***************************************************************************)
EXTENDS Integers, SequencesExt

CONSTANT MaxKeywords  \* ZHIO_CFG_MAX_KEYWORDS

ASSUME KeywordsAssumption == MaxKeywords \in Nat

RoutingModes == {"LOCAL_ONLY", "LOCAL_FIRST", "CLOUD_FIRST", "CLOUD_ONLY", "AUTO"}
SafetyLevels == <<"LOW", "MEDIUM", "HIGH", "CRITICAL">>

Defaults == [safety |-> "MEDIUM", vision |-> 50, motion |-> 50, guard |-> 50,
             force |-> 50, quality |-> 50, routing |-> "LOCAL_FIRST", threshold |-> 70,
             cloud |-> TRUE, privacy |-> FALSE, latency |-> FALSE, accuracy |-> FALSE,
             forceLimit |-> 100]

(* What memset leaves: the first routing mode and the lowest level.        *)
ZeroPreference == [safety |-> "LOW", vision |-> 0, motion |-> 0, guard |-> 0,
                   force |-> 0, quality |-> 0, routing |-> "LOCAL_ONLY", threshold |-> 0,
                   cloud |-> FALSE, privacy |-> FALSE, latency |-> FALSE,
                   accuracy |-> FALSE, forceLimit |-> 0]

(* The fields each keyword sets, in the order of apply_keyword: cautious   *)
(* mode, highest safety, vision first, vision enhanced, motion first,      *)
(* safety first, conservative force, quality first, cloud allowed, cloud   *)
(* assistance allowed, cloud desensitised, local only, local first, cloud  *)
(* first, cloud only, automatic, latency first, accuracy first.            *)
Effects ==
  [cautious      |-> [safety |-> "HIGH"],
   highestSafety |-> [safety |-> "CRITICAL", cloud |-> FALSE],
   visionFirst   |-> [vision |-> 80, threshold |-> 60],
   visionPlus    |-> [vision |-> 90],
   motionFirst   |-> [motion |-> 80],
   safetyFirst   |-> [guard |-> 80, safety |-> "HIGH"],
   softForce     |-> [force |-> 80, forceLimit |-> 50],
   qualityFirst  |-> [quality |-> 80, accuracy |-> TRUE],
   allowCloud    |-> [cloud |-> TRUE, privacy |-> FALSE],
   allowAssist   |-> [cloud |-> TRUE],
   maskCloud     |-> [cloud |-> TRUE, privacy |-> TRUE],
   localOnly     |-> [cloud |-> FALSE, routing |-> "LOCAL_ONLY"],
   localFirst    |-> [routing |-> "LOCAL_FIRST", threshold |-> 70],
   cloudFirst    |-> [routing |-> "CLOUD_FIRST", cloud |-> TRUE],
   cloudOnly     |-> [routing |-> "CLOUD_ONLY", cloud |-> TRUE],
   auto          |-> [routing |-> "AUTO"],
   latencyFirst  |-> [latency |-> TRUE],
   accuracyFirst |-> [accuracy |-> TRUE]]

(* apply_keyword: a keyword it does not know changes nothing.              *)
ApplyKeyword(p, k) ==
  IF k \in DOMAIN Effects
    THEN [f \in DOMAIN p |-> IF f \in DOMAIN Effects[k] THEN Effects[k][f] ELSE p[f]]
    ELSE p

(* The keywords that comm_config_parse finds between the quotes: empty     *)
(* ones are skipped, and those beyond the limit are not looked at.         *)
ParsedWords(sent) ==
  LET found[n \in 0..Len(sent)] ==
        IF n = 0 THEN <<>>
        ELSE IF sent[n] = "" \/ Len(found[n - 1]) >= MaxKeywords THEN found[n - 1]
        ELSE Append(found[n - 1], sent[n])
  IN  found[Len(sent)]

(* As ByKeywords, from the last keyword to the first.                      *)
ByKeywordsReversed(words) == FoldLeft(ApplyKeyword, Defaults, Reverse(words))

(* iConfigureAutoAgentByKeywords starts again from the defaults.           *)
ByKeywords(words) ==
  LET applied[n \in 0..Len(words)] ==
        IF n = 0 THEN Defaults ELSE ApplyKeyword(applied[n - 1], words[n])
  IN  applied[Len(words)]

(* iSetAgentPreference: the bits are looked at one after the other.        *)
ByMask(p, mask) ==
  LET local    == IF "LOCAL_ONLY" \in mask
                    THEN [p EXCEPT !.routing = "LOCAL_ONLY", !.cloud = FALSE] ELSE p
      cloud    == IF "CLOUD_ALLOWED" \in mask THEN [local EXCEPT !.cloud = TRUE] ELSE local
      accuracy == IF "ACCURACY" \in mask
                    THEN [cloud EXCEPT !.accuracy = TRUE, !.latency = FALSE] ELSE cloud
  IN  IF "LATENCY" \in mask
        THEN [accuracy EXCEPT !.latency = TRUE, !.accuracy = FALSE] ELSE accuracy

MaskBits == {"LOCAL_ONLY", "CLOUD_ALLOWED", "ACCURACY", "LATENCY"}

(* iSetAgentSafetyLevel: only CRITICAL closes the cloud, and a lower level *)
(* opens nothing again.                                                    *)
BySafetyLevel(p, level) ==
  LET set    == [p EXCEPT !.safety = level]
      closed == IF level = "CRITICAL"
                  THEN [set EXCEPT !.cloud = FALSE, !.routing = "LOCAL_ONLY"] ELSE set
  IN  IF level \in {"HIGH", "CRITICAL"} THEN [closed EXCEPT !.threshold = 85] ELSE closed

(* What a list of keywords means, field by field: the last keyword that    *)
(* speaks of the field decides, and where none does the default stays.     *)
MeaningOf(words) ==
  [f \in DOMAIN Defaults |->
     LET speak == {i \in DOMAIN words : words[i] \in DOMAIN Effects
                                          /\ f \in DOMAIN Effects[words[i]]}
     IN  IF speak = {} THEN Defaults[f]
         ELSE Effects[words[CHOOSE i \in speak : \A j \in speak : j <= i]][f]]
=============================================================================
