---------------------------- MODULE GossipConfig ----------------------------
(***************************************************************************)
(* GossipConfig (src/vm/gossip_item.go): the defaults and Validate, which  *)
(* Initialize applies before anything else is set up.                      *)
(*                                                                         *)
(* Durations are whole milliseconds. Fractions (stake share, bloom false-  *)
(* positive rate and reset threshold) are in thousandths, so 0.9 is 900;   *)
(* the defaults and the checks' bounds 0 and 1 are exact in that unit.     *)
(***************************************************************************)
EXTENDS Integers

One == 1000   \* the fraction 1.0, in thousandths

\* The fields Validate checks, in the order it checks them.
Fields == <<"PushGossipPercentStake", "PushGossipNumValidators",
            "PushGossipNumPeers", "PushGossipFrequency", "PullGossipFrequency",
            "PushRegossipNumValidators", "PushRegossipNumPeers",
            "RegossipFrequency", "BloomFilterSize", "BloomFalsePositiveRate",
            "BloomResetThreshold">>

FieldSet == {Fields[i] : i \in 1..11}

\* DefaultGossipConfig.
DefaultGossipConfig ==
    [PushGossipPercentStake    |-> 900,
     PushGossipNumValidators   |-> 100,
     PushGossipNumPeers        |-> 0,
     PushGossipFrequency       |-> 100,
     PullGossipFrequency       |-> 1000,
     PushRegossipNumValidators |-> 10,
     PushRegossipNumPeers      |-> 0,
     RegossipFrequency         |-> 30000,
     BloomFilterSize           |-> 8192,
     BloomFalsePositiveRate    |-> 10,
     BloomResetThreshold       |-> 50]

\* The check GossipConfig.Validate makes of one field: TRUE when it passes.
FieldOK(c, f) ==
    CASE f = "PushGossipPercentStake"    -> ~(c[f] < 0 \/ c[f] > One)
      [] f = "PushGossipNumValidators"   -> ~(c[f] < 0)
      [] f = "PushGossipNumPeers"        -> ~(c[f] < 0)
      [] f = "PushGossipFrequency"       -> ~(c[f] <= 0)
      [] f = "PullGossipFrequency"       -> ~(c[f] <= 0)
      [] f = "PushRegossipNumValidators" -> ~(c[f] < 0)
      [] f = "PushRegossipNumPeers"      -> ~(c[f] < 0)
      [] f = "RegossipFrequency"         -> ~(c[f] <= 0)
      [] f = "BloomFilterSize"           -> ~(c[f] <= 0)
      [] f = "BloomFalsePositiveRate"    -> ~(c[f] <= 0 \/ c[f] >= One)
      [] f = "BloomResetThreshold"       -> ~(c[f] <= 0 \/ c[f] >= One)

\* A fault: Validate without its last check, the reset threshold's.
Validate_NoResetCheck(c) ==
    IF \A i \in 1..10 : FieldOK(c, Fields[i])
    THEN "ok"
    ELSE Fields[CHOOSE i \in 1..10 :
                    /\ ~FieldOK(c, Fields[i])
                    /\ \A j \in 1..(i - 1) : FieldOK(c, Fields[j])]

\* GossipConfig.Validate: nil, or the error of the first field that fails,
\* named by that field.
Validate(c) ==
    IF \A i \in 1..11 : FieldOK(c, Fields[i])
    THEN "ok"
    ELSE Fields[CHOOSE i \in 1..11 :
                    /\ ~FieldOK(c, Fields[i])
                    /\ \A j \in 1..(i - 1) : FieldOK(c, Fields[j])]

-----------------------------------------------------------------------------
(* The reference: spec section 2, Gossip Configuration, read field by      *)
(* field. Fractions lie in [0,1], counts are non-negative, durations are   *)
(* positive, the filter's rates lie in (0,1) and its size is positive.     *)

Fractions == {"PushGossipPercentStake"}
Counts    == {"PushGossipNumValidators", "PushGossipNumPeers",
              "PushRegossipNumValidators", "PushRegossipNumPeers"}
Durations == {"PushGossipFrequency", "PullGossipFrequency", "RegossipFrequency"}
Rates     == {"BloomFalsePositiveRate", "BloomResetThreshold"}

SpecValidField(c, f) ==
    \/ f \in Fractions /\ c[f] \in 0..One
    \/ f \in Counts    /\ c[f] >= 0
    \/ f \in Durations /\ c[f] > 0
    \/ f \in Rates     /\ c[f] \in 1..(One - 1)
    \/ f = "BloomFilterSize" /\ c[f] > 0

\* The values tried for each field: its edges and a value either side.
Probes(f) ==
    IF f \in Fractions \cup Rates THEN {-1, 0, 1, One - 1, One, One + 1}
                                  ELSE {-1, 0, 1}

\* The configurations a node may be started with: the defaults, and the
\* defaults with one field at or just beyond an edge.
ProbeConfigs ==
    {DefaultGossipConfig} \cup
    UNION {{[DefaultGossipConfig EXCEPT ![f] = v] : v \in Probes(f)} : f \in FieldSet}

=============================================================================
