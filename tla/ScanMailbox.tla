---------------------------- MODULE ScanMailbox -----------------------------
(***************************************************************************)
(* What the Coin D4 handler promises between its grab and publish threads: *)
(* a mailbox that holds the latest scan only.  The producer writes a scan  *)
(* and then announces it; the consumer accepts one announcement at a time  *)
(* and fetches whatever scan is then the latest.  Scans may be skipped,    *)
(* one may be fetched twice (an announcement that arrives between an       *)
(* accept and its fetch is served again), but none is fetched before it is *)
(* announced, none is fetched out of order, and no announcement is lost.   *)
(***************************************************************************)
EXTENDS Naturals

VARIABLES
    latest,       (* number of the scan in the mailbox, 0 when empty *)
    unannounced,  (* is it written and not announced yet?            *)
    pending,      (* is there an announcement to accept?             *)
    serving,      (* has the consumer accepted one?                  *)
    fetched       (* number of the scan fetched last                 *)

mailVars == <<latest, unannounced, pending, serving, fetched>>

Init ==
    /\ latest = 0 /\ fetched = 0
    /\ unannounced = FALSE /\ pending = FALSE /\ serving = FALSE

Write ==
    /\ ~unannounced
    /\ latest' \in Nat /\ latest' > latest
    /\ unannounced' = TRUE
    /\ UNCHANGED <<pending, serving, fetched>>

Announce ==
    /\ unannounced
    /\ unannounced' = FALSE
    /\ pending' = TRUE
    /\ UNCHANGED <<latest, serving, fetched>>

Accept ==
    /\ pending /\ ~serving
    /\ pending' = FALSE
    /\ serving' = TRUE
    /\ UNCHANGED <<latest, unannounced, fetched>>

Fetch ==
    /\ serving /\ ~unannounced
    /\ latest # 0
    /\ fetched' = latest
    /\ serving' = FALSE
    /\ UNCHANGED <<latest, unannounced, pending>>

Next == Write \/ Announce \/ Accept \/ Fetch

Spec == Init /\ [][Next]_mailVars
=============================================================================
