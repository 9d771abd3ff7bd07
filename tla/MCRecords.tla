------------------------------ MODULE MCRecords ------------------------------
(***************************************************************************)
(* What the control plane keeps on disk and what is read back from it, one *)
(* component at a time: the evidence chain, the revocation feed and the    *)
(* acknowledgement ledger as files, the registers and views drawn from the *)
(* log, air-gapped bundles, the state log on a failing disk, and the feed  *)
(* as mediators follow it.                                                 *)
(***************************************************************************)
EXTENDS EvidenceChain, FeedFiles, Views, Bundles, StateLog, Containment, TLC

CONSTANTS
    Parts,                \* the components that are run
    a, b, c1, m1, m2, m3, k1, t1, t2, e1, e2, ma, mb, mc

VARIABLE part

\* Evidence: a failure-tolerant sink for everything, a blocking one for what is
\* high risk.
MCSinks == <<[filter |-> "All", delivery |-> "FailSafe"],
             [filter |-> "HighRisk", delivery |-> "Blocking"]>>

\* Views: three parties, three tools, contracts of a day.
MCProfile ==
    ma :> [tier |-> 1, outside |-> FALSE, service |-> "pay", rank |-> 1, keys |-> {{"get", "rate"}}]
    @@ mb :> [tier |-> 2, outside |-> TRUE, service |-> Unrecorded, rank |-> 2, keys |-> {{"rate"}}]
    @@ mc :> [tier |-> 2, outside |-> FALSE, service |-> "pay", rank |-> 3, keys |-> {{"rate"}, {"wire"}}]
MCWelcome == {<<ma, mb>>, <<mb, mc>>, <<mc, ma>>, <<mb, ma>>}
MCFounders == <<ma, mb>>
MCQueries == {{}, {"rate"}, {"get", "rate"}, {"wire"}}

\* Bundles: two tenants that sign with one key, a contract each, two sites.
MCTenantDefs == {[id |-> t, mode |-> "enforce", key |-> "k", kid |-> "k-1"] : t \in {"default", "bank"}}
MCIssuerId == "default" :> "plane-1" @@ "bank" :> "plane-2"
MCDealOf == "d1" :> "default" @@ "d2" :> "bank"
MCDealFor == "d1" :> "m1" @@ "d2" :> "m1"

\* Containment: one contract between two parties.
MCEnds == c1 :> {a, b}
MCAudience == c1 :> {m3}

-----------------------------------------------------------------------------
(* Each component by itself: the others stay as they are at the start, and *)
(* the views' estate new.                                                  *)
RecordsInit ==
    /\ part \in Parts
    /\ ChainInit
    /\ ViewsInit /\ (part = "views" <=> log # <<>>)
    /\ FilesInit
    /\ BundlesInit
    /\ Init
    /\ CutsInit

\* What a step of component c leaves alone.
Others(c) ==
    /\ UNCHANGED part
    /\ c # "evidence" => UNCHANGED chainVars
    /\ c # "files" => UNCHANGED fileVars
    /\ c # "views" => UNCHANGED viewVars
    /\ c # "bundles" => UNCHANGED bundleVars
    /\ c # "log" => UNCHANGED vars
    /\ c # "cuts" => UNCHANGED cutVars

RecordsNext ==
    \/ part = "evidence" /\ ChainNext /\ Others("evidence")
    \/ part = "files" /\ FilesNext /\ Others("files")
    \/ part = "views" /\ ViewsNext /\ Others("views")
    \/ part = "bundles" /\ BundlesNext /\ Others("bundles")
    \/ part = "log" /\ Next /\ Others("log")
    \/ part = "cuts" /\ CutsNext /\ Others("cuts")

RecordsVars == <<part, chainVars, fileVars, viewVars, bundleVars, vars, cutVars>>

RecordsSpec == RecordsInit /\ [][RecordsNext]_RecordsVars

-----------------------------------------------------------------------------
(* State constraint, where a component needs one: three rows of evidence,  *)
(* which a second retirement needs, are followed without backups,          *)
(* alterations and spoiled anchors, and a backup on the last day without   *)
(* an overlapping retirement or an alteration, about which nothing is      *)
(* promised; entries on the feed and acknowledgements on the wire (three   *)
(* at most), which meet only in the plane and the log, are not combined;   *)
(* the views have one observer at a time, and two frames and two registers *)
(* once the first day has passed; nothing follows an import of a bundle.   *)
Bounded ==
    /\ part = "evidence" =>
        /\ Len(hist) <= 2 \/ (backup.pc = "none" /\ ~edited /\ AnchorsLegible)
        /\ backup.pc = "none" \/ (~mishap /\ ~edited /\ clock = MaxClock)
    /\ part = "files" => (file = <<>> \/ wire = {}) /\ Cardinality(wire) <= 3
    /\ part = "views" =>
        /\ scraped \/ gauges.entities # <<>> => filed = {} /\ Len(log) <= 6
        /\ calendar > 0 => Len(log) <= 6 /\ Cardinality(filed) <= 2
    /\ part = "bundles" => loaded = {}
=============================================================================
