------------------------------ MODULE Process ------------------------------
(***************************************************************************)
(* The mediator as a process (wc-mediator/src/bin/connect-mediate.rs and   *)
(* the metrics file of wc-mediator/src/obs.rs): the checks of a start, the *)
(* main thread that serves standard input, one worker per request under    *)
(* Warden core, the thread that refreshes contracts and reports usage, the *)
(* thread that writes the metrics, and the exit that stops them all.       *)
(***************************************************************************)
EXTENDS Naturals, FiniteSets

CONSTANTS
    Call,      \* requests on standard input
    Feature,   \* built with warden-proxy
    Inode,     \* files the metrics may be written to
    Nil,
    MaxTicks   \* bound on the refresher's and the flusher's rounds

ASSUME NilAssumption == Nil # TRUE

VARIABLES
    given,     \* the command line: [mode, source, peer, upstream, metrics]
    main,      \* where the main thread is
    installed, \* where the contracts held come from
    distrust,  \* the revocation set is distrusted
    gauge,     \* wc_revocation_trusted, Nil before it is set
    work,      \* [Call -> "unread", "doing", "answered"]
    used,      \* uses recorded and not yet reported
    taken,     \* uses the refresher, or the exit, took and has not sent
    reported,  \* uses the plane has
    failed,    \* uses in an acknowledgement that failed
    acked,     \* the plane was told the set is held
    fresh,     \* the refresher: [at, ticks]
    flusher,   \* [main or flusher -> [at, fd]]
    disk,      \* [tmp, path, whole]: whole is the set of files written to the end
    ended      \* how standard input ended: Nil, "eof" or "error"

processVars == <<given, main, installed, distrust, gauge, work, used, taken, reported,
                 failed, acked, fresh, flusher, disk, ended>>
threads == <<fresh, flusher, disk>>
traffic == <<work, used, taken, reported, failed>>
held == <<installed, distrust, gauge, acked>>

HasPlane == given.source \in {"plane", "both"}
HasFiles == given.source \in {"files", "both"}
Warden == given.mode = "warden"
Alive == main \notin {"refused", "exited"}

CommandLines ==
    [mode : {"standalone", "warden", "audit only"},
     source : {"none", "url only", "token only", "plane", "files", "both"},
     peer : {"configured", "mtls"}, upstream : {"none", "one", "two"}, metrics : BOOLEAN]

ProcessInit ==
    /\ given \in CommandLines
    /\ main = "mode" /\ installed = Nil /\ distrust = FALSE /\ gauge = Nil
    /\ work = [c \in Call |-> "unread"]
    /\ used = {} /\ taken = [t \in {"main", "fresh"} |-> {}] /\ reported = {} /\ failed = {}
    /\ acked = FALSE /\ fresh = [at |-> "off", ticks |-> 0]
    /\ flusher = [t \in {"main", "flusher"} |-> [at |-> "off", fd |-> Nil, ticks |-> 0]]
    /\ disk = [tmp |-> Nil, path |-> Nil, whole |-> {}]
    /\ ended = Nil

-----------------------------------------------------------------------------
(* run, up to the loop: each check passes the main thread on or refuses. *)

Check(from, passes, to) ==
    /\ main = from
    /\ main' = IF passes THEN to ELSE "refused"

\* which_mode.
CheckMode ==
    /\ Check("mode", given.mode = "standalone" \/ (Warden /\ Feature), "trust")
    /\ UNCHANGED <<given, ended, held, traffic, threads>>

\* The ids, build_trust and the decision log level.
BuildTrust(ok) ==
    /\ Check("trust", ok, "source")
    /\ UNCHANGED <<given, ended, held, traffic, threads>>

\* --contracts and --token go together, and there is some source of contracts.
CheckSource ==
    /\ Check("source", given.source \in {"plane", "files", "both"}, "inline")
    /\ UNCHANGED <<given, ended, held, traffic, threads>>

\* The files of --contract, verified under the keys of the start.
LoadInline(ok) ==
    /\ Check("inline", ok \/ ~ HasFiles, "first")
    /\ installed' = IF HasFiles /\ ok THEN "files" ELSE installed
    /\ UNCHANGED <<given, ended, distrust, gauge, acked, traffic, threads>>

\* The first refresh is a gate; its set replaces the files', and the refresher
\* starts from it.
FirstRefresh(ok, clean, heard) ==
    /\ Check("first", ok \/ ~ HasPlane, "announce")
    /\ IF HasPlane /\ ok
       THEN /\ installed' = "plane" /\ distrust' = ~ clean /\ acked' = heard
            /\ fresh' = [fresh EXCEPT !.at = "asleep"]
       ELSE UNCHANGED <<installed, distrust, acked, fresh>>
    /\ UNCHANGED <<given, ended, gauge, traffic, flusher, disk>>

\* Telemetry::cache_state.  Mutant: the source is left out.
CacheStateAlone == ~ distrust
CacheState == ~ distrust /\ HasPlane

\* The gauges are set and the file is written, before the remaining checks.
Announce ==
    /\ main = "announce"
    /\ gauge' = CacheState
    /\ main' = "peer"
    /\ flusher' = [flusher EXCEPT !["main"].at = IF given.metrics THEN "open" ELSE "off"]
    /\ UNCHANGED <<given, ended, installed, distrust, acked, traffic, fresh, disk>>

\* Only a configured peer applies to standard input.
CheckPeer ==
    /\ flusher["main"].at = "off"
    /\ Check("peer", given.peer = "configured", "upstream")
    /\ flusher' = [flusher EXCEPT !["main"].at =
                        IF given.metrics /\ given.peer = "configured" THEN "open" ELSE "off"]
    /\ UNCHANGED <<given, ended, held, traffic, fresh, disk>>

\* The flusher starts; then exactly one upstream, which can be opened.
OpenUpstream(ok) ==
    /\ flusher["main"].at = "off"
    /\ Check("upstream", ok /\ given.upstream = "one", "serving")
    /\ flusher' = [flusher EXCEPT !["flusher"].at = IF given.metrics THEN "asleep" ELSE "off"]
    /\ UNCHANGED <<given, ended, held, traffic, fresh, disk>>

-----------------------------------------------------------------------------
(* standalone_loop and warden_loop. *)

\* A line is read.  The standalone loop answers it before it reads another.
ReadRequest(c) ==
    /\ main = "serving" /\ ended = Nil /\ work[c] = "unread"
    /\ Warden \/ \A d \in Call : work[d] # "doing"
    /\ work' = [work EXCEPT ![c] = "doing"]
    /\ UNCHANGED <<given, ended, main, held, used, taken, reported, failed, threads>>

\* MediatedUpstream::request marks the contract used when it admits the call.
Admit(c) ==
    /\ Alive /\ work[c] = "doing" /\ c \notin used \cup taken["main"] \cup taken["fresh"]
                                              \cup reported \cup failed
    /\ used' = used \cup {c}
    /\ UNCHANGED <<given, ended, main, held, work, taken, reported, failed, threads>>

AnswerRequest(c) ==
    /\ Alive /\ work[c] = "doing"
    /\ work' = [work EXCEPT ![c] = "answered"]
    /\ UNCHANGED <<given, ended, main, held, used, taken, reported, failed, threads>>

\* The end of input, or a line that cannot be read.
EndInput(how) ==
    /\ main = "serving" /\ ended = Nil
    /\ Warden \/ \A d \in Call : work[d] # "doing"
    /\ ended' = how
    /\ UNCHANGED <<given, main, held, traffic, threads>>

\* The workers are joined, unless the input failed.  Mutant: they never are.
JoinedNever == TRUE
Joined == ended = "error" \/ \A c \in Call : work[c] # "doing"

LeaveLoop ==
    /\ main = "serving" /\ ended # Nil /\ Joined
    /\ main' = "usage"
    /\ UNCHANGED <<given, ended, held, traffic, threads>>

\* flush_usage takes what is left; a worker may still be at it after an error.
\* Mutant: what is left is kept for a tick that will not come.
FlushNothing ==
    /\ main' = "sent"
    /\ UNCHANGED <<used, taken>>
FlushUsage ==
    /\ main' = IF HasPlane /\ used # {} THEN "sending" ELSE "sent"
    /\ used' = IF HasPlane THEN {} ELSE used
    /\ taken' = IF HasPlane THEN [taken EXCEPT !["main"] = used] ELSE taken
TakeLast ==
    /\ main = "usage"
    /\ FlushUsage
    /\ UNCHANGED <<given, ended, held, work, reported, failed, threads>>

Deliver(t, ok) ==
    /\ reported' = IF ok THEN reported \cup taken[t] ELSE reported
    /\ failed' = IF ok THEN failed ELSE failed \cup taken[t]
    /\ taken' = [taken EXCEPT ![t] = {}]

SendLast(ok) ==
    /\ main = "sending" /\ main' = "sent"
    /\ Deliver("main", ok)
    /\ UNCHANGED <<given, ended, held, work, used, threads>>

LastFlush ==
    /\ main = "sent" /\ main' = "leaving"
    /\ flusher' = [flusher EXCEPT !["main"].at = IF given.metrics THEN "open" ELSE "off"]
    /\ UNCHANGED <<given, ended, held, traffic, fresh, disk>>

\* The process ends, and with it every thread, wherever it is.
Exit ==
    /\ main = "leaving" /\ flusher["main"].at = "off"
    /\ main' = "exited"
    /\ UNCHANGED <<given, ended, held, traffic, threads>>

-----------------------------------------------------------------------------
(* The refresher. *)

\* A tick: without keys the round is skipped before the gauges are set.
Tick(keys) ==
    /\ Alive /\ fresh.at = "asleep" /\ fresh.ticks < MaxTicks
    /\ fresh' = [at |-> IF keys THEN "fetching" ELSE "asleep", ticks |-> fresh.ticks + 1]
    /\ gauge' = IF keys THEN CacheState ELSE gauge
    /\ UNCHANGED <<given, ended, main, installed, distrust, acked, traffic, flusher, disk>>

\* client::refresh, in which the usage is taken whatever becomes of the answer.
RefreshAgain(ok, clean) ==
    /\ Alive /\ fresh.at = "fetching"
    /\ fresh' = [fresh EXCEPT !.at = IF ok THEN "acking" ELSE "asleep"]
    /\ distrust' = IF ok THEN ~ clean ELSE distrust
    /\ taken' = IF ok THEN [taken EXCEPT !["fresh"] = used] ELSE taken
    /\ used' = IF ok THEN {} ELSE used
    /\ UNCHANGED <<given, ended, main, installed, gauge, acked, work, reported, failed, flusher, disk>>

AckUsage(ok) ==
    /\ Alive /\ fresh.at = "acking"
    /\ fresh' = [fresh EXCEPT !.at = "asleep"]
    /\ Deliver("fresh", ok)
    /\ UNCHANGED <<given, ended, main, held, work, used, flusher, disk>>

-----------------------------------------------------------------------------
(* Telemetry::flush, by the main thread and by the flusher's: the file is     *)
(* created or emptied, written, and given its name.                           *)

Wake ==
    /\ Alive /\ flusher["flusher"].at = "asleep" /\ flusher["flusher"].ticks < MaxTicks
    /\ flusher' = [flusher EXCEPT !["flusher"].at = "open", !["flusher"].ticks = @ + 1]
    /\ UNCHANGED <<given, ended, main, held, traffic, fresh, disk>>

OpenTmp(t) ==
    /\ Alive /\ flusher[t].at = "open"
    /\ \E i \in Inode :
        /\ IF disk.tmp # Nil THEN i = disk.tmp
           ELSE i # disk.path /\ \A s \in {"main", "flusher"} : i # flusher[s].fd
        /\ disk' = [disk EXCEPT !.tmp = i, !.whole = @ \ {i}]
        /\ flusher' = [flusher EXCEPT ![t].at = "write", ![t].fd = i]
    /\ UNCHANGED <<given, ended, main, held, traffic, fresh>>

WriteTmp(t) ==
    /\ Alive /\ flusher[t].at = "write"
    /\ disk' = [disk EXCEPT !.whole = @ \cup {flusher[t].fd}]
    /\ flusher' = [flusher EXCEPT ![t].at = "rename", ![t].fd = Nil]
    /\ UNCHANGED <<given, ended, main, held, traffic, fresh>>

RenameTmp(t) ==
    /\ Alive /\ flusher[t].at = "rename"
    /\ disk' = IF disk.tmp = Nil THEN disk ELSE [disk EXCEPT !.path = disk.tmp, !.tmp = Nil]
    /\ flusher' = [flusher EXCEPT ![t].at = IF t = "main" THEN "off" ELSE "asleep"]
    /\ UNCHANGED <<given, ended, main, held, traffic, fresh>>

-----------------------------------------------------------------------------

ProcessNext ==
    \/ CheckMode \/ CheckSource \/ Announce \/ CheckPeer
    \/ \E ok \in BOOLEAN : BuildTrust(ok) \/ LoadInline(ok) \/ OpenUpstream(ok)
    \/ \E ok, clean, heard \in BOOLEAN : FirstRefresh(ok, clean, heard)
    \/ \E c \in Call : ReadRequest(c) \/ Admit(c) \/ AnswerRequest(c)
    \/ \E how \in {"eof", "error"} : EndInput(how)
    \/ LeaveLoop \/ TakeLast \/ LastFlush \/ Exit \/ Wake
    \/ \E ok \in BOOLEAN : SendLast(ok) \/ Tick(ok) \/ AckUsage(ok)
    \/ \E ok, clean \in BOOLEAN : RefreshAgain(ok, clean)
    \/ \E t \in {"main", "flusher"} : OpenTmp(t) \/ WriteTmp(t) \/ RenameTmp(t)

ProcessSpec == ProcessInit /\ [][ProcessNext]_processVars

\* State constraint: the flusher and the refresher share nothing, so one moves, and
\* metrics are written while one request is served.
OneThread ==
    given.metrics => fresh.ticks = 0 /\ Cardinality({c \in Call : work[c] # "unread"}) <= 1

-----------------------------------------------------------------------------
(* Properties. *)

\* Where a recorded use can be.
Pools == <<used, taken["main"], taken["fresh"], reported, failed>>

\* A mediator that serves has the contracts it was pointed at, and one whose
\* input ends in order leaves nothing behind: every request it read was answered,
\* and every use it recorded was reported, was in an acknowledgement that failed,
\* or was in the hands of the refresher when the process ended, and in one of
\* these places only, although the refresher and the exit both take them.  The
\* gauge never says that revocations are trusted where no feed can arrive.
ServesWhole ==
    /\ main = "serving" => installed = IF HasPlane THEN "plane" ELSE "files"
    /\ main = "exited" /\ ended = "eof" =>
          /\ \A c \in Call : work[c] # "doing"
          /\ HasPlane => used = {}
    /\ \A i, j \in DOMAIN Pools : i # j => Pools[i] \cap Pools[j] = {}
    /\ gauge = TRUE => HasPlane
=============================================================================
