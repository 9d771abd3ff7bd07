------------------------------ MODULE Signals ------------------------------
(***************************************************************************)
(* Shared signals (wc-control/src/caep.rs) and `connect caep ingest'.      *)
(* Transmitters sign security event tokens; the network delivers a token   *)
(* late, repeatedly or never, and a token of one stream to another; the    *)
(* receiver verifies it and turns its events into effects.  Tokens already *)
(* processed are remembered in memory, in a list of bounded length.        *)
(*                                                                         *)
(* A key is named after the issuer that holds it.                          *)
(***************************************************************************)
EXTENDS Integers, FiniteSets, Sequences

CONSTANTS
    Transmitters, \* configured: [issuer, authority, audience, parties, maxAge]
    Drafts,       \* tokens that may be sent: [by, iss, jti, aud, subject, events]
    NoSubject,    \* a token without sub_id.uri
    Capacity,     \* tokens remembered
    Skew,         \* a token may be this far in the future
    MaxMinute,    \* bound on the clock
    MaxTokens     \* bound on tokens in the world

\* SeenTokens::with_capacity makes room for one at least.
ASSUME SignalsAssumption ==
    /\ Capacity \in Nat \ {0} /\ Skew \in Nat
    /\ \A t \in Transmitters : t.maxAge \in Nat

VARIABLES
    minute,       \* the receiver's clock
    tokens,       \* every token sent
    seen,         \* SeenTokens: the jti of the tokens remembered, oldest first
    acted         \* the tokens spent since the receiver started, with their effects

signalVars == <<minute, tokens, seen, acted>>

Directory == {"session-revoked", "credential-change", "assurance-change"}
Understood == Directory \cup {"connection-revoked"}

SignalsInit == minute = 0 /\ tokens = {} /\ seen = <<>> /\ acted = <<>>

-----------------------------------------------------------------------------

\* Authority::permits.  Mutant: a partner may say what an estate may.
PermitsEstate(authority, event) ==
    event \in IF authority = "directory" THEN Directory ELSE Understood
PermitsEvent(authority, event) ==
    event \in CASE authority = "directory" -> Directory
                [] authority = "partner" -> {"connection-revoked"}
                [] authority = "estate" -> Understood

MayName(t, subject) == t.parties = {} \/ subject \in t.parties

\* TransmitterSet::parse refuses a set it could not use safely.
WellFormed ==
    /\ \A t, u \in Transmitters : t.issuer = u.issuer => t = u
    /\ \A t \in Transmitters : t.authority = "partner" => t.parties # {}

\* SeenTokens::accept: FIFO.  Mutant: the newest is forgotten.
RememberForgetting(jti) ==
    Append(IF Len(seen) >= Capacity THEN SubSeq(seen, 1, Len(seen) - 1) ELSE seen, jti)
Remember(jti) ==
    Append(IF Len(seen) >= Capacity THEN Tail(seen) ELSE seen, jti)

\* iss, signature, audience and age, in that order; the clock only moves on.
Verifies(token, t) ==
    /\ WellFormed
    /\ t.issuer = token.iss
    /\ token.by = t.issuer
    /\ t.audience \in token.aud
    /\ token.iat <= minute + Skew
    /\ minute <= token.iat + t.maxAge

\* Events outside the transmitter's authority are reported, not acted on.
Effects(token, t) ==
    {e \in token.events : e \in Understood /\ PermitsEvent(t.authority, e)}

\* caep::ingest.  The token is remembered before its subject is looked at, so
\* a token refused for its subject is spent too.
Ingest(token, t) ==
    /\ Verifies(token, t)
    /\ \A k \in DOMAIN seen : seen[k] # token.jti
    /\ seen' = Remember(token.jti)
    /\ LET obeyed == /\ token.subject # NoSubject
                     /\ MayName(t, token.subject)
                     /\ token.events # {}
       IN  acted' = Append(acted, [token |-> token, from |-> t, at |-> minute,
               effects |-> IF obeyed THEN Effects(token, t) ELSE {}])
    /\ UNCHANGED <<minute, tokens>>

-----------------------------------------------------------------------------

\* External: somebody signs a token with the key it holds.
Send(draft) ==
    /\ Cardinality(tokens) < MaxTokens
    /\ tokens' = tokens \cup {[iat |-> minute, by |-> draft.by, iss |-> draft.iss, jti |-> draft.jti,
                               aud |-> draft.aud, subject |-> draft.subject,
                               events |-> draft.events]}
    /\ UNCHANGED <<minute, seen, acted>>

\* The command line remembers tokens for one invocation only.
Restart ==
    /\ seen # <<>>
    /\ seen' = <<>> /\ acted' = <<>>
    /\ UNCHANGED <<minute, tokens>>

NextMinute ==
    /\ minute < MaxMinute
    /\ minute' = minute + 1
    /\ UNCHANGED <<tokens, seen, acted>>

SignalsNext ==
    \/ \E draft \in Drafts : Send(draft)
    \/ \E token \in tokens, t \in Transmitters : Ingest(token, t)
    \/ Restart
    \/ NextMinute

SignalsSpec == SignalsInit /\ [][SignalsNext]_signalVars

-----------------------------------------------------------------------------
(* Properties. *)

\* "What a transmitter may cause is bounded by what it has authority over":
\* every effect was signed by the configured issuer for this receiver, was
\* fresh and is within that issuer's authority; a partner only cuts
\* connections, and in the name of its own parties; and a token has its
\* effect again only after enough others have pushed it out of memory.
SignalsInScope ==
    /\ \A i \in DOMAIN acted : LET x == acted[i] IN x.effects # {} =>
           /\ x.token.by = x.from.issuer /\ x.from.audience \in x.token.aud
           /\ x.at - x.token.iat <= x.from.maxAge
           /\ x.from.authority = "partner" =>
                  /\ x.effects \subseteq {"connection-revoked"}
                  /\ x.token.subject \in x.from.parties
           /\ x.from.authority = "directory" => "connection-revoked" \notin x.effects
    /\ \A i, j \in DOMAIN acted :
           i < j /\ acted[i].token = acted[j].token =>
               Cardinality({acted[k].token.jti : k \in i + 1 .. j - 1}) >= Capacity

=============================================================================
