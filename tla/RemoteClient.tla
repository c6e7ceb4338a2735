---------------------------- MODULE RemoteClient ----------------------------
(***************************************************************************)
(* One endpoint as a remote.Client lets its callers reach it: the policy   *)
(* every call is checked against (remote/registry.go, remote/scope.go),    *)
(* the gates of GetFile and Exists for a file endpoint (remote/fetch.go),  *)
(* and for an API endpoint the transports that pace and retry requests     *)
(* (remote/frontdoor.go, remote/api/client.go, remote/api/retry.go).       *)
(*                                                                         *)
(* Each section under the client's mutex is a step, and so is each answer  *)
(* of the source, so the policy may change between any two.  What a file   *)
(* call does under the download lock is FileCache's subject; here it only  *)
(* asks, transfers and answers.                                            *)
(***************************************************************************)
EXTENDS Integers

CONSTANTS
    Callers,      \* goroutines using the client
    Urls, Home,   \* base URLs, and the one built in
    Approx,       \* ApproxSize: the size the registry gives for the object
    MaxSize,      \* the largest size the source may really report
    Interval,     \* the interval WithMinInterval asks for
    MaxRetries,   \* retries of an attempt: WithRetries
    MaxChanges,   \* bound on configuration changes
    MaxCalls,     \* bound on the calls made
    None          \* nobody, no transport, no snapshot, no Policy

\* The api.Clients, numbered as they are made: a change replaces at most one.
Transports == 1 .. MaxChanges + 1

ASSUME RemoteAssumption ==
    /\ Home \in Urls
    /\ {Approx, MaxSize, Interval} \subseteq Nat \ {0} /\ Approx <= MaxSize
    /\ {MaxRetries, MaxChanges, MaxCalls} \subseteq Nat
    /\ None \notin Callers \union Nat

VARIABLES
    ep,        \* what the registry says of the endpoint, fixed
    pol,       \* the client's policy on it
    scope,     \* a captured policy, or None
    cached,    \* the object is in the cache
    opts,      \* the API options ask for pacing
    cur,       \* the transport in Client.transports, or None
    built,     \* how many transports were made so far
    paced,     \* those made with an interval
    mu,        \* who holds the pacing mutex of each transport
    owed,      \* the time until last + minInterval, for each transport
    due,       \* the time until its last attempt lies Interval back (history)
    call,      \* what each caller is doing
    begun,     \* calls so far (bound)
    changes    \* changes so far (bound)

config == <<ep, pol, scope, opts, changes>>
pacing == <<built, paced, mu, owed, due>>
vars == <<config, cached, cur, pacing, call, begun>>

\* What a source says an object measures.  One that reports no size (0 or -1 in
\* the code) passes every cap a consent names and no missing consent, exactly
\* as size 1 does, so 1 stands for it too: of such a body PolicyObeyed says that
\* some consent was in force, and nothing about how long it is.
Sizes == 1 .. MaxSize

\* A policy: offline mode, the endpoint's URL and Enabled, the largest
\* download EnableDownloads consents to (0 for none, MaxSize for no cap), and
\* likewise what an installed Policy lets through.
Policies == [offline : BOOLEAN, url : Urls, enabled : BOOLEAN,
             cap : 0 .. MaxSize, custom : (0 .. MaxSize) \union {None}]
DefaultPolicy == [offline |-> FALSE, url |-> Home, enabled |-> TRUE,
                  cap |-> 0, custom |-> None]

\* The gate URL, and what CheckDownload consents to.
Allowed(p) == ~p.offline /\ p.enabled
Limit(p) == IF p.custom # None THEN p.custom ELSE p.cap
CheckDownload(size) == size <= Limit(pol)

\* A caller's locals: the URL it goes to and whether the endpoint was enabled,
\* as Lookup or the gate copied them, whether the gate said offline, the size
\* the source reported, how far getFile got, the transport and attempts of an
\* API call and whether an attempt may be repeated; once idle, whether its last
\* GetFile ended without an object.  The rest is history: the URLs the policy
\* has allowed since the call began, the largest size it has consented to since
\* then and since the source reported one, and whether the endpoint was enabled
\* and the copy there throughout.
Idle == [at |-> "idle", failed |-> FALSE, base |-> None, open |-> FALSE,
         offline |-> FALSE, size |-> 0, phase |-> "open",
         tr |-> None, tries |-> 0, again |-> FALSE,
         gates |-> {}, granted |-> 0, since |-> 0,
         enabled |-> TRUE, kept |-> TRUE]

Init ==
    /\ ep \in {[api |-> TRUE, mutable |-> FALSE]}
              \union [api : {FALSE}, mutable : BOOLEAN]
    /\ pol = DefaultPolicy /\ scope = None
    /\ cached \in (IF ep.api THEN {FALSE} ELSE BOOLEAN)
    /\ opts = TRUE /\ cur = None /\ built = 0 /\ paced = {}
    /\ mu = [t \in Transports |-> None]
    /\ owed = [t \in Transports |-> 0] /\ due = owed
    /\ call = [c \in Callers |-> Idle]
    /\ begun = 0 /\ changes = 0
----------------------------------------------------------------------------
At(c, l) == call[c].at = l

Greater(x, y) == IF x > y THEN x ELSE y

\* What a caller's history makes of the policy p coming into force.
Noting(r, p) ==
    IF r.at = "idle" THEN r
    ELSE [r EXCEPT !.gates = @ \union (IF Allowed(p) THEN {p.url} ELSE {}),
                   !.granted = Greater(@, Limit(p)),
                   !.since = IF r.size = 0 THEN 0 ELSE Greater(@, Limit(p)),
                   !.enabled = @ /\ p.enabled]

\* Every setter is one section under the client's mutex.
Change(p) ==
    /\ changes < MaxChanges /\ changes' = changes + 1
    /\ pol' = p
    /\ call' = [c \in Callers |-> Noting(call[c], p)]
    /\ UNCHANGED <<ep, cached, cur, pacing, begun>>

SetOffline == Change([pol EXCEPT !.offline = ~@]) /\ UNCHANGED <<scope, opts>>
SetEnabled == Change([pol EXCEPT !.enabled = ~@]) /\ UNCHANGED <<scope, opts>>

SetURL(u) ==
    u # pol.url /\ Change([pol EXCEPT !.url = u]) /\ UNCHANGED <<scope, opts>>

\* EnableDownloads and DisableDownloads, which pass over an endpoint that is
\* not Downloadable, and SetPolicy.
SetConsent(n) ==
    /\ ~ep.api /\ n # pol.cap
    /\ Change([pol EXCEPT !.cap = n]) /\ UNCHANGED <<scope, opts>>

SetPolicy(x) ==
    /\ ~ep.api /\ x # pol.custom
    /\ Change([pol EXCEPT !.custom = x]) /\ UNCHANGED <<scope, opts>>

Reset ==
    pol # DefaultPolicy /\ Change(DefaultPolicy) /\ UNCHANGED <<scope, opts>>

\* Capture with the endpoint among the captured ones; Restore puts it all back.
Capture == scope # pol /\ scope' = pol /\ Change(pol) /\ UNCHANGED opts
Restore == scope # None /\ Change(scope) /\ UNCHANGED <<scope, opts>>

\* SetAPIOptions and Close let go of the transports; requests under way on one
\* go on with it.
SetAPIOptions ==
    /\ ep.api /\ changes < MaxChanges /\ changes' = changes + 1
    /\ opts' = ~opts /\ cur' = None
    /\ UNCHANGED <<ep, pol, scope, cached, pacing, call, begun>>

CloseTransports ==
    /\ ep.api /\ cur # None /\ changes < MaxChanges /\ changes' = changes + 1
    /\ cur' = None
    /\ UNCHANGED <<ep, pol, scope, opts, cached, pacing, call, begun>>
----------------------------------------------------------------------------
\* A caller's own steps: what they do to its record and to nothing else.
Update(c, r) == call' = [call EXCEPT ![c] = r]
Goto(c, l) == Update(c, [call[c] EXCEPT !.at = l])
Finish(c) == Update(c, Idle)
Fail(c) == Update(c, [Idle EXCEPT !.failed = TRUE])
Local == UNCHANGED <<config, cached, cur, pacing, begun>>

Begin(c, r) ==
    /\ At(c, "idle") /\ begun < MaxCalls /\ begun' = begun + 1
    /\ Update(c, Noting([r EXCEPT !.kept = cached], pol))
    /\ UNCHANGED <<config, cached, cur, pacing>>

\* GetFile and Exists read the endpoint, then pass the gate: two sections.
GetFile(c) ==
    ~ep.api /\ Begin(c, [Idle EXCEPT !.at = "gate", !.base = pol.url,
                                      !.open = pol.enabled])
Exists(c) ==
    ~ep.api /\ Begin(c, [Idle EXCEPT !.at = "probe", !.base = pol.url])

ProbeRefused(c) == At(c, "probe") /\ ~Allowed(pol) /\ Finish(c) /\ Local
Probe(c) == At(c, "probe") /\ Allowed(pol) /\ Goto(c, "asked") /\ Local
Probed(c) == At(c, "asked") /\ Finish(c) /\ Local

\* Offline mode alone lets the call go on to the cache.
Gate(c) ==
    /\ At(c, "gate")
    /\ Allowed(pol) \/ (pol.offline /\ call[c].open)
    /\ Update(c, [call[c] EXCEPT !.at = "cache", !.offline = pol.offline])
    /\ Local

\* Faulty variant of GateRefused: offline mode fails a call before the cache is
\* looked at.
GateRefusedOffline(c) == At(c, "gate") /\ ~Allowed(pol) /\ Fail(c) /\ Local

GateRefused(c) ==
    /\ At(c, "gate") /\ ~Allowed(pol) /\ ~(pol.offline /\ call[c].open)
    /\ Fail(c) /\ Local

\* The cache before the source: always for an immutable object, and offline.
ServedFirst(c) ==
    /\ At(c, "cache") /\ cached
    /\ ~ep.mutable \/ call[c].offline
    /\ Finish(c) /\ Local

NothingOffline(c) ==
    At(c, "cache") /\ call[c].offline /\ ~cached /\ Fail(c) /\ Local

NotServedFirst(c) ==
    /\ At(c, "cache") /\ ~call[c].offline
    /\ ep.mutable \/ ~cached
    /\ Goto(c, "consent") /\ Local

\* Consent on the registered size; without it, the copy if there is one.
Consent(c) ==
    At(c, "consent") /\ CheckDownload(Approx) /\ Goto(c, "fresh") /\ Local

Unconsented(c) ==
    At(c, "consent") /\ ~CheckDownload(Approx) /\ Goto(c, "denied") /\ Local

ServedUnasked(c) == At(c, "denied") /\ cached /\ Finish(c) /\ Local
Denied(c) == At(c, "denied") /\ ~cached /\ Fail(c) /\ Local

\* freshInCache, before and under the download lock and after a failed fetch: a
\* copy of a mutable object costs a request, which may find it current, stale
\* or nothing at all.
Ask(c) == At(c, "fresh") /\ cached /\ ep.mutable /\ Goto(c, "asking") /\ Local

Fresh(c) ==
    /\ At(c, "asking") \/ (At(c, "fresh") /\ cached /\ ~ep.mutable)
    /\ Finish(c) /\ Local

NotFresh(c) ==
    /\ At(c, "asking") \/ (At(c, "fresh") /\ ~cached)
    /\ call[c].phase # "failed"
    /\ Update(c, IF call[c].phase = "open"
                 THEN [call[c] EXCEPT !.at = "fresh", !.phase = "locked"]
                 ELSE [call[c] EXCEPT !.at = "recheck"])
    /\ Local

FetchFails(c) ==
    /\ At(c, "asking") \/ (At(c, "fresh") /\ ~cached)
    /\ call[c].phase = "failed"
    /\ Fail(c) /\ Local

\* fetchInto: consent again, the source's own figure, consent on that, and the
\* body.  A failure leads back to the cache once more.
FetchOr(c, ok, l) ==
    Update(c, IF ok THEN [call[c] EXCEPT !.at = l]
              ELSE [call[c] EXCEPT !.at = "fresh", !.phase = "failed"])

Recheck(c) == At(c, "recheck") /\ FetchOr(c, CheckDownload(Approx), "stat") /\ Local

Stat(c) ==
    /\ At(c, "stat")
    /\ \E n \in Sizes : Update(c, [call[c] EXCEPT !.at = "weigh", !.size = n,
                                                  !.since = Limit(pol)])
    /\ Local

\* Faulty variant of Weigh: the registered size is checked again.
WeighApprox(c) ==
    At(c, "weigh") /\ FetchOr(c, CheckDownload(Approx), "transfer") /\ Local

Weigh(c) ==
    At(c, "weigh") /\ FetchOr(c, CheckDownload(call[c].size), "transfer") /\ Local

Transfer(c) ==
    /\ At(c, "transfer")
    /\ cached' = TRUE
    /\ Finish(c)
    /\ UNCHANGED <<config, cur, pacing, begun>>

SourceFails(c) ==
    /\ At(c, "stat") \/ At(c, "transfer")
    /\ FetchOr(c, FALSE, "") /\ Local

\* The object is removed from the cache, by the user or as refused.
RemoveFile ==
    /\ cached /\ cached' = FALSE
    /\ changes < MaxChanges /\ changes' = changes + 1
    /\ call' = [c \in Callers |-> [call[c] EXCEPT !.kept = @ /\ At(c, "idle")]]
    /\ UNCHANGED <<ep, pol, scope, opts, cur, pacing, begun>>
----------------------------------------------------------------------------
\* An API call: the gate and the URL in one section, then the transport, made
\* when there is none.  A POST that is not a query is sent once.
Request(c) ==
    /\ ep.api
    /\ \E again \in BOOLEAN :
         Begin(c, [Idle EXCEPT !.at = "url", !.again = again])

URL(c) ==
    /\ At(c, "url") /\ Allowed(pol)
    /\ Update(c, [call[c] EXCEPT !.at = "transport", !.base = pol.url]) /\ Local

URLRefused(c) == At(c, "url") /\ ~Allowed(pol) /\ Finish(c) /\ Local

NewTransport(c) ==
    /\ At(c, "transport") /\ cur = None
    /\ built' = built + 1 /\ cur' = built'
    /\ paced' = IF opts THEN paced \union {built'} ELSE paced
    /\ Update(c, [call[c] EXCEPT !.at = "pace", !.tr = built'])
    /\ UNCHANGED <<config, cached, mu, owed, due, begun>>

OldTransport(c) ==
    /\ At(c, "transport") /\ cur # None
    /\ Update(c, [call[c] EXCEPT !.at = "pace", !.tr = cur]) /\ Local

\* pace: the transport's mutex, held until the request is over, and the wait
\* for the interval since the last one.  A caller that is queueing for the
\* mutex does not see its context end; one that waits for the interval does.
Unpaced(c) ==
    At(c, "pace") /\ call[c].tr \notin paced /\ Goto(c, "send") /\ Local

Pace(c) ==
    /\ At(c, "pace") /\ call[c].tr \in paced /\ mu[call[c].tr] = None
    /\ mu' = [mu EXCEPT ![call[c].tr] = c]
    /\ Goto(c, "wait")
    /\ UNCHANGED <<config, cached, cur, built, paced, owed, due, begun>>

Waited(c) ==
    /\ At(c, "wait") /\ owed[call[c].tr] = 0
    /\ Goto(c, "send") /\ Local

Unlock(c) ==
    mu' = [t \in Transports |->
             IF t = call[c].tr /\ t \in paced THEN None ELSE mu[t]]

\* Faulty variant of WaitCancelled: the mutex stays locked.
WaitCancelledLocked(c) ==
    /\ At(c, "wait") /\ owed[call[c].tr] > 0
    /\ Finish(c) /\ Local

WaitCancelled(c) ==
    /\ At(c, "wait") /\ owed[call[c].tr] > 0
    /\ Unlock(c) /\ Finish(c)
    /\ UNCHANGED <<config, cached, cur, built, paced, owed, due, begun>>

Send(c) ==
    /\ At(c, "send")
    /\ Update(c, [call[c] EXCEPT !.at = "flying", !.tries = @ + 1]) /\ Local

\* An attempt the policy would repeat (429, 5xx but 501, or no answer), while
\* attempts are left and the method allows it.
Retry(c) ==
    /\ At(c, "flying") /\ call[c].again /\ call[c].tries <= MaxRetries
    /\ Goto(c, "send")
    /\ due' = [due EXCEPT ![call[c].tr] = Interval]
    /\ UNCHANGED <<config, cached, cur, built, paced, mu, owed, begun>>

\* Faulty variant of Answered: release notes no time.
AnsweredUnnoted(c) ==
    /\ At(c, "flying")
    /\ due' = [due EXCEPT ![call[c].tr] = Interval]
    /\ Unlock(c) /\ Finish(c)
    /\ UNCHANGED <<config, cached, cur, built, paced, owed, begun>>

\* The last answer, good or not, or the end of the context or the timeout: the
\* deferred release notes the time and unlocks.
Answered(c) ==
    /\ At(c, "flying")
    /\ due' = [due EXCEPT ![call[c].tr] = Interval]
    /\ owed' = [t \in Transports |->
                  IF t = call[c].tr /\ t \in paced THEN Interval ELSE owed[t]]
    /\ Unlock(c) /\ Finish(c)
    /\ UNCHANGED <<config, cached, cur, built, paced, begun>>

Tick ==
    /\ \E t \in Transports : owed[t] + due[t] > 0
    /\ owed' = [t \in Transports |-> Greater(owed[t] - 1, 0)]
    /\ due' = [t \in Transports |-> Greater(due[t] - 1, 0)]
    /\ UNCHANGED <<config, cached, cur, built, paced, mu, call, begun>>
----------------------------------------------------------------------------
FileStep(c) ==
    \/ ProbeRefused(c) \/ Probe(c) \/ Probed(c)
    \/ Gate(c) \/ GateRefused(c) \/ ServedFirst(c) \/ NothingOffline(c)
    \/ NotServedFirst(c) \/ Consent(c) \/ Unconsented(c) \/ ServedUnasked(c)
    \/ Denied(c) \/ Ask(c) \/ Fresh(c) \/ NotFresh(c) \/ Recheck(c) \/ Stat(c)
    \/ Weigh(c) \/ Transfer(c) \/ SourceFails(c) \/ FetchFails(c)

ApiStep(c) ==
    \/ URL(c) \/ URLRefused(c) \/ NewTransport(c) \/ OldTransport(c)
    \/ Unpaced(c) \/ Waited(c) \/ Send(c) \/ Retry(c) \/ Answered(c)

Setter ==
    \/ SetOffline \/ SetEnabled \/ Reset \/ Capture \/ Restore
    \/ \E u \in Urls : SetURL(u)
    \/ \E n \in 0 .. MaxSize : SetConsent(n)
    \/ \E x \in (0 .. MaxSize) \union {None} : SetPolicy(x)
    \/ SetAPIOptions \/ CloseTransports

Next ==
    \/ \E c \in Callers :
         \/ GetFile(c) \/ Exists(c) \/ FileStep(c)
         \/ Request(c) \/ ApiStep(c) \/ Pace(c) \/ WaitCancelled(c)
    \/ Setter \/ RemoveFile \/ Tick

Spec == Init /\ [][Next]_vars

\* Goroutines are scheduled, requests end (each has a timeout), time passes,
\* and sync.Mutex starves nobody.
FairSpec == /\ Spec /\ WF_vars(Tick)
            /\ \A c \in Callers : /\ WF_vars(FileStep(c) \/ ApiStep(c))
                                  /\ SF_vars(Pace(c))
----------------------------------------------------------------------------
Places == {"idle", "gate", "probe", "asked", "cache", "consent", "denied",
           "fresh", "asking", "recheck", "stat", "weigh", "transfer",
           "url", "transport", "pace", "wait", "send", "flying"}

TypeOK ==
    /\ pol \in Policies /\ scope \in Policies \union {None}
    /\ cached \in BOOLEAN /\ opts \in BOOLEAN
    /\ built \in 0 .. MaxChanges + 1 /\ paced \subseteq 1 .. built
    /\ cur \in (1 .. built) \union {None}
    /\ mu \in [Transports -> Callers \union {None}]
    /\ {owed, due} \subseteq [Transports -> 0 .. Interval]
    /\ \A c \in Callers :
         /\ call[c].at \in Places /\ call[c].base \in Urls \union {None}
         /\ call[c].tr \in (1 .. built) \union {None}
         /\ call[c].tries \in 0 .. MaxRetries + 1

\* What reaches the source: a probe, a question, a Stat, a body, an attempt.
Contacts(c) == Probe(c) \/ Ask(c) \/ Stat(c) \/ Transfer(c) \/ Send(c)

\* "While offline, every endpoint access - API call or download - fails with
\* ErrOffline" (registry.go:108), "Disable blocks all access" (:67), "astrogo
\* never downloads without consent" (:318): the source is contacted only by a
\* call during which the policy allowed access at some instant, and a body
\* transferred only if a policy in force after the source had reported its size
\* consented to that size.  However the setters fall between a call's own looks
\* at the policy.
PolicyObeyed ==
    [][\A c \in Callers :
         /\ Contacts(c) => call[c].gates # {}
         /\ Transfer(c) => call[c].size <= call[c].since]_vars

\* A call that fails although the object was in the cache throughout, and the
\* endpoint enabled.
FailsWithCopy(c) ==
    ~At(c, "idle") /\ call'[c].failed /\ call[c].kept /\ call[c].enabled

\* "a fully-cached kernel stays readable even when its source is unreachable",
\* and a mutable object is "served what is cached" offline and without consent
\* (fetch.go:246, :270): while the endpoint is enabled, a call fails with the
\* object in the cache only if it is mutable and policies during the call let
\* it ask the source and download.
CachedServed ==
    [][\A c \in Callers : FailsWithCopy(c) =>
         ep.mutable /\ call[c].gates # {} /\ call[c].granted >= Approx]_vars

\* "one request is in flight at a time" and the interval has passed since the
\* last one ended (api/client.go:307): for each transport built with an
\* interval, whoever waits, gives up or replaces it meanwhile.
Paced ==
    [][\A c \in Callers : LET t == call[c].tr IN
         Send(c) /\ t \in paced =>
           /\ \A d \in Callers \ {c} : call[d].tr = t => ~At(d, "flying")
           /\ call[c].tries = 0 => due[t] = 0]_vars

\* Every call returns, cancelled or not: no path keeps a transport's mutex.
CallsReturn == \A c \in Callers : ~At(c, "idle") ~> At(c, "idle")

=============================================================================
