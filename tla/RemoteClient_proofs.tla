-------------------------- MODULE RemoteClient_proofs --------------------------
(***************************************************************************)
(* Theorems about one endpoint of a client, for any number of callers, any *)
(* sizes and URLs, and any number of changes, calls and retries.           *)
(***************************************************************************)
EXTENDS RemoteClient, TLAPS

USE DEF At

Rec == [at : Places, failed : BOOLEAN, base : Urls \union {None}, open : BOOLEAN,
        offline : BOOLEAN, size : 0 .. MaxSize, phase : {"open", "locked", "failed"},
        tr : Transports \union {None}, tries : Nat, again : BOOLEAN,
        gates : SUBSET Urls, granted : 0 .. MaxSize, since : 0 .. MaxSize,
        enabled : BOOLEAN, kept : BOOLEAN]

ConfigOK ==
    /\ pol \in Policies /\ scope \in Policies \union {None}
    /\ cached \in BOOLEAN /\ opts \in BOOLEAN
    /\ changes \in 0 .. MaxChanges

CallsOK == call \in [Callers -> Rec]

\* Places behind the gate, and behind a consent to the registered size.
Admitted == {"asked", "consent", "fresh", "asking", "recheck", "stat", "weigh",
             "transfer", "transport", "pace", "wait", "send", "flying"}
Consented == {"fresh", "asking", "recheck", "stat", "weigh", "transfer"}

\* What a call's record owes to the policy p and to whether the object is in
\* the cache: its history takes in the policy now in force, and it got to where
\* it is by checks that its history remembers.
Fits(r, p, k) ==
    /\ r.at # "idle" =>
         /\ Allowed(p) => p.url \in r.gates
         /\ Limit(p) <= r.granted
         /\ r.enabled => p.enabled
         /\ (r.kept => k) /\ ~r.failed
    /\ r.at = "gate" /\ r.enabled => r.open
    /\ r.at = "cache" /\ ~r.offline => r.gates # {}
    /\ r.at \in Admitted => r.gates # {}
    /\ r.at \in Consented => Approx <= r.granted
    /\ r.at = "weigh" => 0 < r.size /\ Limit(p) <= r.since
    /\ r.at = "transfer" => 0 < r.size /\ r.size <= r.since

CallInv ==
    \A c \in Callers : /\ Fits(call[c], pol, cached)
                       /\ At(c, "asking") => ep.mutable

Using == {"pace", "wait", "send", "flying"}

\* Transports come into being one by one, and one replaced is not taken again.
BuiltOK ==
    /\ built \in 0 .. changes + 1 /\ paced \subseteq 1 .. built
    /\ cur \in (1 .. built) \union {None} /\ (cur = None => built <= changes)
    /\ mu \in [Transports -> Callers \union {None}]
    /\ owed \in [Transports -> Nat] /\ due \in [Transports -> Nat]
    /\ \A t \in Transports : t > built => due[t] = 0

\* A paced request has its transport's mutex from the wait to the answer, and
\* only one that is repeated can lie closer than what the transport is owed.
PaceInv ==
    /\ \A c \in Callers :
         /\ call[c].at \in Using => call[c].tr \in 1 .. built
         /\ At(c, "wait") => call[c].tr \in paced
         /\ call[c].at \in {"wait", "send", "flying"} /\ call[c].tr \in paced
              => mu[call[c].tr] = c
         /\ At(c, "send") /\ call[c].tr \in paced /\ call[c].tries = 0
              => due[call[c].tr] = 0
         /\ At(c, "flying") => call[c].tries > 0
    /\ \A t \in paced :
         \/ due[t] <= owed[t]
         \/ \E c \in Callers : /\ call[c].at \in {"send", "flying"} /\ call[c].tr = t
                               /\ call[c].tries > 0

IInv == ConfigOK /\ CallsOK /\ CallInv /\ BuiltOK /\ PaceInv
--------------------------------------------------------------------------------
LEMMA LimitInRange ==
  ASSUME NEW p \in Policies
  PROVE  Limit(p) \in 0 .. MaxSize
  BY RemoteAssumption DEF Policies, Limit

LEMMA DefaultIsPolicy == DefaultPolicy \in Policies
  BY RemoteAssumption DEF DefaultPolicy, Policies

LEMMA IdleFits ==
  /\ Idle \in Rec /\ [Idle EXCEPT !.failed = TRUE] \in Rec
  /\ Idle.at = "idle" /\ [Idle EXCEPT !.failed = TRUE].at = "idle"
  /\ \A p \in Policies, k \in BOOLEAN :
       Fits(Idle, p, k) /\ Fits([Idle EXCEPT !.failed = TRUE], p, k)
<1>1. Idle \in Rec /\ [Idle EXCEPT !.failed = TRUE] \in Rec
  <2>1. /\ "idle" \in Places /\ 0 \in 0 .. MaxSize /\ 0 \in Nat /\ {} \in SUBSET Urls
        /\ None \in Urls \union {None} /\ None \in Transports \union {None}
        /\ "open" \in {"open", "locked", "failed"}
        /\ TRUE \in BOOLEAN /\ FALSE \in BOOLEAN
    BY RemoteAssumption DEF Places
  <2>2. QED BY <2>1, Zenon DEF Idle, Rec
<1>2. Idle.at = "idle" /\ [Idle EXCEPT !.failed = TRUE].at = "idle"
  BY DEF Idle
<1>3. QED BY <1>1, <1>2 DEF Fits, Admitted, Consented

LEMMA InitIInv == Init => IInv
<1> SUFFICES ASSUME Init PROVE IInv
  OBVIOUS
<1> USE DEF Init
<1>1. ConfigOK
  <2>1. cached \in BOOLEAN /\ opts \in BOOLEAN
    BY Zenon
  <2>2. changes \in 0 .. MaxChanges
    BY RemoteAssumption
  <2>3. QED BY <2>1, <2>2, DefaultIsPolicy DEF ConfigOK
<1>2. CallsOK
  BY IdleFits DEF CallsOK
<1>3. CallInv
  BY <1>1, IdleFits DEF CallInv, ConfigOK
<1>4. BuiltOK
  BY RemoteAssumption DEF BuiltOK
<1>5. PaceInv
  BY IdleFits DEF PaceInv, Using
<1>6. QED BY <1>1, <1>2, <1>3, <1>4, <1>5 DEF IInv
--------------------------------------------------------------------------------
LEMMA NotingInRec ==
  ASSUME NEW r \in Rec, NEW q \in Policies
  PROVE  Noting(r, q) \in Rec
<1> DEFINE n == Noting(r, q)
<1>1. CASE r.at = "idle"
  BY <1>1 DEF Noting
<1>2. CASE r.at # "idle"
  <2>1. n = [r EXCEPT !.gates = @ \union (IF Allowed(q) THEN {q.url} ELSE {}),
                      !.granted = Greater(@, Limit(q)),
                      !.since = IF r.size = 0 THEN 0 ELSE Greater(@, Limit(q)),
                      !.enabled = @ /\ q.enabled]
    BY <1>2 DEF Noting
  <2>2. Limit(q) \in 0 .. MaxSize /\ q.url \in Urls /\ q.enabled \in BOOLEAN
    BY LimitInRange DEF Policies
  <2>3. /\ r.gates \union (IF Allowed(q) THEN {q.url} ELSE {}) \in SUBSET Urls
        /\ (r.enabled /\ q.enabled) \in BOOLEAN
    BY <2>2 DEF Rec
  <2>4. /\ (IF r.size = 0 THEN 0 ELSE Greater(r.since, Limit(q))) \in 0 .. MaxSize
        /\ Greater(r.granted, Limit(q)) \in 0 .. MaxSize
    BY <2>2, RemoteAssumption DEF Rec, Greater
  <2>5. QED BY <2>1, <2>3, <2>4, Zenon DEF Rec
<1>3. QED BY <1>1, <1>2

\* A change of the policy is noted by every call under way.
LEMMA NotingFits ==
  ASSUME NEW r \in Rec, NEW p \in Policies, NEW q \in Policies, NEW k \in BOOLEAN,
         Fits(r, p, k)
  PROVE  /\ Noting(r, q) \in Rec /\ Fits(Noting(r, q), q, k)
         /\ Noting(r, q).at = r.at /\ Noting(r, q).tr = r.tr
         /\ Noting(r, q).tries = r.tries
<1> DEFINE n == Noting(r, q)
<1>1. CASE r.at = "idle"
  BY <1>1 DEF Noting, Fits, Admitted, Consented
<1>2. CASE r.at # "idle"
  <2>1. n = [r EXCEPT !.gates = @ \union (IF Allowed(q) THEN {q.url} ELSE {}),
                      !.granted = Greater(@, Limit(q)),
                      !.since = IF r.size = 0 THEN 0 ELSE Greater(@, Limit(q)),
                      !.enabled = @ /\ q.enabled]
    BY <1>2 DEF Noting
  <2>2. Limit(q) \in 0 .. MaxSize /\ r.granted \in 0 .. MaxSize /\ r.since \in 0 .. MaxSize
        /\ r.size \in 0 .. MaxSize
    BY LimitInRange DEF Rec
  <2>3. /\ Greater(r.granted, Limit(q)) \in 0 .. MaxSize
        /\ Greater(r.since, Limit(q)) \in 0 .. MaxSize
        /\ r.granted <= Greater(r.granted, Limit(q))
        /\ Limit(q) <= Greater(r.granted, Limit(q))
        /\ r.since <= Greater(r.since, Limit(q))
        /\ Limit(q) <= Greater(r.since, Limit(q))
    BY <2>2 DEF Greater
  <2>4. q.url \in Urls /\ q.enabled \in BOOLEAN
    BY DEF Policies
  <2>5. n \in Rec
    BY NotingInRec
  <2>6. /\ n.at = r.at /\ n.size = r.size /\ n.open = r.open /\ n.offline = r.offline
        /\ n.kept = r.kept /\ n.failed = r.failed /\ n.tr = r.tr /\ n.tries = r.tries
        /\ n.gates = r.gates \union (IF Allowed(q) THEN {q.url} ELSE {})
        /\ n.granted = Greater(r.granted, Limit(q))
        /\ n.since = IF r.size = 0 THEN 0 ELSE Greater(r.since, Limit(q))
        /\ n.enabled = (r.enabled /\ q.enabled)
    BY <2>1 DEF Rec
  <2> HIDE DEF n
  <2>7. Approx \in Nat
    BY RemoteAssumption
  <2>8. Fits(n, q, k)
    <3>1. /\ Allowed(q) => q.url \in n.gates
          /\ Limit(q) <= n.granted /\ (n.enabled => q.enabled) /\ (n.kept => k) /\ ~n.failed
      BY <1>2, <2>3, <2>6 DEF Fits
    <3>2. /\ n.at = "gate" /\ n.enabled => n.open
          /\ n.at = "cache" /\ ~n.offline => n.gates # {}
          /\ n.at \in Admitted => n.gates # {}
      BY <2>6 DEF Fits
    <3>3. n.at \in Consented => Approx <= n.granted
      BY <2>2, <2>3, <2>6, <2>7 DEF Fits
    <3>4. /\ n.at = "weigh" => 0 < n.size /\ Limit(q) <= n.since
          /\ n.at = "transfer" => 0 < n.size /\ n.size <= n.since
      BY <2>2, <2>3, <2>6 DEF Fits
    <3>5. QED BY <3>1, <3>2, <3>3, <3>4 DEF Fits
  <2>9. QED BY <2>5, <2>6, <2>8 DEF n
<1>3. QED BY <1>1, <1>2

\* Setters, Reset, Capture and Restore.
LEMMA ChangeStep ==
  ASSUME IInv, NEW q \in Policies, Change(q), scope' \in Policies \union {None},
         opts' = opts
  PROVE  IInv'
<1> USE DEF IInv
<1>1. /\ UNCHANGED <<ep, cached, cur, pacing, begun>>
      /\ pol' = q /\ changes' = changes + 1 /\ changes < MaxChanges
      /\ call' = [c \in Callers |-> Noting(call[c], pol')]
  BY DEF Change
<1>2. \A c \in Callers : call[c] \in Rec /\ pol \in Policies /\ cached \in BOOLEAN
  BY DEF CallsOK, ConfigOK
<1>3. \A c \in Callers :
        /\ call'[c] \in Rec /\ Fits(call'[c], pol', cached')
        /\ call'[c].at = call[c].at /\ call'[c].tr = call[c].tr
        /\ call'[c].tries = call[c].tries
  BY <1>1, <1>2, NotingFits DEF CallInv
<1>4. ConfigOK'
  BY <1>1, RemoteAssumption DEF ConfigOK
<1>5. CallsOK' /\ CallInv'
  BY <1>1, <1>3 DEF CallsOK, CallInv
<1>6. BuiltOK'
  BY <1>1 DEF BuiltOK, pacing, ConfigOK
<1>7. PaceInv'
  BY <1>1, <1>3 DEF PaceInv, pacing
<1>8. QED BY <1>4, <1>5, <1>6, <1>7

LEMMA SetterStep ==
  ASSUME IInv,
         \/ SetOffline \/ SetEnabled \/ Reset \/ Capture \/ Restore
         \/ \E u \in Urls : SetURL(u)
         \/ \E n \in 0 .. MaxSize : SetConsent(n)
         \/ \E x \in (0 .. MaxSize) \union {None} : SetPolicy(x)
  PROVE  IInv'
<1>1. pol \in Policies /\ scope \in Policies \union {None}
  BY DEF IInv, ConfigOK
<1>2. CASE SetOffline
  BY <1>1, <1>2, ChangeStep DEF SetOffline, Policies
<1>3. CASE SetEnabled
  BY <1>1, <1>3, ChangeStep DEF SetEnabled, Policies
<1>4. CASE Reset
  BY <1>1, <1>4, ChangeStep, DefaultIsPolicy DEF Reset
<1>5. CASE Capture
  BY <1>1, <1>5, ChangeStep DEF Capture
<1>6. CASE Restore
  BY <1>1, <1>6, ChangeStep DEF Restore
<1>7. ASSUME NEW u \in Urls, SetURL(u) PROVE IInv'
  BY <1>1, <1>7, ChangeStep DEF SetURL, Policies
<1>8. ASSUME NEW n \in 0 .. MaxSize, SetConsent(n) PROVE IInv'
  BY <1>1, <1>8, ChangeStep DEF SetConsent, Policies
<1>9. ASSUME NEW x \in (0 .. MaxSize) \union {None}, SetPolicy(x) PROVE IInv'
  BY <1>1, <1>9, ChangeStep DEF SetPolicy, Policies
<1>10. QED BY <1>2, <1>3, <1>4, <1>5, <1>6, <1>7, <1>8, <1>9

\* Letting go of the transports, and removing the object.
LEMMA LetGoStep ==
  ASSUME IInv, SetAPIOptions \/ CloseTransports \/ RemoveFile
  PROVE  IInv'
<1> USE DEF IInv
<1>1. CASE SetAPIOptions \/ CloseTransports
  <2>1. /\ UNCHANGED <<ep, pol, scope, cached, pacing, call>> /\ cur' = None
        /\ opts' \in BOOLEAN /\ changes' = changes + 1 /\ changes < MaxChanges
    BY <1>1 DEF SetAPIOptions, CloseTransports, ConfigOK
  <2>2. ConfigOK'
    BY <2>1, RemoteAssumption DEF ConfigOK
  <2>3. CallsOK' /\ CallInv' /\ PaceInv'
    BY <2>1 DEF CallsOK, CallInv, PaceInv, pacing
  <2>4. BuiltOK'
    BY <2>1 DEF BuiltOK, ConfigOK, pacing
  <2>5. QED BY <2>2, <2>3, <2>4
<1>2. CASE RemoveFile
  <2>1. /\ UNCHANGED <<ep, pol, scope, opts, cur, pacing>>
        /\ cached' = FALSE /\ changes' = changes + 1 /\ changes < MaxChanges
        /\ call' = [c \in Callers |-> [call[c] EXCEPT !.kept = @ /\ At(c, "idle")]]
    BY <1>2 DEF RemoveFile
  <2>2. ASSUME NEW c \in Callers
        PROVE  /\ call'[c] \in Rec
               /\ call'[c].at = call[c].at /\ call'[c].tr = call[c].tr
               /\ call'[c].tries = call[c].tries
               /\ Fits(call'[c], pol, FALSE)
    <3>1. call[c] \in Rec /\ (call[c].kept /\ At(c, "idle")) \in BOOLEAN
      BY DEF CallsOK
    <3>2. call'[c] = [call[c] EXCEPT !.kept = @ /\ At(c, "idle")]
      BY <2>1
    <3>3. call'[c] \in Rec
      BY <3>1, <3>2, Zenon DEF Rec
    <3>4. /\ call'[c].at = call[c].at /\ call'[c].tr = call[c].tr
          /\ call'[c].tries = call[c].tries /\ call'[c].size = call[c].size
          /\ call'[c].gates = call[c].gates /\ call'[c].granted = call[c].granted
          /\ call'[c].since = call[c].since /\ call'[c].open = call[c].open
          /\ call'[c].offline = call[c].offline /\ call'[c].enabled = call[c].enabled
          /\ call'[c].kept = (call[c].kept /\ At(c, "idle"))
          /\ call'[c].failed = call[c].failed
      BY <3>1, <3>2 DEF Rec
    <3>5. Fits(call'[c], pol, FALSE)
      BY <3>4 DEF Fits, CallInv
    <3>6. QED BY <3>3, <3>4, <3>5
  <2>3. ConfigOK'
    <3>1. changes' \in 0 .. MaxChanges
      BY <2>1, RemoteAssumption DEF ConfigOK
    <3>2. QED BY <2>1, <3>1 DEF ConfigOK
  <2>4. CallsOK' /\ CallInv'
    BY <2>1, <2>2 DEF CallsOK, CallInv
  <2>5. BuiltOK'
    BY <2>1 DEF BuiltOK, ConfigOK, pacing
  <2>6. PaceInv'
    <3>1. \A c \in Callers :
            /\ call'[c].at = call[c].at /\ call'[c].tr = call[c].tr
            /\ call'[c].tries = call[c].tries
      BY <2>2
    <3>2. QED BY <2>1, <3>1 DEF PaceInv, pacing
  <2>7. QED BY <2>3, <2>4, <2>5, <2>6
<1>3. QED BY <1>1, <1>2
--------------------------------------------------------------------------------
(* The callers' steps.                                                          *)

\* Steps of a file call, and the end of any call that holds no mutex.
LEMMA FileUpdate ==
  ASSUME IInv, NEW c \in Callers, NEW r \in Rec, Update(c, r),
         UNCHANGED <<ep, pol, scope, opts, changes, cur, pacing>>,
         cached' \in BOOLEAN, cached => cached',
         call[c].at \notin {"wait", "send", "flying"}, r.at \notin Using,
         Fits(r, pol, cached'), r.at = "asking" => ep.mutable
  PROVE  IInv'
<1> USE DEF IInv
<1>1. call' = [call EXCEPT ![c] = r] /\ call \in [Callers -> Rec]
  BY DEF Update, CallsOK
<1>2. ConfigOK' /\ CallsOK' /\ BuiltOK'
  BY <1>1 DEF ConfigOK, CallsOK, BuiltOK, pacing
<1>3. CallInv'
  <2>1. \A d \in Callers : Fits(call[d], pol, cached')
    BY DEF CallInv, Fits
  <2>2. QED BY <1>1, <2>1 DEF CallInv
<1>4. PaceInv'
  <2>1. \A d \in Callers : d # c => call'[d] = call[d]
    BY <1>1
  <2>2. call'[c].at \notin Using
    BY <1>1
  <2>3. \A d \in Callers : /\ call'[d].at \in Using => d # c
                           /\ call[d].at \in {"send", "flying"} => d # c
    BY <2>2
  <2>4. UNCHANGED <<built, paced, mu, owed, due>>
    BY DEF pacing
  <2>5. QED BY <2>1, <2>2, <2>3, <2>4 DEF PaceInv, Using
<1>5. QED BY <1>2, <1>3, <1>4

LEMMA EndStep ==
  ASSUME IInv, NEW c \in Callers, Finish(c) \/ Fail(c),
         UNCHANGED <<ep, pol, scope, opts, changes, cur, pacing>>,
         cached' \in BOOLEAN, cached => cached',
         call[c].at \notin {"wait", "send", "flying"}
  PROVE  IInv'
<1>1. pol \in Policies
  BY DEF IInv, ConfigOK
<1>2. ASSUME NEW r \in {Idle, [Idle EXCEPT !.failed = TRUE]}, Update(c, r) PROVE IInv'
  <2>1. r \in Rec /\ r.at = "idle" /\ Fits(r, pol, cached')
    BY <1>1, IdleFits
  <2>2. QED BY <1>2, <2>1, FileUpdate DEF Using
<1>3. QED BY <1>2 DEF Finish, Fail

\* From one place of a file call to the next.
FilePlaces == {"gate", "probe", "asked", "cache", "consent", "denied", "fresh",
               "asking", "recheck", "stat", "weigh", "transfer"}

LEMMA GotoStep ==
  ASSUME IInv, NEW c \in Callers, Local, call[c].at \in FilePlaces,
         NEW l \in FilePlaces \ {"gate", "cache", "weigh"}, Goto(c, l),
         l \in Admitted => call[c].gates # {},
         l \in Consented => Approx <= call[c].granted,
         l = "transfer" => 0 < call[c].size /\ call[c].size <= call[c].since,
         l = "asking" => ep.mutable
  PROVE  IInv'
<1> DEFINE r == [call[c] EXCEPT !.at = l]
<1>1. call[c] \in Rec /\ Fits(call[c], pol, cached) /\ cached \in BOOLEAN
  BY DEF IInv, CallsOK, CallInv, ConfigOK
<1>2. /\ r \in Rec /\ r.at = l
      /\ r.gates = call[c].gates /\ r.granted = call[c].granted
      /\ r.size = call[c].size /\ r.since = call[c].since
      /\ r.enabled = call[c].enabled /\ r.kept = call[c].kept /\ r.failed = call[c].failed
  BY <1>1 DEF Rec, Places, FilePlaces
<1>3. Update(c, r)
  BY DEF Goto
<1> HIDE DEF r
<1>4. Fits(r, pol, cached)
  BY <1>1, <1>2 DEF Fits, FilePlaces
<1>5. QED
  BY <1>1, <1>2, <1>3, <1>4, FileUpdate DEF Local, config, FilePlaces, Using

\* A call begins with a record that has seen the policy in force.
LEMMA BeginStep ==
  ASSUME IInv, NEW c \in Callers, NEW r \in Rec, Begin(c, r),
         r.at \in {"gate", "probe", "url"}, r.at = "gate" => r.open = pol.enabled,
         r.gates = {}, r.granted = 0, r.size = 0, r.enabled, r.kept, ~r.failed
  PROVE  IInv'
<1>1. /\ pol \in Policies /\ cached \in BOOLEAN /\ call \in [Callers -> Rec]
      /\ Limit(pol) \in 0 .. MaxSize
  BY LimitInRange DEF IInv, ConfigOK, CallsOK
<1> DEFINE s == [r EXCEPT !.kept = cached]
           n == Noting(s, pol)
<1>2. /\ s \in Rec /\ s.at = r.at /\ s.gates = {} /\ s.granted = 0 /\ s.size = 0
      /\ s.open = r.open /\ s.enabled /\ s.kept = cached /\ ~s.failed
  <2>1. s \in Rec
    BY <1>1, Zenon DEF Rec
  <2>2. QED BY <2>1 DEF Rec
<1>3. /\ Update(c, n) /\ At(c, "idle")
      /\ UNCHANGED <<ep, pol, scope, opts, changes, cached, cur, pacing>>
  BY DEF Begin, config
<1> HIDE DEF s
<1>4. n = [s EXCEPT !.gates = @ \union (IF Allowed(pol) THEN {pol.url} ELSE {}),
                    !.granted = Greater(@, Limit(pol)),
                    !.since = IF s.size = 0 THEN 0 ELSE Greater(@, Limit(pol)),
                    !.enabled = @ /\ pol.enabled]
  BY <1>2 DEF Noting
<1>5. n \in Rec
  BY <1>1, <1>2, NotingInRec
<1>6. /\ n.at = r.at /\ n.open = r.open /\ n.kept = cached /\ ~n.failed
      /\ n.gates = IF Allowed(pol) THEN {pol.url} ELSE {}
      /\ n.granted = Greater(0, Limit(pol))
      /\ n.enabled => pol.enabled
  BY <1>2, <1>4 DEF Rec
<1> HIDE DEF n
<1>7. Fits(n, pol, cached)
  BY <1>1, <1>6 DEF Fits, Greater, Admitted, Consented
<1>8. QED BY <1>1, <1>3, <1>5, <1>6, <1>7, FileUpdate DEF Using

LEMMA BeginsStep ==
  ASSUME IInv, NEW c \in Callers, GetFile(c) \/ Exists(c) \/ Request(c)
  PROVE  IInv'
<1>1. pol.url \in Urls /\ pol.enabled \in BOOLEAN
  BY DEF IInv, ConfigOK, Policies
<1>2. /\ Idle \in Rec /\ Idle.gates = {} /\ Idle.granted = 0 /\ Idle.size = 0
      /\ Idle.enabled /\ Idle.kept /\ ~Idle.failed
  BY IdleFits DEF Idle
<1>3. {"gate", "probe", "url"} \subseteq Places
  BY DEF Places
<1>4. CASE GetFile(c)
  <2> DEFINE r == [Idle EXCEPT !.at = "gate", !.base = pol.url, !.open = pol.enabled]
  <2>1. r \in Rec
    BY <1>1, <1>2, <1>3, Zenon DEF Rec
  <2>2. /\ r.at = "gate" /\ r.open = pol.enabled /\ r.gates = {} /\ r.granted = 0
        /\ r.size = 0 /\ r.enabled /\ r.kept /\ ~r.failed
    BY DEF Idle
  <2>3. Begin(c, r)
    BY <1>4 DEF GetFile
  <2> HIDE DEF r
  <2>4. QED BY <2>1, <2>2, <2>3, BeginStep
<1>5. CASE Exists(c)
  <2> DEFINE r == [Idle EXCEPT !.at = "probe", !.base = pol.url]
  <2>1. r \in Rec
    BY <1>1, <1>2, <1>3, Zenon DEF Rec
  <2>2. /\ r.at = "probe" /\ r.gates = {} /\ r.granted = 0
        /\ r.size = 0 /\ r.enabled /\ r.kept /\ ~r.failed
    BY DEF Idle
  <2>3. Begin(c, r)
    BY <1>5 DEF Exists
  <2> HIDE DEF r
  <2>4. QED BY <2>1, <2>2, <2>3, BeginStep
<1>6. CASE Request(c)
  <2>1. PICK again \in BOOLEAN : Begin(c, [Idle EXCEPT !.at = "url", !.again = again])
    BY <1>6 DEF Request
  <2> DEFINE r == [Idle EXCEPT !.at = "url", !.again = again]
  <2>2. r \in Rec
    BY <1>2, <1>3, Zenon DEF Rec
  <2>3. /\ r.at = "url" /\ r.gates = {} /\ r.granted = 0
        /\ r.size = 0 /\ r.enabled /\ r.kept /\ ~r.failed
    BY DEF Idle
  <2>4. Begin(c, r)
    BY <2>1
  <2> HIDE DEF r
  <2>5. QED BY <2>2, <2>3, <2>4, BeginStep
<1>7. QED BY <1>4, <1>5, <1>6

\* The steps of GetFile and Exists.
LEMMA FileCallStep ==
  ASSUME IInv, NEW c \in Callers, FileStep(c)
  PROVE  IInv'
<1>1. /\ call[c] \in Rec /\ Fits(call[c], pol, cached)
      /\ (At(c, "asking") => ep.mutable)
      /\ pol \in Policies /\ cached \in BOOLEAN
      /\ Limit(pol) \in 0 .. MaxSize /\ Approx \in Nat
  BY LimitInRange, RemoteAssumption DEF IInv, CallsOK, CallInv, ConfigOK
<1>2. CASE \/ ProbeRefused(c) \/ Probed(c) \/ GateRefused(c) \/ ServedFirst(c)
           \/ NothingOffline(c) \/ ServedUnasked(c) \/ Denied(c) \/ Fresh(c)
           \/ FetchFails(c)
  <2>1. Local /\ (Finish(c) \/ Fail(c)) /\ call[c].at \notin {"wait", "send", "flying"}
    BY <1>2 DEF ProbeRefused, Probed, GateRefused, ServedFirst, NothingOffline,
                ServedUnasked, Denied, Fresh, FetchFails
  <2>2. QED BY <1>1, <2>1, EndStep DEF Local, config
<1>3. CASE Probe(c)
  BY <1>1, <1>3, GotoStep DEF Probe, Fits, FilePlaces, Consented
<1>4. CASE Gate(c)
  <2> DEFINE r == [call[c] EXCEPT !.at = "cache", !.offline = pol.offline]
  <2>1. /\ r \in Rec /\ r.at = "cache" /\ r.offline = pol.offline
        /\ r.gates = call[c].gates /\ r.granted = call[c].granted
        /\ r.enabled = call[c].enabled /\ r.kept = call[c].kept /\ r.failed = call[c].failed
    <3>1. pol.offline \in BOOLEAN /\ "cache" \in Places
      BY <1>1 DEF Policies, Places
    <3>2. r \in Rec
      BY <1>1, <3>1, Zenon DEF Rec
    <3>3. QED BY <1>1, <3>2 DEF Rec
  <2>2. Update(c, r) /\ Local /\ At(c, "gate") /\ (Allowed(pol) \/ pol.offline)
    BY <1>4 DEF Gate
  <2> HIDE DEF r
  <2>3. Fits(r, pol, cached)
    BY <1>1, <2>1, <2>2 DEF Fits, Admitted, Consented
  <2>4. QED BY <1>1, <2>1, <2>2, <2>3, FileUpdate DEF Local, config, Using
<1>5. CASE NotServedFirst(c)
  BY <1>1, <1>5, GotoStep DEF NotServedFirst, Fits, FilePlaces, Consented
<1>6. CASE Consent(c)
  <2>1. call[c].gates # {} /\ Approx <= call[c].granted
    BY <1>1, <1>6 DEF Consent, CheckDownload, Fits, Admitted, Rec
  <2>2. QED BY <1>6, <2>1, GotoStep DEF Consent, FilePlaces
<1>7. CASE Unconsented(c)
  BY <1>7, GotoStep DEF Unconsented, FilePlaces, Admitted, Consented
<1>8. CASE Ask(c)
  <2>1. call[c].gates # {} /\ Approx <= call[c].granted
    BY <1>1, <1>8 DEF Ask, Fits, Admitted, Consented
  <2>2. QED BY <1>8, <2>1, GotoStep DEF Ask, FilePlaces
<1>9. ASSUME NEW l \in Consented \ {"weigh", "transfer", "asking"},
             NEW f \in {"open", "locked", "failed"},
             Update(c, [call[c] EXCEPT !.at = l, !.phase = f]),
             call[c].at \in Consented, Local
      PROVE  IInv'
  <2> DEFINE r == [call[c] EXCEPT !.at = l, !.phase = f]
  <2>1. /\ r \in Rec /\ r.at = l
        /\ r.gates = call[c].gates /\ r.granted = call[c].granted
        /\ r.enabled = call[c].enabled /\ r.kept = call[c].kept /\ r.failed = call[c].failed
    <3>1. l \in Places
      BY DEF Places, Consented
    <3>2. r \in Rec
      BY <1>1, <3>1, Zenon DEF Rec
    <3>3. QED BY <1>1, <3>2 DEF Rec
  <2>2. Update(c, r)
    BY <1>9
  <2> HIDE DEF r
  <2>3. Fits(r, pol, cached)
    BY <1>1, <1>9, <2>1 DEF Fits, Admitted, Consented
  <2>4. QED BY <1>1, <1>9, <2>1, <2>2, <2>3, FileUpdate DEF Local, config, Using, Consented
<1>10. CASE NotFresh(c)
  <2>1. call[c].at \in {"asking", "fresh"} /\ Local
    BY <1>10 DEF NotFresh
  <2>2. CASE call[c].phase = "open"
    BY <1>9, <1>10, <2>1, <2>2 DEF NotFresh, Consented
  <2>3. CASE call[c].phase # "open"
    <3>1. Goto(c, "recheck")
      BY <1>10, <2>3 DEF NotFresh, Goto, Update
    <3>2. call[c].gates # {} /\ Approx <= call[c].granted
      BY <1>1, <2>1 DEF Fits, Admitted, Consented
    <3>3. QED BY <2>1, <3>1, <3>2, GotoStep DEF FilePlaces
  <2>4. QED BY <2>2, <2>3
<1>11. ASSUME call[c].at \in {"recheck", "stat", "weigh", "transfer"}, Local,
              FetchOr(c, FALSE, "")
       PROVE  IInv'
  BY <1>9, <1>11 DEF FetchOr, Consented
<1>12. CASE Recheck(c)
  <2>1. At(c, "recheck") /\ Local
    BY <1>12 DEF Recheck
  <2>2. CASE CheckDownload(Approx)
    <3>1. Goto(c, "stat")
      BY <1>12, <2>2 DEF Recheck, FetchOr, Goto, Update
    <3>2. call[c].gates # {} /\ Approx <= call[c].granted
      BY <1>1, <2>1 DEF Fits, Admitted, Consented
    <3>3. QED BY <2>1, <3>1, <3>2, GotoStep DEF FilePlaces
  <2>3. CASE ~CheckDownload(Approx)
    BY <1>11, <1>12, <2>1, <2>3 DEF Recheck, FetchOr
  <2>4. QED BY <2>2, <2>3
<1>13. CASE Stat(c)
  <2>1. PICK n \in Sizes : Update(c, [call[c] EXCEPT !.at = "weigh", !.size = n,
                                                    !.since = Limit(pol)])
    BY <1>13 DEF Stat
  <2> DEFINE r == [call[c] EXCEPT !.at = "weigh", !.size = n, !.since = Limit(pol)]
  <2>2. /\ r \in Rec /\ r.at = "weigh" /\ r.size = n /\ r.since = Limit(pol)
        /\ r.gates = call[c].gates /\ r.granted = call[c].granted
        /\ r.enabled = call[c].enabled /\ r.kept = call[c].kept /\ r.failed = call[c].failed
    <3>1. "weigh" \in Places /\ n \in 0 .. MaxSize
      BY RemoteAssumption DEF Places, Sizes
    <3>2. r \in Rec
      BY <1>1, <3>1, Zenon DEF Rec
    <3>3. QED BY <1>1, <3>2 DEF Rec
  <2>3. Update(c, r) /\ Local /\ At(c, "stat") /\ 0 < n
    BY <1>13, <2>1, RemoteAssumption DEF Stat, Sizes
  <2> HIDE DEF r
  <2>4. Fits(r, pol, cached)
    BY <1>1, <2>2, <2>3 DEF Fits, Admitted, Consented
  <2>5. QED BY <1>1, <2>2, <2>3, <2>4, FileUpdate DEF Local, config, Using
<1>14. CASE Weigh(c)
  <2>1. At(c, "weigh") /\ Local
    BY <1>14 DEF Weigh
  <2>2. CASE CheckDownload(call[c].size)
    <3>1. Goto(c, "transfer")
      BY <1>14, <2>2 DEF Weigh, FetchOr, Goto, Update
    <3>2. /\ call[c].gates # {} /\ Approx <= call[c].granted
          /\ 0 < call[c].size /\ call[c].size <= call[c].since
      BY <1>1, <2>1, <2>2 DEF Fits, Admitted, Consented, CheckDownload, Rec
    <3>3. QED BY <2>1, <3>1, <3>2, GotoStep DEF FilePlaces
  <2>3. CASE ~CheckDownload(call[c].size)
    BY <1>11, <1>14, <2>1, <2>3 DEF Weigh, FetchOr
  <2>4. QED BY <2>2, <2>3
<1>15. CASE Transfer(c)
  <2>1. /\ Finish(c) /\ cached' = TRUE /\ At(c, "transfer")
        /\ UNCHANGED <<ep, pol, scope, opts, changes, cur, pacing>>
    BY <1>15 DEF Transfer, config
  <2>2. cached' \in BOOLEAN /\ (cached => cached')
    BY <2>1
  <2>3. QED BY <2>1, <2>2, EndStep
<1>16. CASE SourceFails(c)
  BY <1>11, <1>16 DEF SourceFails
<1>17. QED
  BY <1>2, <1>3, <1>4, <1>5, <1>6, <1>7, <1>8, <1>10, <1>12, <1>13, <1>14, <1>15, <1>16
  DEF FileStep

ApiPlaces == {"transport", "pace", "wait", "send", "flying"}

\* A step within an API call keeps what the call has seen.
LEMMA ApiUpdate ==
  ASSUME IInv, NEW c \in Callers, NEW r \in Rec, Update(c, r),
         UNCHANGED <<ep, pol, scope, opts, changes, cached>>,
         \/ r.at = "idle" /\ Fits(r, pol, cached)
         \/ /\ call[c].at \in ApiPlaces /\ r.at \in ApiPlaces
            /\ r.gates = call[c].gates /\ r.granted = call[c].granted
            /\ r.enabled = call[c].enabled /\ r.kept = call[c].kept /\ r.failed = call[c].failed
  PROVE  /\ ConfigOK' /\ CallsOK' /\ CallInv'
         /\ call' = [call EXCEPT ![c] = r] /\ call \in [Callers -> Rec]
         /\ call'[c] = r /\ \A d \in Callers : d # c => call'[d] = call[d]
<1> USE DEF IInv
<1>1. call' = [call EXCEPT ![c] = r] /\ call \in [Callers -> Rec]
  BY DEF Update, CallsOK
<1>2. ConfigOK' /\ CallsOK'
  BY <1>1 DEF ConfigOK, CallsOK
<1>3. Fits(r, pol, cached) /\ r.at # "asking"
  BY DEF CallInv, Fits, ApiPlaces, Admitted, Consented
<1>4. CallInv'
  BY <1>1, <1>3 DEF CallInv
<1>5. QED BY <1>1, <1>2, <1>4

LEMMA ApiGoto ==
  ASSUME IInv, NEW c \in Callers, call[c].at \in ApiPlaces, NEW l \in ApiPlaces,
         Goto(c, l), UNCHANGED <<ep, pol, scope, opts, changes, cached>>
  PROVE  /\ ConfigOK' /\ CallsOK' /\ CallInv'
         /\ call'[c].at = l /\ call'[c].tr = call[c].tr /\ call'[c].tries = call[c].tries
         /\ \A d \in Callers : d # c => call'[d] = call[d]
<1> DEFINE r == [call[c] EXCEPT !.at = l]
<1>1. call[c] \in Rec /\ l \in Places
  BY DEF IInv, CallsOK, ApiPlaces, Places
<1>2. r \in Rec
  BY <1>1, Zenon DEF Rec
<1>3. /\ r.at = l /\ r.tr = call[c].tr /\ r.tries = call[c].tries
      /\ r.gates = call[c].gates /\ r.granted = call[c].granted
      /\ r.enabled = call[c].enabled /\ r.kept = call[c].kept /\ r.failed = call[c].failed
  BY <1>1 DEF Rec
<1>4. Update(c, r)
  BY DEF Goto
<1> HIDE DEF r
<1>5. QED BY <1>2, <1>3, <1>4, ApiUpdate

\* Getting at a transport.
LEMMA TransportStep ==
  ASSUME IInv, NEW c \in Callers, NewTransport(c) \/ OldTransport(c)
  PROVE  IInv'
<1> USE DEF IInv
<1>1. /\ call[c] \in Rec /\ changes \in 0 .. MaxChanges /\ MaxChanges \in Nat
      /\ "pace" \in Places
  BY RemoteAssumption DEF CallsOK, ConfigOK, Places
<1>2. ASSUME NEW t \in Transports, Update(c, [call[c] EXCEPT !.at = "pace", !.tr = t]),
             At(c, "transport"), UNCHANGED <<ep, pol, scope, opts, changes, cached>>
      PROVE  /\ ConfigOK' /\ CallsOK' /\ CallInv'
             /\ call'[c].at = "pace" /\ call'[c].tr = t
             /\ \A d \in Callers : d # c => call'[d] = call[d]
  <2> DEFINE r == [call[c] EXCEPT !.at = "pace", !.tr = t]
  <2>1. r \in Rec
    BY <1>1, Zenon DEF Rec
  <2>2. /\ r.at = "pace" /\ r.tr = t
        /\ r.gates = call[c].gates /\ r.granted = call[c].granted
        /\ r.enabled = call[c].enabled /\ r.kept = call[c].kept /\ r.failed = call[c].failed
    BY <1>1 DEF Rec
  <2>3. Update(c, r)
    BY <1>2
  <2> HIDE DEF r
  <2>4. QED BY <1>2, <2>1, <2>2, <2>3, ApiUpdate DEF ApiPlaces
<1>3. CASE NewTransport(c)
  <2>1. /\ At(c, "transport") /\ cur = None /\ built' = built + 1 /\ cur' = built'
        /\ paced' \in {paced, paced \union {built'}}
        /\ Update(c, [call[c] EXCEPT !.at = "pace", !.tr = built'])
        /\ UNCHANGED <<ep, pol, scope, opts, changes, cached, mu, owed, due>>
    BY <1>3 DEF NewTransport, config
  <2>2. built \in 0 .. changes /\ built' \in Transports
    BY <1>1, <2>1 DEF BuiltOK, Transports
  <2>3. /\ ConfigOK' /\ CallsOK' /\ CallInv'
        /\ call'[c].at = "pace" /\ call'[c].tr = built'
        /\ \A d \in Callers : d # c => call'[d] = call[d]
    BY <1>2, <2>1, <2>2
  <2>4. BuiltOK'
    <3>1. /\ built \in Nat /\ built <= changes /\ changes \in Nat /\ built' = built + 1
      BY <1>1, <2>1, <2>2
    <3>2. built' \in 0 .. changes + 1 /\ cur' \in 1 .. built'
      BY <2>1, <3>1
    <3>3. paced \subseteq 1 .. built /\ 1 .. built \subseteq 1 .. built' /\ built' \in 1 .. built'
      BY <3>1 DEF BuiltOK
    <3>4. paced' \subseteq 1 .. built'
      BY <2>1, <3>3
    <3>5. cur' # None
      BY <3>1, <2>1, RemoteAssumption
    <3>6. \A t \in Transports : t > built' => due[t] = 0
      BY <3>1 DEF BuiltOK, Transports
    <3>7. QED BY <2>1, <3>2, <3>4, <3>5, <3>6 DEF BuiltOK
  <2>5. PaceInv'
    <3>1. \A d \in Callers : call[d].at \in Using => call[d].tr \in 1 .. built
      BY DEF PaceInv
    <3>2. \A d \in Callers :
             /\ call'[d].at \in Using => call'[d].tr \in 1 .. built'
             /\ call'[d].at \in {"wait", "send", "flying"} =>
                  /\ d # c /\ call'[d] = call[d]
                  /\ call[d].tr \in paced' <=> call[d].tr \in paced
      BY <2>1, <2>2, <2>3, <3>1 DEF Using
    <3>3. due[built'] = 0 /\ owed[built'] \in Nat
      BY <2>1, <2>2 DEF BuiltOK
    <3>4. \A d \in Callers : call[d].at \in {"send", "flying"} => call'[d] = call[d]
      BY <2>1, <2>3
    <3>5. \A t \in paced' :
            \/ due[t] <= owed[t]
            \/ \E d \in Callers : /\ call'[d].at \in {"send", "flying"}
                                  /\ call'[d].tr = t /\ call'[d].tries > 0
      <4> TAKE t \in paced'
      <4>1. CASE t = built'
        BY <3>3, <4>1
      <4>2. CASE t \in paced
        BY <3>4, <4>2 DEF PaceInv
      <4>3. QED BY <2>1, <4>1, <4>2
    <3>6. QED BY <2>1, <3>2, <3>5 DEF PaceInv
  <2>6. QED BY <2>3, <2>4, <2>5
<1>4. CASE OldTransport(c)
  <2>1. /\ At(c, "transport") /\ cur # None
        /\ Update(c, [call[c] EXCEPT !.at = "pace", !.tr = cur])
        /\ UNCHANGED <<ep, pol, scope, opts, changes, cached, cur, pacing>>
    BY <1>4 DEF OldTransport, Local, config
  <2>2. cur \in 1 .. built /\ cur \in Transports
    BY <1>1, <2>1 DEF BuiltOK, Transports
  <2>3. /\ ConfigOK' /\ CallsOK' /\ CallInv'
        /\ call'[c].at = "pace" /\ call'[c].tr = cur
        /\ \A d \in Callers : d # c => call'[d] = call[d]
    BY <1>2, <2>1, <2>2
  <2>4. BuiltOK'
    BY <2>1 DEF BuiltOK, pacing
  <2>5. PaceInv'
    <3>1. \A d \in Callers : /\ call'[d].at \in {"wait", "send", "flying"} => d # c
                             /\ call[d].at \in {"send", "flying"} => call'[d] = call[d]
      BY <2>1, <2>3
    <3>2. QED BY <2>1, <2>2, <2>3, <3>1 DEF PaceInv, pacing, Using
  <2>6. QED BY <2>3, <2>4, <2>5
<1>5. QED BY <1>3, <1>4

LEMMA UsedInRange ==
  ASSUME IInv, NEW c \in Callers, call[c].at \in Using
  PROVE  call[c].tr \in 1 .. built /\ call[c].tr \in Transports
<1>1. /\ built \in Nat /\ built <= changes + 1 /\ changes \in 0 .. MaxChanges
      /\ MaxChanges \in Nat
  BY RemoteAssumption DEF IInv, BuiltOK, ConfigOK
<1>2. call[c].tr \in 1 .. built
  BY DEF IInv, PaceInv
<1>3. QED BY <1>1, <1>2 DEF Transports

LEMMA PacedInRange ==
  ASSUME IInv, NEW t \in paced
  PROVE  t \in 1 .. built /\ t \in Transports
<1>1. /\ built \in Nat /\ built <= changes + 1 /\ changes \in 0 .. MaxChanges
      /\ MaxChanges \in Nat /\ t \in 1 .. built
  BY RemoteAssumption DEF IInv, BuiltOK, ConfigOK
<1>2. QED BY <1>1 DEF Transports

\* The mutex, the wait and the sending.
LEMMA PacingStep ==
  ASSUME IInv, NEW c \in Callers, Unpaced(c) \/ Pace(c) \/ Waited(c)
  PROVE  IInv'
<1> USE DEF IInv
<1>1. CASE Unpaced(c)
  <2>1. /\ At(c, "pace") /\ call[c].tr \notin paced /\ Goto(c, "send")
        /\ UNCHANGED <<ep, pol, scope, opts, changes, cached, cur, pacing>>
    BY <1>1 DEF Unpaced, Local, config
  <2>2. /\ ConfigOK' /\ CallsOK' /\ CallInv'
        /\ call'[c].at = "send" /\ call'[c].tr = call[c].tr
        /\ \A d \in Callers : d # c => call'[d] = call[d]
    BY <2>1, ApiGoto DEF ApiPlaces
  <2>3. BuiltOK'
    BY <2>1 DEF BuiltOK, pacing
  <2>4. PaceInv'
    BY <2>1, <2>2 DEF PaceInv, pacing, Using
  <2>5. QED BY <2>2, <2>3, <2>4
<1>2. CASE Pace(c)
  <2>1. /\ At(c, "pace") /\ call[c].tr \in paced /\ mu[call[c].tr] = None
        /\ mu' = [mu EXCEPT ![call[c].tr] = c] /\ Goto(c, "wait")
        /\ UNCHANGED <<ep, pol, scope, opts, changes, cached, cur, built, paced, owed, due>>
    BY <1>2 DEF Pace, config
  <2>2. /\ ConfigOK' /\ CallsOK' /\ CallInv'
        /\ call'[c].at = "wait" /\ call'[c].tr = call[c].tr
        /\ \A d \in Callers : d # c => call'[d] = call[d]
    BY <2>1, ApiGoto DEF ApiPlaces
  <2>3. BuiltOK'
    <3>1. mu' \in [Transports -> Callers \union {None}]
      BY <2>1 DEF BuiltOK
    <3>2. QED BY <2>1, <3>1 DEF BuiltOK
  <2>4. call[c].tr \in Transports
    BY <2>1, UsedInRange DEF Using
  <2>5. PaceInv'
    <3>1. \A d \in Callers : d # c /\ call[d].at \in {"wait", "send", "flying"}
                             /\ call[d].tr \in paced => call[d].tr # call[c].tr
      BY <2>1, RemoteAssumption DEF PaceInv
    <3>2. mu'[call[c].tr] = c /\ \A t \in Transports : t # call[c].tr => mu'[t] = mu[t]
      BY <2>1, <2>4 DEF BuiltOK
    <3>3. \A d \in Callers : call[d].at \in Using => call[d].tr \in Transports
      BY UsedInRange
    <3>4. QED BY <2>1, <2>2, <3>1, <3>2, <3>3 DEF PaceInv, Using
  <2>6. QED BY <2>2, <2>3, <2>5
<1>3. CASE Waited(c)
  <2>1. /\ At(c, "wait") /\ owed[call[c].tr] = 0 /\ Goto(c, "send")
        /\ UNCHANGED <<ep, pol, scope, opts, changes, cached, cur, pacing>>
    BY <1>3 DEF Waited, Local, config
  <2>2. /\ ConfigOK' /\ CallsOK' /\ CallInv'
        /\ call'[c].at = "send" /\ call'[c].tr = call[c].tr
        /\ \A d \in Callers : d # c => call'[d] = call[d]
    BY <2>1, ApiGoto DEF ApiPlaces
  <2>3. BuiltOK'
    BY <2>1 DEF BuiltOK, pacing
  <2>4. due[call[c].tr] = 0
    <3>1. /\ call[c].tr \in paced /\ call[c].tr \in Transports /\ mu[call[c].tr] = c
          /\ due[call[c].tr] \in Nat /\ owed[call[c].tr] \in Nat
      BY <2>1, UsedInRange DEF PaceInv, BuiltOK, Using
    <3>2. ~\E d \in Callers : /\ call[d].at \in {"send", "flying"}
                              /\ call[d].tr = call[c].tr /\ call[d].tries > 0
      BY <2>1, <3>1 DEF PaceInv
    <3>3. QED BY <2>1, <3>1, <3>2 DEF PaceInv
  <2>5. PaceInv'
    BY <2>1, <2>2, <2>4 DEF PaceInv, pacing, Using
  <2>6. QED BY <2>2, <2>3, <2>5
<1>4. QED BY <1>1, <1>2, <1>3

\* One attempt more.
LEMMA AttemptStep ==
  ASSUME IInv, NEW c \in Callers, Send(c) \/ Retry(c)
  PROVE  IInv'
<1> USE DEF IInv
<1>1. call[c] \in Rec /\ call[c].tries \in Nat /\ Interval \in Nat
  BY RemoteAssumption DEF CallsOK, Rec
<1>2. CASE Send(c)
  <2> DEFINE r == [call[c] EXCEPT !.at = "flying", !.tries = @ + 1]
  <2>1. /\ At(c, "send") /\ Update(c, r)
        /\ UNCHANGED <<ep, pol, scope, opts, changes, cached, cur, pacing>>
    BY <1>2 DEF Send, Local, config
  <2>2. r \in Rec
    <3>1. "flying" \in Places /\ call[c].tries + 1 \in Nat
      BY <1>1 DEF Places
    <3>2. QED BY <1>1, <3>1, Zenon DEF Rec
  <2>3. /\ r.at = "flying" /\ r.tr = call[c].tr /\ r.tries = call[c].tries + 1
        /\ r.gates = call[c].gates /\ r.granted = call[c].granted
        /\ r.enabled = call[c].enabled /\ r.kept = call[c].kept /\ r.failed = call[c].failed
    BY <1>1 DEF Rec
  <2> HIDE DEF r
  <2>4. /\ ConfigOK' /\ CallsOK' /\ CallInv'
        /\ call'[c] = r /\ \A d \in Callers : d # c => call'[d] = call[d]
    BY <2>1, <2>2, <2>3, ApiUpdate DEF ApiPlaces
  <2>5. BuiltOK'
    BY <2>1 DEF BuiltOK, pacing
  <2>6. r.tries > 0
    BY <1>1, <2>3
  <2>7. PaceInv'
    BY <2>1, <2>3, <2>4, <2>6 DEF PaceInv, pacing, Using
  <2>8. QED BY <2>4, <2>5, <2>7
<1>3. CASE Retry(c)
  <2>1. /\ At(c, "flying") /\ Goto(c, "send")
        /\ due' = [due EXCEPT ![call[c].tr] = Interval]
        /\ UNCHANGED <<ep, pol, scope, opts, changes, cached, cur, built, paced, mu, owed>>
    BY <1>3 DEF Retry, config
  <2>2. /\ ConfigOK' /\ CallsOK' /\ CallInv'
        /\ call'[c].at = "send" /\ call'[c].tr = call[c].tr
        /\ call'[c].tries = call[c].tries
        /\ \A d \in Callers : d # c => call'[d] = call[d]
    BY <2>1, ApiGoto DEF ApiPlaces
  <2>3. /\ call[c].tr \in Transports /\ call[c].tr \in 1 .. built /\ call[c].tries > 0
    BY <2>1, UsedInRange DEF Using, PaceInv
  <2>4. BuiltOK'
    <3>1. due' \in [Transports -> Nat]
      BY <1>1, <2>1 DEF BuiltOK
    <3>2. \A t \in Transports : t > built => due'[t] = 0
      BY <2>1, <2>3 DEF BuiltOK
    <3>3. QED BY <2>1, <3>1, <3>2 DEF BuiltOK
  <2>5. \A t \in Transports : t # call[c].tr => due'[t] = due[t]
    BY <2>1 DEF BuiltOK
  <2>6. \A d \in Callers :
          d # c /\ call[d].at \in {"wait", "send", "flying"} /\ call[d].tr \in paced
            => call[d].tr # call[c].tr /\ call[d].tr \in Transports
    BY <2>1, UsedInRange DEF PaceInv, Using
  <2>7. PaceInv'
    <3>1. \A t \in paced' :
            \/ due'[t] <= owed'[t]
            \/ \E d \in Callers : /\ call'[d].at \in {"send", "flying"}
                                  /\ call'[d].tr = t /\ call'[d].tries > 0
      <4> TAKE t \in paced'
      <4>1. CASE t = call[c].tr
        BY <2>2, <2>3, <4>1
      <4>2. CASE t # call[c].tr
        <5>1. t \in paced /\ t \in Transports
          BY <2>1, PacedInRange
        <5>2. CASE due[t] <= owed[t]
          BY <2>1, <2>5, <4>2, <5>1, <5>2
        <5>3. ASSUME NEW d \in Callers, call[d].at \in {"send", "flying"},
                     call[d].tr = t, call[d].tries > 0
              PROVE  call'[d] = call[d]
          BY <2>2, <4>2, <5>3
        <5>4. QED BY <5>1, <5>2, <5>3 DEF PaceInv
      <4>3. QED BY <4>1, <4>2
    <3>2. QED BY <2>1, <2>2, <2>3, <2>5, <2>6, <3>1 DEF PaceInv, Using
  <2>8. QED BY <2>2, <2>4, <2>7
<1>4. QED BY <1>2, <1>3

\* The end of an API call, with or without a request.
LEMMA LeaveStep ==
  ASSUME IInv, NEW c \in Callers, WaitCancelled(c) \/ Answered(c)
  PROVE  IInv'
<1> USE DEF IInv
<1>1. /\ Interval \in Nat /\ pol \in Policies /\ cached \in BOOLEAN
  BY RemoteAssumption DEF ConfigOK
<1> DEFINE tr == call[c].tr
<1>2. /\ Unlock(c) /\ Finish(c) /\ call[c].at \in {"wait", "flying"}
      /\ UNCHANGED <<ep, pol, scope, opts, changes, cached, cur, built, paced>>
      /\ \/ At(c, "wait") /\ UNCHANGED <<owed, due>>
         \/ /\ due' = [due EXCEPT ![tr] = Interval]
            /\ owed' = [t \in Transports |->
                           IF t = tr /\ t \in paced THEN Interval ELSE owed[t]]
  BY DEF WaitCancelled, Answered, config
<1>3. tr \in Transports /\ tr \in 1 .. built
  BY <1>2, UsedInRange DEF Using
<1>4. /\ ConfigOK' /\ CallsOK' /\ CallInv'
      /\ call'[c] = Idle /\ \A d \in Callers : d # c => call'[d] = call[d]
  BY <1>1, <1>2, ApiUpdate, IdleFits DEF Finish
<1>5. /\ mu' \in [Transports -> Callers \union {None}]
      /\ \A t \in Transports : t # tr => mu'[t] = mu[t]
  BY <1>2 DEF Unlock, BuiltOK
<1>6. /\ owed' \in [Transports -> Nat] /\ due' \in [Transports -> Nat]
      /\ \A t \in Transports : t # tr => owed'[t] = owed[t] /\ due'[t] = due[t]
      /\ tr \in paced => \/ At(c, "wait") /\ owed'[tr] = owed[tr] /\ due'[tr] = due[tr]
                         \/ owed'[tr] = Interval /\ due'[tr] = Interval
  <2>1. CASE At(c, "wait") /\ UNCHANGED <<owed, due>>
    BY <2>1 DEF BuiltOK
  <2>2. CASE /\ due' = [due EXCEPT ![tr] = Interval]
             /\ owed' = [t \in Transports |->
                           IF t = tr /\ t \in paced THEN Interval ELSE owed[t]]
    BY <1>1, <1>3, <2>2 DEF BuiltOK
  <2>3. QED BY <1>2, <2>1, <2>2
<1>7. BuiltOK'
  <2>1. \A t \in Transports : t > built => due'[t] = 0
    BY <1>3, <1>6 DEF BuiltOK
  <2>2. QED BY <1>2, <1>5, <1>6, <2>1 DEF BuiltOK
<1>8. \A d \in Callers :
        d # c /\ call[d].at \in {"wait", "send", "flying"} /\ call[d].tr \in paced
          => call[d].tr # tr /\ call[d].tr \in Transports
  BY <1>2, UsedInRange DEF PaceInv, Using
<1>9. PaceInv'
  <2>1. \A t \in paced' :
          \/ due'[t] <= owed'[t]
          \/ \E d \in Callers : /\ call'[d].at \in {"send", "flying"}
                                /\ call'[d].tr = t /\ call'[d].tries > 0
    <3> TAKE t \in paced'
    <3>1. t \in paced /\ t \in Transports
      BY <1>2, PacedInRange
    <3>2. CASE t = tr
      <4>1. ~\E d \in Callers : d # c /\ call[d].at \in {"send", "flying"} /\ call[d].tr = t
        BY <1>8, <3>1, <3>2
      <4>2. CASE owed'[tr] = Interval /\ due'[tr] = Interval
        BY <1>1, <3>2, <4>2
      <4>3. CASE At(c, "wait") /\ owed'[tr] = owed[tr] /\ due'[tr] = due[tr]
        BY <3>1, <3>2, <4>1, <4>3 DEF PaceInv
      <4>4. QED BY <1>6, <3>1, <3>2, <4>2, <4>3
    <3>3. CASE t # tr
      <4>1. ASSUME NEW d \in Callers, call[d].at \in {"send", "flying"}, call[d].tr = t
            PROVE  call'[d] = call[d]
        BY <1>4, <3>3, <4>1
      <4>2. QED BY <1>6, <3>1, <3>3, <4>1 DEF PaceInv
    <3>4. QED BY <3>2, <3>3
  <2>2. \A d \in Callers : call'[d].at \in Using => d # c
    BY <1>4, IdleFits DEF Using
  <2>3. QED BY <1>2, <1>4, <1>5, <1>6, <1>8, <2>1, <2>2 DEF PaceInv, Using
<1>10. QED BY <1>4, <1>7, <1>9

LEMMA TickStep == IInv /\ Tick => IInv'
<1> SUFFICES ASSUME IInv, Tick PROVE IInv'
  OBVIOUS
<1> USE DEF IInv
<1>1. /\ UNCHANGED <<ep, pol, scope, opts, changes, cached, cur, built, paced, mu, call>>
      /\ owed' = [t \in Transports |-> Greater(owed[t] - 1, 0)]
      /\ due' = [t \in Transports |-> Greater(due[t] - 1, 0)]
  BY DEF Tick, config
<1>2. /\ ConfigOK' /\ CallsOK' /\ CallInv'
  BY <1>1 DEF ConfigOK, CallsOK, CallInv
<1>3. ASSUME NEW t \in Transports
      PROVE  /\ owed[t] \in Nat /\ due[t] \in Nat /\ owed'[t] \in Nat /\ due'[t] \in Nat
             /\ due[t] = 0 => due'[t] = 0
             /\ due[t] <= owed[t] => due'[t] <= owed'[t]
  <2>1. owed[t] \in Nat /\ due[t] \in Nat
    BY DEF BuiltOK
  <2>2. owed'[t] = Greater(owed[t] - 1, 0) /\ due'[t] = Greater(due[t] - 1, 0)
    BY <1>1
  <2>3. QED BY <2>1, <2>2 DEF Greater
<1>4. BuiltOK'
  <2>1. owed' \in [Transports -> Nat] /\ due' \in [Transports -> Nat]
    BY <1>1, <1>3
  <2>2. QED BY <1>1, <1>3, <2>1 DEF BuiltOK
<1>5. PaceInv'
  <2>1. \A c \in Callers : call[c].at \in Using => call[c].tr \in Transports
    BY UsedInRange
  <2>2. \A t \in paced : t \in Transports
    BY PacedInRange
  <2>3. QED BY <1>1, <1>3, <2>1, <2>2 DEF PaceInv, Using
<1>6. QED BY <1>2, <1>4, <1>5

LEMMA ApiCallStep ==
  ASSUME IInv, NEW c \in Callers, ApiStep(c) \/ Pace(c) \/ WaitCancelled(c)
  PROVE  IInv'
<1>1. CASE URL(c)
  <2> DEFINE r == [call[c] EXCEPT !.at = "transport", !.base = pol.url]
  <2>1. /\ At(c, "url") /\ Allowed(pol) /\ Update(c, r) /\ Local
    BY <1>1 DEF URL
  <2>2. /\ call[c] \in Rec /\ Fits(call[c], pol, cached) /\ pol \in Policies
        /\ cached \in BOOLEAN
    BY DEF IInv, CallsOK, CallInv, ConfigOK
  <2>3. r \in Rec
    <3>1. "transport" \in Places /\ pol.url \in Urls \union {None}
      BY <2>2 DEF Places, Policies
    <3>2. QED BY <2>2, <3>1, Zenon DEF Rec
  <2>4. /\ r.at = "transport" /\ r.gates = call[c].gates /\ r.granted = call[c].granted
        /\ r.enabled = call[c].enabled /\ r.kept = call[c].kept /\ r.failed = call[c].failed
    BY <2>2 DEF Rec
  <2> HIDE DEF r
  <2>5. Fits(r, pol, cached)
    BY <2>1, <2>2, <2>4 DEF Fits, Admitted, Consented
  <2>6. QED BY <2>1, <2>2, <2>3, <2>4, <2>5, FileUpdate DEF Local, config, Using
<1>2. CASE URLRefused(c)
  <2>1. /\ At(c, "url") /\ Finish(c)
        /\ UNCHANGED <<ep, pol, scope, opts, changes, cur, pacing, cached>>
    BY <1>2 DEF URLRefused, Local, config
  <2>2. cached' \in BOOLEAN /\ (cached => cached')
    BY <2>1 DEF IInv, ConfigOK
  <2>3. QED BY <2>1, <2>2, EndStep
<1>3. CASE NewTransport(c) \/ OldTransport(c)
  BY <1>3, TransportStep
<1>4. CASE Unpaced(c) \/ Pace(c) \/ Waited(c)
  BY <1>4, PacingStep
<1>5. CASE Send(c) \/ Retry(c)
  BY <1>5, AttemptStep
<1>6. CASE Answered(c) \/ WaitCancelled(c)
  BY <1>6, LeaveStep
<1>7. QED BY <1>1, <1>2, <1>3, <1>4, <1>5, <1>6 DEF ApiStep
--------------------------------------------------------------------------------
LEMMA NextIInv == IInv /\ [Next]_vars => IInv'
<1> SUFFICES ASSUME IInv, [Next]_vars PROVE IInv'
  OBVIOUS
<1>1. ASSUME NEW c \in Callers,
             \/ GetFile(c) \/ Exists(c) \/ FileStep(c)
             \/ Request(c) \/ ApiStep(c) \/ Pace(c) \/ WaitCancelled(c)
      PROVE  IInv'
  BY <1>1, BeginsStep, FileCallStep, ApiCallStep
<1>2. CASE Setter
  BY <1>2, SetterStep, LetGoStep DEF Setter
<1>3. CASE RemoveFile
  BY <1>3, LetGoStep
<1>4. CASE Tick
  BY <1>4, TickStep
<1>5. CASE UNCHANGED vars
  BY <1>5 DEF vars, config, pacing, IInv, ConfigOK, CallsOK, CallInv, BuiltOK, PaceInv
<1>6. QED BY <1>1, <1>2, <1>3, <1>4, <1>5 DEF Next

\* Each call's history takes in the policy in force, every check a call has
\* passed is in that history, and a paced request holds its transport's mutex.
THEOREM Invariant == Spec => []IInv
<1>1. QED BY InitIInv, NextIInv, PTL DEF Spec

\* No call contacts the source unless a policy that allowed access was in force
\* at some instant of it, nor transfers a body of a size no policy has consented
\* to since the source reported that size.
THEOREM PolicyHolds == Spec => PolicyObeyed
<1>1. IInv /\ [Next]_vars =>
        [\A c \in Callers :
           /\ Contacts(c) => call[c].gates # {}
           /\ Transfer(c) => call[c].size <= call[c].since]_vars
  <2> SUFFICES ASSUME IInv, NEW c \in Callers
               PROVE  /\ Contacts(c) => call[c].gates # {}
                      /\ Transfer(c) => call[c].size <= call[c].since
    BY Zenon
  <2>1. Fits(call[c], pol, cached) /\ pol \in Policies
    BY DEF IInv, CallInv, ConfigOK
  <2>2. CASE Probe(c)
    BY <2>1, <2>2 DEF Probe, Transfer, Fits
  <2>3. CASE Ask(c) \/ Stat(c) \/ Transfer(c) \/ Send(c)
    BY <2>1, <2>3 DEF Ask, Stat, Transfer, Send, Fits, Admitted
  <2>4. QED BY <2>2, <2>3 DEF Contacts
<1>2. QED BY <1>1, Invariant, PTL DEF Spec, PolicyObeyed

\* A transport with an interval has one request in flight, and sends no first
\* attempt before the interval since its last one has passed.
THEOREM Pacing == Spec => Paced
<1>1. IInv /\ [Next]_vars =>
        [\A c \in Callers : LET t == call[c].tr IN
           Send(c) /\ t \in paced =>
             /\ \A d \in Callers \ {c} : call[d].tr = t => ~At(d, "flying")
             /\ call[c].tries = 0 => due[t] = 0]_vars
  <2> SUFFICES ASSUME IInv, NEW c \in Callers, Send(c), call[c].tr \in paced
               PROVE  /\ \A d \in Callers \ {c} :
                            call[d].tr = call[c].tr => ~At(d, "flying")
                      /\ call[c].tries = 0 => due[call[c].tr] = 0
    BY Zenon
  <2>1. QED BY DEF IInv, PaceInv, Send
<1>2. QED BY <1>1, Invariant, PTL DEF Spec, Paced

\* Only these four steps end a call without an object.
LEMMA OnlyFailures ==
  ASSUME IInv, [Next]_vars, NEW c \in Callers, ~At(c, "idle"), call'[c].failed
  PROVE  GateRefused(c) \/ NothingOffline(c) \/ Denied(c) \/ FetchFails(c)
<1>1. call \in [Callers -> Rec] /\ call[c].failed = FALSE
  BY DEF IInv, CallsOK, CallInv, Fits, Rec
<1>2. Idle.failed = FALSE
  BY DEF Idle
<1>3. ASSUME NEW d \in Callers, NEW r, Update(d, r), d = c => r.failed = call[c].failed
      PROVE  FALSE
  BY <1>1, <1>3 DEF Update
<1>4. ASSUME NEW d \in Callers, Finish(d) PROVE FALSE
  BY <1>1, <1>2, <1>3, <1>4 DEF Finish
<1>5. ASSUME NEW d \in Callers, NEW l, Goto(d, l) PROVE FALSE
  BY <1>1, <1>3, <1>5 DEF Goto, Rec
<1>6. ASSUME NEW d \in Callers, NEW ok, NEW l, FetchOr(d, ok, l) PROVE FALSE
  BY <1>1, <1>3, <1>6 DEF FetchOr, Rec
<1>7. ASSUME NEW d \in Callers, Fail(d), d # c PROVE FALSE
  BY <1>1, <1>3, <1>7 DEF Fail
<1>8. ASSUME NEW p, NEW r, r = Noting(call[c], p) PROVE r.failed = call[c].failed
  BY <1>1, <1>8 DEF Noting, Rec
<1>9. ASSUME NEW p, Change(p) PROVE FALSE
  BY <1>1, <1>8, <1>9 DEF Change
<1>10. ASSUME Setter PROVE FALSE
  BY <1>1, <1>9, <1>10
  DEF Setter, SetOffline, SetEnabled, SetURL, SetConsent, SetPolicy, Reset, Capture,
      Restore, SetAPIOptions, CloseTransports
<1>11. ASSUME RemoveFile PROVE FALSE
  <2>1. call'[c] = [call[c] EXCEPT !.kept = @ /\ At(c, "idle")]
    BY <1>11 DEF RemoveFile
  <2>2. QED BY <1>1, <2>1 DEF Rec
<1>12. ASSUME NEW d \in Callers, GetFile(d) \/ Exists(d) \/ Request(d) PROVE FALSE
  <2>1. d # c
    BY <1>12 DEF GetFile, Exists, Request, Begin
  <2>2. QED BY <1>3, <1>12, <2>1 DEF GetFile, Exists, Request, Begin
<1>13. ASSUME NEW d \in Callers,
              \/ ProbeRefused(d) \/ Probed(d) \/ ServedFirst(d) \/ ServedUnasked(d)
              \/ Fresh(d) \/ Transfer(d) \/ URLRefused(d) \/ WaitCancelled(d) \/ Answered(d)
       PROVE  FALSE
  BY <1>4, <1>13
  DEF ProbeRefused, Probed, ServedFirst, ServedUnasked, Fresh, Transfer, URLRefused,
      WaitCancelled, Answered
<1>14. ASSUME NEW d \in Callers,
              \/ Probe(d) \/ NotServedFirst(d) \/ Consent(d) \/ Unconsented(d) \/ Ask(d)
              \/ Unpaced(d) \/ Pace(d) \/ Waited(d) \/ Retry(d)
       PROVE  FALSE
  BY <1>5, <1>14
  DEF Probe, NotServedFirst, Consent, Unconsented, Ask, Unpaced, Pace, Waited, Retry
<1>15. ASSUME NEW d \in Callers, Recheck(d) \/ Weigh(d) \/ SourceFails(d) PROVE FALSE
  BY <1>6, <1>15 DEF Recheck, Weigh, SourceFails, CheckDownload
<1>16. ASSUME NEW d \in Callers,
              Gate(d) \/ URL(d) \/ NewTransport(d) \/ OldTransport(d) \/ Send(d)
       PROVE  FALSE
  BY <1>1, <1>3, <1>16 DEF Gate, URL, NewTransport, OldTransport, Send, Rec
<1>17. ASSUME NEW d \in Callers, NotFresh(d) \/ Stat(d) PROVE FALSE
  BY <1>1, <1>3, <1>17 DEF NotFresh, Stat, Rec
<1>18. ASSUME NEW d \in Callers,
              GateRefused(d) \/ NothingOffline(d) \/ Denied(d) \/ FetchFails(d)
       PROVE  d = c
  BY <1>7, <1>18 DEF GateRefused, NothingOffline, Denied, FetchFails
<1>19. ASSUME Tick PROVE FALSE
  BY <1>1, <1>19 DEF Tick
<1>20. ASSUME UNCHANGED vars PROVE FALSE
  BY <1>1, <1>20 DEF vars
<1>21. PICK d \in Callers :
         \/ GetFile(d) \/ Exists(d) \/ FileStep(d)
         \/ Request(d) \/ ApiStep(d) \/ Pace(d) \/ WaitCancelled(d)
  BY <1>10, <1>11, <1>19, <1>20 DEF Next
<1>22. FileStep(d) => GateRefused(d) \/ NothingOffline(d) \/ Denied(d) \/ FetchFails(d)
  BY <1>13, <1>14, <1>15, <1>16, <1>17, <1>21 DEF FileStep
<1>23. ~ApiStep(d) /\ ~Pace(d) /\ ~WaitCancelled(d)
  BY <1>13, <1>14, <1>16, <1>21 DEF ApiStep
<1>24. QED BY <1>12, <1>18, <1>21, <1>22, <1>23

\* While the endpoint is enabled and the object in the cache, a call fails only
\* for a mutable object, after policies in force during it let it ask the source
\* and download.
THEOREM CopyServed == Spec => CachedServed
<1>1. IInv /\ [Next]_vars =>
        [\A c \in Callers : FailsWithCopy(c) =>
           ep.mutable /\ call[c].gates # {} /\ call[c].granted >= Approx]_vars
  <2> SUFFICES ASSUME IInv, [Next]_vars, NEW c \in Callers, FailsWithCopy(c)
               PROVE  ep.mutable /\ call[c].gates # {} /\ call[c].granted >= Approx
    BY Zenon
  <2>1. /\ GateRefused(c) \/ NothingOffline(c) \/ Denied(c) \/ FetchFails(c)
        /\ call[c].kept /\ call[c].enabled /\ ~At(c, "idle")
    BY OnlyFailures DEF FailsWithCopy
  <2>2. /\ Fits(call[c], pol, cached) /\ (At(c, "asking") => ep.mutable)
        /\ call[c] \in Rec /\ Approx \in Nat
    BY RemoteAssumption DEF IInv, CallInv, CallsOK
  <2>3. cached /\ pol.enabled
    BY <2>1, <2>2 DEF Fits
  <2>4. ~GateRefused(c)
    BY <2>1, <2>2, <2>3 DEF GateRefused, Fits, Allowed
  <2>5. At(c, "asking")
    BY <2>1, <2>3, <2>4 DEF NothingOffline, Denied, FetchFails
  <2>6. QED BY <2>2, <2>5 DEF Fits, Admitted, Consented, Rec
<1>2. QED BY <1>1, Invariant, PTL DEF Spec, CachedServed
================================================================================
