------------------------- MODULE GitHubClientProofs -------------------------
(***************************************************************************)
(* Proofs about GitHubClient, for any repositories and installations and   *)
(* every value of the limits and times.                                    *)
(***************************************************************************)
EXTENDS GitHubClient, TLAPS

(* `attempts` is the retries and the call that is out.                     *)
Counting ==
  /\ pc = "idle" => tries = 0 /\ attempts = 0
  /\ pc = "back" => attempts = tries + 1
  /\ pc \notin {"idle", "back"} => attempts = tries
  /\ request.method # "GET" => tries = 0

(* A cached token and the token of a request fit the repository; one about *)
(* to be sent outlives the longest call.                                   *)
Bearing ==
  /\ \A r \in Repos : cache[r] = NoToken \/ cache[r].id = InstallationOf[r]
  /\ pc = "exchange" => bearer.id = Charged
  /\ App /\ pc \in {"send", "back"} => bearer.id = Charged
  /\ App /\ pc = "send" => bearer.left > CallTime
  /\ answer.status # "expired"

(* When GitHub has said that some limit is nearly used up, that is the     *)
(* last thing it said, and it is not over; so the next request sleeps      *)
(* through it before it is sent, whoever it is for.                        *)
LowIsLast ==
  \A i \in Installations :
    told[i] <= Buffer => /\ pc \in {"idle", "rate"}
                         /\ limits[i].reset > 0
                         /\ known = [remaining |-> told[i], reset |-> limits[i].reset]

(* An answer states the limit it was charged to.                           *)
Answering ==
  /\ pc # "back" => answer = Pending
  /\ Stated => answer.limit.reset > 0 /\ answer.limit.reset = limits[Charged].reset

ClientInv == TypeOK /\ Counting /\ Bearing /\ LowIsLast /\ Answering

-----------------------------------------------------------------------------
(* Time *)

LEMMA LaterTyped ==
  ASSUME NEW most \in Nat, NEW x \in 0..most, NEW d \in Nat
  PROVE  Later(x, d) \in 0..most
  BY DEF Later

LEMMA NoTokenAges == \A d \in Nat : Aged(NoToken, d) = NoToken
  BY DEF Aged, NoToken, Later

LEMMA UnknownTyped == Unknown \in Limits /\ Pending \in Answers
  BY GitHubClientAssumption DEF Unknown, Limits, Pending, Answers, Statuses

LEMMA SoonerTyped ==
  ASSUME NEW limit \in Limits, NEW d \in Nat
  PROVE  Sooner(limit, d) \in Limits
  BY LaterTyped, GitHubClientAssumption DEF Sooner, Limits

LEMMA RenewedTyped ==
  ASSUME NEW limit \in Limits
  PROVE  Renewed(limit) \in Limits /\ Renewed(limit).reset > 0
  BY GitHubClientAssumption DEF Renewed, Limits

LEMMA TimeTyped ==
  ASSUME TypeOK, NEW d \in Nat
  PROVE  /\ AgedCache(d) \in [Repos -> Tokens \cup {NoToken}]
         /\ Sooner(known, d) \in Limits
         /\ SoonerLimits(d) \in [Installations -> Limits]
<1>1. ASSUME NEW r \in Repos PROVE Aged(cache[r], d) \in Tokens \cup {NoToken}
  <2>1. CASE cache[r] = NoToken
    BY <2>1, NoTokenAges
  <2>2. CASE cache[r] \in Tokens
    BY <2>2, LaterTyped, GitHubClientAssumption DEF Aged, Tokens
  <2> QED
    BY <2>1, <2>2 DEF TypeOK
<1>2. Sooner(known, d) \in Limits
  BY SoonerTyped DEF TypeOK
<1>3. ASSUME NEW i \in Installations PROVE Sooner(limits[i], d) \in Limits
  BY SoonerTyped DEF TypeOK
<1> QED
  BY <1>1, <1>2, <1>3 DEF AgedCache, SoonerLimits

LEMMA StillToldTyped ==
  ASSUME NEW n \in [Installations -> 0..Limit], NEW d
  PROVE  StillTold(n, d) \in [Installations -> 0..Limit]
  BY GitHubClientAssumption DEF StillTold

LEMMA SleepTyped == TypeOK => SleepDuration \in Nat
  BY DEF TypeOK, SleepDuration, Limits

-----------------------------------------------------------------------------
(* Types *)

LEMMA ClientInit == Init => ClientInv
<1> SUFFICES ASSUME Init PROVE ClientInv
  OBVIOUS
<1> USE GitHubClientAssumption DEF Init
<1>1. TypeOK
  BY UnknownTyped DEF TypeOK, Steps
<1>2. Counting /\ Answering
  BY DEF Counting, Answering, Stated, Pending
<1>3. Bearing
  BY DEF Bearing, Pending
<1>4. LowIsLast
  BY DEF LowIsLast
<1> QED
  BY <1>1, <1>2, <1>3, <1>4 DEF ClientInv

LEMMA ResolveTyped ==
  ASSUME TypeOK, NEW to \in Steps, NEW token \in Tokens \cup {NoToken},
         Resolve(to, token)
  PROVE  /\ pc' \in Steps /\ tries' \in 0..MaxRetries
         /\ bearer' \in Tokens \cup {NoToken}
         /\ answer' \in Answers /\ attempts' \in 0..MaxRetries + 2
  BY DEF TypeOK, Resolve

LEMMA OverTyped ==
  ASSUME Over
  PROVE  /\ pc' \in Steps /\ tries' \in 0..MaxRetries
         /\ bearer' \in Tokens \cup {NoToken}
         /\ answer' \in Answers /\ attempts' \in 0..MaxRetries + 2
  BY UnknownTyped, GitHubClientAssumption DEF Over, Steps

LEMMA ChargedTyped == TypeOK => Charged \in Installations /\ request.repo \in Repos
  BY GitHubClientAssumption DEF TypeOK, Charged, Requests

LEMMA ServeTyped ==
  ASSUME TypeOK, NEW d \in Nat, Serve(d)
  PROVE  answer' \in Answers /\ limits' \in [Installations -> Limits]
<1> DEFINE limit == Renewed(Sooner(limits[Charged], d))
           spent == [remaining |-> limit.remaining - 1, reset |-> limit.reset]
<1>1. limit \in Limits
  BY ChargedTyped, SoonerTyped, RenewedTyped DEF TypeOK
<1>2. limit.remaining > 0 => spent \in Limits
  BY <1>1, GitHubClientAssumption DEF Limits
<1>3. ASSUME NEW status \in Statuses, NEW l \in Limits, Reply(d, status, l)
      PROVE  answer' \in Answers /\ limits' \in [Installations -> Limits]
  BY <1>3, TimeTyped, UnknownTyped DEF Reply, Answers
<1>4. CASE Reply(d, "expired", limit) \/ Reply(d, "limited", limit)
  <2> HIDE DEF limit
  <2> QED
    BY <1>1, <1>3, <1>4 DEF Statuses
<1>5. CASE limit.remaining > 0
           /\ \E status \in {"ok", "server_error", "other_error"} : Reply(d, status, spent)
  <2> HIDE DEF spent
  <2> QED
    BY <1>2, <1>3, <1>5 DEF Statuses
<1> QED
  BY <1>4, <1>5 DEF Serve

LEMMA FailuresTyped == Failures \subseteq Answers
  BY UnknownTyped DEF Failures, Failed, Answers, Statuses

LEMMA TypeStep == TypeOK /\ Bearing /\ [Next]_vars => TypeOK'
<1> SUFFICES ASSUME TypeOK, Bearing, [Next]_vars PROVE TypeOK'
  OBVIOUS
<1> USE GitHubClientAssumption
<1>1. CASE Ask
  BY <1>1 DEF Ask, TypeOK, Steps, github
<1>2. CASE Wait
  <2>1. told' \in [Installations -> 0..Limit]
    BY <1>2, SleepTyped, StillToldTyped DEF Wait, Elapse, TypeOK
  <2> QED
    BY <1>2, <2>1, SleepTyped, TimeTyped DEF Wait, Elapse, TypeOK, Steps
<1>3. CASE Auth
  <2>1. Cached \in Tokens \cup {NoToken}
    BY ChargedTyped DEF Cached, TypeOK
  <2>2. \/ Over \/ \E to \in Steps, token \in Tokens \cup {NoToken} : Resolve(to, token)
    BY <1>3, <2>1 DEF Auth, Steps
  <2>3. /\ pc' \in Steps /\ tries' \in 0..MaxRetries
        /\ bearer' \in Tokens \cup {NoToken}
        /\ answer' \in Answers /\ attempts' \in 0..MaxRetries + 2
    BY <2>2, ResolveTyped, OverTyped
  <2> QED
    BY <1>3, <2>3 DEF Auth, TypeOK, github
<1>4. CASE Lookup
  <2>1. PICK d \in 0..CallTime : cache' = AgedCache(d) /\ known' = Sooner(known, d) /\ Elapse(d)
    BY <1>4 DEF Lookup
  <2>2. told' \in [Installations -> 0..Limit]
    BY <2>1, StillToldTyped DEF Elapse, TypeOK
  <2>3. [id |-> Charged, left |-> 0] \in Tokens
    BY ChargedTyped DEF Tokens
  <2>4. /\ pc' \in Steps /\ tries' \in 0..MaxRetries
        /\ bearer' \in Tokens \cup {NoToken}
        /\ answer' \in Answers /\ attempts' \in 0..MaxRetries + 2
    BY <1>4, <2>3, ResolveTyped, OverTyped DEF Lookup, Steps
  <2> QED
    BY <1>4, <2>1, <2>2, <2>4, TimeTyped DEF Lookup, Elapse, TypeOK
<1>5. CASE Exchange
  <2> DEFINE token(d) == [id |-> bearer.id, left |-> Life - d]
  <2>1. PICK d \in 0..CallTime :
          /\ \/ /\ Resolve("send", token(d))
                /\ cache' = [AgedCache(d) EXCEPT ![request.repo] = token(d)]
             \/ Over /\ cache' = AgedCache(d)
          /\ known' = Sooner(known, d)
          /\ Elapse(d)
    BY <1>5 DEF Exchange
  <2>2. token(d) \in Tokens
    BY <1>5, ChargedTyped DEF Exchange, Bearing, Tokens
  <2>3. told' \in [Installations -> 0..Limit]
    BY <2>1, StillToldTyped DEF Elapse, TypeOK
  <2> HIDE DEF token
  <2>4. /\ pc' \in Steps /\ tries' \in 0..MaxRetries
        /\ bearer' \in Tokens \cup {NoToken}
        /\ answer' \in Answers /\ attempts' \in 0..MaxRetries + 2
    BY <2>1, <2>2, ResolveTyped, OverTyped DEF Steps
  <2>5. cache' \in [Repos -> Tokens \cup {NoToken}]
    BY <2>1, <2>2, TimeTyped
  <2> QED
    BY <1>5, <2>1, <2>3, <2>4, <2>5, TimeTyped DEF Exchange, Elapse, TypeOK
<1>6. CASE Send
  <2>1. PICK d \in 0..CallTime :
          /\ Serve(d) \/ (answer' \in Failures /\ limits' = SoonerLimits(d))
          /\ told' = StillTold(told, d)
          /\ cache' = AgedCache(d)
          /\ known' = Sooner(known, d)
    BY <1>6 DEF Send
  <2>2. answer' \in Answers /\ limits' \in [Installations -> Limits]
    BY <2>1, ServeTyped, FailuresTyped, TimeTyped
  <2>3. told' \in [Installations -> 0..Limit]
    BY <2>1, StillToldTyped DEF TypeOK
  <2>4. attempts' \in 0..MaxRetries + 2
    BY <1>6 DEF Send, TypeOK
  <2> QED
    BY <1>6, <2>1, <2>2, <2>3, <2>4, TimeTyped DEF Send, TypeOK, Steps
<1>7. CASE Lose
  BY <1>7, FailuresTyped DEF Lose, TypeOK, github
<1>8. CASE Receive
  <2> DEFINE then == IF Stated THEN [told EXCEPT ![Charged] = answer.limit.remaining] ELSE told
  <2>1. PICK d \in 0..CallTime :
          /\ known' = Sooner(Recorded, d)
          /\ cache' = AgedCache(d)
          /\ limits' = SoonerLimits(d)
          /\ told' = StillTold(then, d)
    BY <1>8 DEF Receive
  <2>2. then \in [Installations -> 0..Limit] /\ Recorded \in Limits
    BY DEF TypeOK, Answers, Limits, Recorded
  <2> HIDE DEF then
  <2>3. told' \in [Installations -> 0..Limit] /\ known' \in Limits
    BY <2>1, <2>2, StillToldTyped, SoonerTyped
  <2>4. /\ pc' \in Steps /\ tries' \in 0..MaxRetries
        /\ bearer' \in Tokens \cup {NoToken}
        /\ answer' \in Answers /\ attempts' \in 0..MaxRetries + 2
    <3>1. CASE Retried /\ pc' = "rate" /\ tries' = Counted /\ bearer' = NoToken
               /\ answer' = Pending /\ attempts' = attempts
      BY <3>1, UnknownTyped DEF Retried, Counted, TypeOK, Steps
    <3>2. CASE Over
      BY <3>2, OverTyped
    <3> QED
      BY <1>8, <3>1, <3>2 DEF Receive
  <2>5. cache' \in [Repos -> Tokens \cup {NoToken}] /\ limits' \in [Installations -> Limits]
    BY <2>1, TimeTyped
  <2>6. request' = request
    BY <1>8 DEF Receive
  <2> QED
    BY <2>3, <2>4, <2>5, <2>6 DEF TypeOK
<1>9. CASE Tick
  <2>1. told' \in [Installations -> 0..Limit]
    BY <1>9, StillToldTyped DEF Tick, Elapse, TypeOK
  <2> QED
    BY <1>9, <2>1, TimeTyped DEF Tick, Elapse, TypeOK
<1>10. ASSUME NEW i \in Installations, SpendElsewhere(i) PROVE TypeOK'
  <2>1. Renewed(limits[i]) \in Limits
    BY RenewedTyped DEF TypeOK
  <2>2. limits' \in [Installations -> Limits]
    BY <1>10, <2>1 DEF SpendElsewhere, Limits, TypeOK
  <2> QED
    BY <1>10, <2>2 DEF SpendElsewhere, TypeOK, client
<1>11. CASE UNCHANGED vars
  BY <1>11 DEF TypeOK, vars, client, github
<1> QED
  BY <1>1, <1>2, <1>3, <1>4, <1>5, <1>6, <1>7, <1>8, <1>9, <1>10, <1>11 DEF Next, Step

-----------------------------------------------------------------------------
(* Retries and tokens *)

LEMMA CountingStep == ClientInv /\ [Next]_vars => Counting'
<1> SUFFICES ASSUME ClientInv, [Next]_vars PROVE Counting'
  OBVIOUS
<1> USE DEF ClientInv, Counting
<1>1. CASE Ask
  BY <1>1 DEF Ask
<1>2. CASE Wait
  BY <1>2 DEF Wait
<1>3. CASE Auth
  BY <1>3 DEF Auth, Resolve, Over
<1>4. CASE Lookup
  BY <1>4 DEF Lookup, Resolve, Over
<1>5. CASE Exchange
  BY <1>5 DEF Exchange, Resolve, Over
<1>6. CASE Send
  <2>1. attempts' = tries + 1
    BY <1>6, GitHubClientAssumption DEF Send, TypeOK
  <2> QED
    BY <1>6, <2>1 DEF Send
<1>7. CASE Lose
  BY <1>7 DEF Lose
<1>8. CASE Receive
  <2>1. CASE Over
    BY <1>8, <2>1 DEF Receive, Over
  <2>2. CASE Retried /\ pc' = "rate" /\ tries' = Counted /\ UNCHANGED attempts
    BY <1>8, <2>2 DEF Receive, Retried, Counted
  <2> QED
    BY <1>8, <2>1, <2>2 DEF Receive
<1>9. CASE Tick
  BY <1>9 DEF Tick
<1>10. CASE \E i \in Installations : SpendElsewhere(i)
  BY <1>10 DEF SpendElsewhere, client
<1>11. CASE UNCHANGED vars
  BY <1>11 DEF vars, client
<1> QED
  BY <1>1, <1>2, <1>3, <1>4, <1>5, <1>6, <1>7, <1>8, <1>9, <1>10, <1>11 DEF Next, Step

(* The part of Bearing about the cache.                                    *)
CacheFits(entries) ==
  \A r \in Repos : entries[r] = NoToken \/ entries[r].id = InstallationOf[r]

LEMMA AgedFits ==
  ASSUME Bearing, NEW d \in Nat
  PROVE  CacheFits(AgedCache(d)) /\ AgedCache(d) = [r \in Repos |-> Aged(cache[r], d)]
  BY NoTokenAges DEF Bearing, CacheFits, AgedCache, Aged

(* GitHub finds a token expired only if it ran out on the way.             *)
LEMMA ServedFresh ==
  ASSUME ClientInv, pc = "send", NEW d \in 0..CallTime, Serve(d)
  PROVE  answer'.status # "expired"
<1>1. App => Later(bearer.left, d) > 0
  <2> SUFFICES ASSUME App PROVE Later(bearer.left, d) > 0
    OBVIOUS
  <2>1. bearer.left \in Nat /\ bearer.left > CallTime
    BY DEF ClientInv, TypeOK, Bearing, Tokens, NoToken
  <2> QED
    BY <2>1, GitHubClientAssumption DEF Later
<1>2. ASSUME NEW status, NEW limit, status # "expired", Reply(d, status, limit)
      PROVE  answer'.status # "expired"
  BY <1>2 DEF Reply
<1> QED
  BY <1>1, <1>2 DEF Serve

LEMMA BearingStep == ClientInv /\ [Next]_vars => Bearing'
<1> SUFFICES ASSUME ClientInv, [Next]_vars PROVE Bearing'
  OBVIOUS
<1> USE DEF ClientInv, Charged
<1>1. CASE Ask
  BY <1>1 DEF Ask, Bearing
<1>2. CASE Wait
  <2>1. CacheFits(cache')
    BY <1>2, SleepTyped, AgedFits DEF Wait
  <2> QED
    BY <1>2, <2>1 DEF Wait, Bearing, CacheFits
<1>3. CASE Auth
  <2>1. Cached = NoToken \/ Cached.id = Charged
    BY ChargedTyped DEF Cached, Bearing
  <2>2. Cached # NoToken /\ ~NeedsRefresh(Cached) => Cached.left > CallTime
    <3>1. Cached.left \in Nat
      BY ChargedTyped DEF Cached, TypeOK, Tokens, NoToken
    <3> QED
      BY <3>1, GitHubClientAssumption DEF NeedsRefresh
  <2>3. UNCHANGED <<cache, request>>
    BY <1>3 DEF Auth
  <2>4. CASE Over
    BY <2>3, <2>4 DEF Over, Bearing, Pending
  <2>5. CASE ~App /\ Resolve("send", NoToken)
    BY <2>3, <2>5 DEF Resolve, Bearing
  <2>6. CASE Cached # NoToken /\ ~NeedsRefresh(Cached) /\ Resolve("send", Cached)
    BY <2>1, <2>2, <2>3, <2>6 DEF Resolve, Bearing
  <2>7. CASE Cached # NoToken /\ Resolve("exchange", Cached)
    BY <2>1, <2>3, <2>7 DEF Resolve, Bearing
  <2>8. CASE Resolve("lookup", NoToken)
    BY <2>3, <2>8 DEF Resolve, Bearing
  <2> QED
    BY <1>3, <2>4, <2>5, <2>6, <2>7, <2>8 DEF Auth
<1>4. CASE Lookup
  <2>1. CacheFits(cache')
    BY <1>4, AgedFits, GitHubClientAssumption DEF Lookup
  <2>2. CASE Over
    BY <1>4, <2>1, <2>2 DEF Lookup, Over, Bearing, Pending, CacheFits
  <2>3. CASE Resolve("exchange", [id |-> Charged, left |-> 0])
    BY <1>4, <2>1, <2>3 DEF Lookup, Resolve, Bearing, CacheFits
  <2> QED
    BY <1>4, <2>2, <2>3 DEF Lookup
<1>5. CASE Exchange
  <2> DEFINE token(d) == [id |-> bearer.id, left |-> Life - d]
  <2>1. PICK d \in 0..CallTime :
          \/ /\ Resolve("send", token(d))
             /\ cache' = [AgedCache(d) EXCEPT ![request.repo] = token(d)]
          \/ Over /\ cache' = AgedCache(d)
    BY <1>5 DEF Exchange
  <2>2. token(d).id = Charged /\ token(d).left > CallTime
    BY <1>5, GitHubClientAssumption DEF Exchange, Bearing
  <2>3. CacheFits(AgedCache(d)) /\ request' = request
    BY <1>5, AgedFits, GitHubClientAssumption DEF Exchange
  <2> HIDE DEF token
  <2>4. CASE Resolve("send", token(d)) /\ cache' = [AgedCache(d) EXCEPT ![request.repo] = token(d)]
    <3>1. CacheFits(cache')
      BY <2>2, <2>3, <2>4 DEF CacheFits, AgedCache
    <3> QED
      BY <2>2, <2>3, <2>4, <3>1 DEF Resolve, Bearing, CacheFits
  <2>5. CASE Over /\ cache' = AgedCache(d)
    BY <2>3, <2>5 DEF Over, Bearing, Pending, CacheFits
  <2> QED
    BY <2>1, <2>4, <2>5
<1>6. CASE Send
  <2>1. PICK d \in 0..CallTime :
          /\ Serve(d) \/ answer' \in Failures
          /\ cache' = AgedCache(d)
    BY <1>6 DEF Send
  <2>2. answer'.status # "expired"
    <3>1. CASE Serve(d)
      BY <1>6, <3>1, ServedFresh DEF Send
    <3>2. CASE answer' \in Failures
      BY <3>2 DEF Failures, Failed
    <3> QED
      BY <2>1, <3>1, <3>2
  <2>3. CacheFits(cache')
    BY <2>1, AgedFits, GitHubClientAssumption
  <2> QED
    BY <1>6, <2>2, <2>3 DEF Send, Bearing, CacheFits
<1>7. CASE Lose
  BY <1>7 DEF Lose, Bearing, Failures, Failed
<1>8. CASE Receive
  <2>1. CacheFits(cache')
    BY <1>8, AgedFits, GitHubClientAssumption DEF Receive
  <2>2. pc' \in {"rate", "idle"} /\ answer' = Pending
    BY <1>8 DEF Receive, Over
  <2> QED
    BY <2>1, <2>2 DEF Bearing, CacheFits, Pending
<1>9. CASE Tick
  <2>1. CacheFits(cache')
    BY <1>9, AgedFits DEF Tick
  <2> QED
    BY <1>9, <2>1 DEF Tick, Bearing, CacheFits
<1>10. CASE \E i \in Installations : SpendElsewhere(i)
  BY <1>10 DEF SpendElsewhere, client, Bearing
<1>11. CASE UNCHANGED vars
  BY <1>11 DEF vars, client, Bearing
<1> QED
  BY <1>1, <1>2, <1>3, <1>4, <1>5, <1>6, <1>7, <1>8, <1>9, <1>10, <1>11 DEF Next, Step

-----------------------------------------------------------------------------
(* The limit *)

(* Time does not make a limit low, or the last told low limit another.     *)
LEMMA LowWhenLater ==
  ASSUME TypeOK, LowIsLast, NEW d \in Nat, NEW i \in Installations,
         limits' = SoonerLimits(d), told' = StillTold(told, d), told'[i] <= Buffer
  PROVE  /\ told[i] <= Buffer /\ told'[i] = told[i]
         /\ limits[i].reset > d /\ limits'[i].reset > 0
         /\ Sooner(known, d) = [remaining |-> told'[i], reset |-> limits'[i].reset]
<1>1. limits[i] \in Limits /\ told[i] \in 0..Limit
  BY DEF TypeOK
<1>2. limits[i].reset > d /\ told'[i] = told[i]
  BY <1>1, GitHubClientAssumption DEF StillTold, Limits
<1>3. limits'[i].reset = Later(limits[i].reset, d) /\ limits'[i].reset > 0
  BY <1>1, <1>2 DEF SoonerLimits, Sooner, Limits, Later
<1>4. known = [remaining |-> told[i], reset |-> limits[i].reset]
  BY <1>2 DEF LowIsLast
<1> QED
  BY <1>2, <1>3, <1>4 DEF Sooner

LEMMA LowStep == ClientInv /\ [Next]_vars => LowIsLast'
<1> SUFFICES ASSUME ClientInv, [Next]_vars,
                    NEW i \in Installations, told'[i] <= Buffer
             PROVE  /\ pc' \in {"idle", "rate"}
                    /\ limits'[i].reset > 0
                    /\ known' = [remaining |-> told'[i], reset |-> limits'[i].reset]
  BY DEF LowIsLast
<1> USE DEF ClientInv
<1>1. CASE Ask
  BY <1>1 DEF Ask, github, LowIsLast
<1>2. CASE Wait
  <2>1. limits[i].reset > SleepDuration /\ told[i] <= Buffer
    BY <1>2, SleepTyped, LowWhenLater DEF Wait, Elapse
  <2>2. known = [remaining |-> told[i], reset |-> limits[i].reset] /\ limits[i].reset > 0
    BY <2>1 DEF LowIsLast
  <2>3. SleepDuration = limits[i].reset + 1
    BY <2>1, <2>2 DEF SleepDuration
  <2>4. limits[i].reset \in Nat
    BY DEF TypeOK, Limits
  <2> QED
    BY <2>1, <2>3, <2>4
<1>3. CASE Auth
  BY <1>3 DEF Auth, github, LowIsLast
<1>4. CASE Lookup
  <2>1. PICK d \in 0..CallTime : Elapse(d)
    BY <1>4 DEF Lookup
  <2>2. told[i] <= Buffer
    BY <2>1, LowWhenLater, GitHubClientAssumption DEF Elapse
  <2> QED
    BY <1>4, <2>2 DEF Lookup, LowIsLast
<1>5. CASE Exchange
  <2>1. PICK d \in 0..CallTime : Elapse(d)
    BY <1>5 DEF Exchange
  <2>2. told[i] <= Buffer
    BY <2>1, LowWhenLater, GitHubClientAssumption DEF Elapse
  <2> QED
    BY <1>5, <2>2 DEF Exchange, LowIsLast
<1>6. CASE Send
  <2>1. PICK d \in 0..CallTime : told' = StillTold(told, d)
    BY <1>6 DEF Send
  <2>2. told[i] \in 0..Limit /\ (told'[i] = Limit \/ told'[i] = told[i])
    BY <2>1 DEF StillTold, TypeOK
  <2>3. told[i] <= Buffer
    BY <2>2, GitHubClientAssumption
  <2> QED
    BY <1>6, <2>3 DEF Send, LowIsLast
<1>7. CASE Lose
  BY <1>7 DEF Lose, github, LowIsLast
<1>8. CASE Receive
  <2> DEFINE then == IF Stated THEN [told EXCEPT ![Charged] = answer.limit.remaining] ELSE told
  <2>1. PICK d \in 0..CallTime :
          /\ known' = Sooner(Recorded, d)
          /\ limits' = SoonerLimits(d)
          /\ told' = StillTold(then, d)
    BY <1>8 DEF Receive
  <2>2. told[i] > Buffer /\ told[i] \in 0..Limit /\ limits[i] \in Limits /\ Buffer < Limit
    BY <1>8, GitHubClientAssumption DEF Receive, LowIsLast, TypeOK
  <2>3. limits[i].reset > d /\ told'[i] = then[i]
    BY <2>1, <2>2, GitHubClientAssumption DEF StillTold, Limits
  <2>4. Stated /\ i = Charged /\ then[i] = answer.limit.remaining
    <3>1. then[i] # told[i]
      BY <2>2, <2>3, GitHubClientAssumption
    <3> QED
      BY <3>1 DEF TypeOK
  <2> HIDE DEF then
  <2>5. limits'[i].reset = Later(limits[i].reset, d) /\ limits'[i].reset > 0
    BY <2>1, <2>2, <2>3 DEF SoonerLimits, Sooner, Limits, Later
  <2>6. known' = [remaining |-> then[i], reset |-> Later(limits[i].reset, d)]
    BY <2>1, <2>4 DEF Recorded, Sooner, Answering
  <2>7. pc' \in {"idle", "rate"}
    BY <1>8 DEF Receive, Over
  <2> QED
    BY <2>3, <2>5, <2>6, <2>7
<1>9. CASE Tick
  <2>1. told[i] <= Buffer
    BY <1>9, LowWhenLater DEF Tick, Elapse
  <2> QED
    BY <1>9, <2>1, LowWhenLater DEF Tick, Elapse, LowIsLast
<1>10. ASSUME NEW j \in Installations, SpendElsewhere(j) PROVE LowIsLast'
  <2>1. UNCHANGED <<pc, known, told>>
    BY <1>10 DEF SpendElsewhere, client
  <2>2. told[i] <= Buffer /\ limits[i].reset > 0
    BY <2>1 DEF LowIsLast
  <2> QED
    BY <1>10 DEF SpendElsewhere, client, LowIsLast, Renewed, TypeOK
<1>11. CASE UNCHANGED vars
  BY <1>11 DEF vars, client, github, LowIsLast
<1> QED
  BY <1>1, <1>2, <1>3, <1>4, <1>5, <1>6, <1>7, <1>8, <1>9, <1>10, <1>11
     DEF Next, Step, LowIsLast

LEMMA ServedAnswering ==
  ASSUME TypeOK, NEW d \in Nat, Serve(d), answer'.limit # Unknown
  PROVE  answer'.limit.reset > 0 /\ answer'.limit.reset = limits'[Charged].reset
<1> DEFINE limit == Renewed(Sooner(limits[Charged], d))
           spent == [remaining |-> limit.remaining - 1, reset |-> limit.reset]
<1>1. limit.reset > 0
  BY ChargedTyped, SoonerTyped, RenewedTyped DEF TypeOK
<1>2. ASSUME NEW status, NEW l, l.reset > 0, Reply(d, status, l)
      PROVE  answer'.limit.reset > 0 /\ answer'.limit.reset = limits'[Charged].reset
  BY <1>2, ChargedTyped, TimeTyped DEF Reply
<1>3. CASE \E status : Reply(d, status, limit)
  <2> HIDE DEF limit
  <2> QED
    BY <1>1, <1>2, <1>3
<1>4. CASE \E status : Reply(d, status, spent)
  <2>1. spent.reset > 0
    BY <1>1
  <2> HIDE DEF spent
  <2> QED
    BY <1>2, <1>4, <2>1
<1> QED
  BY <1>3, <1>4 DEF Serve

LEMMA AnsweringStep == ClientInv /\ [Next]_vars => Answering'
<1> SUFFICES ASSUME ClientInv, [Next]_vars PROVE Answering'
  OBVIOUS
<1> USE DEF ClientInv
<1>1. CASE answer' = Pending
  BY <1>1 DEF Answering, Stated, Pending
<1>2. CASE Send
  <2>1. PICK d \in 0..CallTime : Serve(d) \/ answer' \in Failures
    BY <1>2 DEF Send
  <2>2. Charged' = Charged /\ pc' = "back"
    BY <1>2 DEF Send, Charged
  <2>3. CASE Serve(d)
    BY <2>2, <2>3, ServedAnswering, GitHubClientAssumption DEF Answering, Stated
  <2>4. CASE answer' \in Failures
    BY <2>2, <2>4 DEF Failures, Failed, Answering, Stated
  <2> QED
    BY <2>1, <2>3, <2>4
<1>3. CASE Lose
  BY <1>3 DEF Lose, Failures, Failed, Answering, Stated
<1>4. ASSUME NEW j \in Installations, SpendElsewhere(j) PROVE Answering'
  BY <1>4, ChargedTyped DEF SpendElsewhere, client, Answering, Stated, Charged, Renewed, TypeOK
<1>5. CASE UNCHANGED vars
  BY <1>5 DEF vars, client, github, Answering, Stated, Charged
<1>6. CASE Ask \/ Wait \/ Auth \/ Lookup \/ Exchange \/ Receive \/ Tick
  BY <1>1, <1>6 DEF Answering, Ask, Wait, Auth, Lookup, Exchange, Receive, Tick, Resolve, Over
<1> QED
  BY <1>2, <1>3, <1>4, <1>5, <1>6 DEF Next, Step

-----------------------------------------------------------------------------
(* What the client knows *)

(* The limit known is that of i, as GitHub told it.                        *)
KnownOf(i) == known.reset = limits[i].reset /\ known.remaining = told[i]

(* Time takes as much from what is known as from the window it is of.      *)
LEMMA KnownLater ==
  ASSUME TypeOK, NEW i \in Installations, NEW d \in Nat,
         NEW state \in Limits, state.reset = limits[i].reset,
         NEW n \in [Installations -> 0..Limit], state.remaining = n[i],
         Sooner(state, d).reset > 0
  PROVE  /\ Sooner(state, d).reset = SoonerLimits(d)[i].reset
         /\ Sooner(state, d).remaining = StillTold(n, d)[i]
         /\ limits[i].reset > d
<1>1. limits[i] \in Limits
  BY DEF TypeOK
<1>2. limits[i].reset > d
  BY <1>1 DEF Sooner, Later, Limits
<1>3. ~(limits[i].reset <= d)
  BY <1>1, <1>2 DEF Limits
<1>4. StillTold(n, d)[i] = n[i]
  BY <1>3 DEF StillTold
<1>5. SoonerLimits(d)[i] = Sooner(limits[i], d)
  BY DEF SoonerLimits
<1> QED
  BY <1>2, <1>4, <1>5 DEF Sooner

(* A window that is not over is not renewed when GitHub is asked.          *)
LEMMA ServeLeavesReset ==
  ASSUME TypeOK, NEW i \in Installations, NEW d \in Nat, limits[i].reset > d, Serve(d)
  PROVE  limits'[i].reset = SoonerLimits(d)[i].reset
<1>1. limits[i] \in Limits /\ Charged \in Installations
  BY ChargedTyped DEF TypeOK
<1>2. SoonerLimits(d)[i] = Sooner(limits[i], d) /\ Sooner(limits[i], d).reset > 0
  BY <1>1 DEF SoonerLimits, Sooner, Later, Limits
<1>3. CASE i = Charged
  BY <1>1, <1>2, <1>3, TimeTyped DEF Serve, Reply, Renewed
<1>4. CASE i # Charged
  BY <1>1, <1>2, <1>4, TimeTyped DEF Serve, Reply
<1> QED
  BY <1>3, <1>4

LEMMA KnownStep == ClientInv /\ KnownIsTold /\ [Next]_vars => KnownIsTold'
<1> SUFFICES ASSUME ClientInv, KnownIsTold, [Next]_vars, known'.reset > 0
             PROVE  \E i \in Installations : KnownOf(i)'
  BY DEF KnownIsTold, KnownOf
<1> USE DEF ClientInv
<1>1. ASSUME NEW d \in Nat, known' = Sooner(known, d), told' = StillTold(told, d),
             limits' = SoonerLimits(d) \/ Serve(d)
      PROVE  \E i \in Installations : KnownOf(i)'
  <2>1. known.reset > 0 /\ known \in Limits
    BY <1>1 DEF Sooner, Later, TypeOK, Limits
  <2>2. PICK i \in Installations : KnownOf(i)
    BY <2>1 DEF KnownIsTold, KnownOf
  <2>3. /\ known'.reset = SoonerLimits(d)[i].reset /\ known'.remaining = told'[i]
        /\ limits[i].reset > d
    BY <1>1, <2>1, <2>2, KnownLater DEF KnownOf, TypeOK
  <2>4. limits'[i].reset = SoonerLimits(d)[i].reset
    BY <1>1, <2>3, ServeLeavesReset
  <2> QED
    BY <2>3, <2>4 DEF KnownOf
<1>2. CASE Receive
  <2>1. PICK d \in 0..CallTime :
          /\ known' = Sooner(Recorded, d)
          /\ limits' = SoonerLimits(d)
          /\ told' = StillTold(IF Stated
                                THEN [told EXCEPT ![Charged] = answer.limit.remaining]
                                ELSE told, d)
    BY <1>2 DEF Receive
  <2>2. CASE Stated
    <3> DEFINE n == [told EXCEPT ![Charged] = answer.limit.remaining]
    <3>1. answer.limit \in Limits /\ Charged \in Installations /\ d \in Nat
      BY ChargedTyped, GitHubClientAssumption DEF TypeOK, Answers
    <3>2. n \in [Installations -> 0..Limit] /\ n[Charged] = answer.limit.remaining
      BY <3>1 DEF TypeOK, Limits
    <3>3. answer.limit.reset = limits[Charged].reset
      BY <2>2 DEF Answering
    <3>4. known' = Sooner(answer.limit, d) /\ told' = StillTold(n, d)
      BY <2>1, <2>2 DEF Recorded
    <3> HIDE DEF n
    <3>5. known'.reset = limits'[Charged].reset /\ known'.remaining = told'[Charged]
      BY <2>1, <3>1, <3>2, <3>3, <3>4, KnownLater
    <3> QED
      BY <3>1, <3>5 DEF KnownOf
  <2>3. CASE ~Stated
    BY <1>1, <2>1, <2>3, GitHubClientAssumption DEF Recorded
  <2> QED
    BY <2>2, <2>3
<1>3. CASE Wait
  BY <1>1, <1>3, SleepTyped DEF Wait, Elapse
<1>4. CASE Lookup \/ Exchange
  <2>1. PICK d \in 0..CallTime : known' = Sooner(known, d) /\ Elapse(d)
    BY <1>4 DEF Lookup, Exchange
  <2> QED
    BY <1>1, <2>1, GitHubClientAssumption DEF Elapse
<1>5. CASE Send
  <2>1. PICK d \in 0..CallTime :
          /\ Serve(d) \/ limits' = SoonerLimits(d)
          /\ told' = StillTold(told, d) /\ known' = Sooner(known, d)
    BY <1>5 DEF Send
  <2> QED
    BY <1>1, <2>1, GitHubClientAssumption
<1>6. CASE Tick
  BY <1>1, <1>6 DEF Tick, Elapse
<1>7. ASSUME NEW j \in Installations, SpendElsewhere(j)
      PROVE  \E i \in Installations : KnownOf(i)'
  <2>1. PICK i \in Installations : KnownOf(i)
    BY <1>7 DEF KnownIsTold, KnownOf, SpendElsewhere, client
  <2>2. limits'[i].reset = limits[i].reset
    BY <1>7, <2>1 DEF SpendElsewhere, client, Renewed, KnownOf, TypeOK
  <2> QED
    BY <1>7, <2>1, <2>2 DEF SpendElsewhere, client, KnownOf
<1>8. CASE UNCHANGED <<known, limits, told>>
  BY <1>8 DEF KnownIsTold, KnownOf
<1>9. CASE Ask \/ Auth \/ Lose \/ UNCHANGED vars
  BY <1>8, <1>9 DEF Ask, Auth, Lose, vars, client, github
<1> QED
  BY <1>2, <1>3, <1>4, <1>5, <1>6, <1>7, <1>9 DEF Next, Step

-----------------------------------------------------------------------------
(* Theorems *)

THEOREM Invariance == Spec => []ClientInv
<1>1. ClientInv /\ [Next]_vars => ClientInv'
  BY TypeStep, CountingStep, BearingStep, LowStep, AnsweringStep DEF ClientInv
<1> QED
  BY <1>1, ClientInit, PTL DEF Spec

(* Every variable stays in its type.                                       *)
THEOREM ClientTypes == Spec => []TypeOK
<1>1. ClientInv => TypeOK
  BY DEF ClientInv
<1> QED
  BY <1>1, Invariance, PTL

(* GitHub turns no request away for a limit it had told the client was     *)
(* nearly used up, however many installations share the client.            *)
THEOREM NeverRefusedKnowingly == Spec => []RefusedOnlyUnawares
<1>1. ClientInv => RefusedOnlyUnawares
  <2> SUFFICES ASSUME ClientInv, answer.status = "limited" PROVE told[Charged] > Buffer
    BY DEF RefusedOnlyUnawares
  <2>1. pc = "back"
    BY DEF ClientInv, Answering, Pending
  <2>2. told[Charged] \in 0..Limit /\ ~(told[Charged] <= Buffer)
    BY <2>1, ChargedTyped DEF ClientInv, LowIsLast, TypeOK
  <2> QED
    BY <2>2, GitHubClientAssumption
<1> QED
  BY <1>1, Invariance, PTL

(* No request arrives with an expired token.                               *)
THEOREM TokensNeverExpire == Spec => []TokensFresh
<1>1. ClientInv => TokensFresh
  BY DEF ClientInv, Bearing, TokensFresh
<1> QED
  BY <1>1, Invariance, PTL

(* Every request carries the token of its repository's installation.       *)
THEOREM BearersFit == Spec => []BearerFits
<1>1. ClientInv => BearerFits
  BY DEF ClientInv, Bearing, BearerFits
<1> QED
  BY <1>1, Invariance, PTL

(* No mutation is sent twice, and no read more than MaxRetries + 1 times.  *)
THEOREM AttemptsBounded == Spec => []SentAtMost
<1>1. ClientInv => SentAtMost
  BY GitHubClientAssumption DEF ClientInv, Counting, TypeOK, SentAtMost, Steps
<1> QED
  BY <1>1, Invariance, PTL

(* The limit a client takes to be in force is one that GitHub told it, of  *)
(* an installation whose window ends when the client thinks it does.       *)
THEOREM KnownWasTold == Spec => []KnownIsTold
<1>1. Init => KnownIsTold
  BY DEF Init, KnownIsTold, Unknown
<1> QED
  BY <1>1, KnownStep, Invariance, PTL DEF Spec

=============================================================================
