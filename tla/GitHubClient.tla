---------------------------- MODULE GitHubClient ----------------------------
(***************************************************************************)
(* One GitHubClient: the requests a run makes, one at a time, and what the *)
(* client keeps between them, the rate limit it was last told of and, when *)
(* it runs as a GitHub App, a token for each repository.  Every time in    *)
(* this module is how long from now it is, so that the clock needs no      *)
(* bound.                                                                  *)
(***************************************************************************)
EXTENDS Naturals

CONSTANTS
  Repos, Installations,
  InstallationOf,   (* GitHub: the installation that covers a repository   *)
  App,              (* credentials of an App, or one personal token?       *)
  Buffer,           (* RATE_LIMIT_BUFFER                                   *)
  MaxRetries,       (* MAX_RETRIES                                         *)
  Margin,           (* INSTALLATION_TOKEN_RENEW_MARGIN_SECONDS             *)
  CallTime,         (* how long a call can be on its way to GitHub, or     *)
                    (* back, before timeout_global ends it                 *)
  Life,             (* GitHub: how long a token is accepted                *)
  Limit, Window,    (* GitHub: how many requests, in how long              *)
  Elsewhere         (* does anything else spend the same limit?            *)

ASSUME GitHubClientAssumption ==
  /\ InstallationOf \in [Repos -> Installations]
  /\ App \in BOOLEAN /\ Elsewhere \in BOOLEAN
  /\ Buffer \in Nat /\ MaxRetries \in Nat /\ CallTime \in Nat /\ Margin \in Nat
  /\ Life \in Nat /\ Limit \in Nat /\ Window \in Nat
  /\ CallTime <= Margin /\ 2 * CallTime < Life
  /\ Buffer < Limit /\ Window > 0

VARIABLES
  cache,    (* installations: for each repository, id and token            *)
  known,    (* rate_limit: what the last headers said                      *)
  pc, request, tries,  (* the request in hand, and its retries             *)
  bearer,   (* the token it is sent with                                   *)
  answer,   (* what became of it at GitHub                                 *)
  attempts, (* how often GitHub has been sent it, counted so far as to    *)
            (* tell once too often                                         *)
  limits,   (* GitHub: for each installation, the requests left, and the   *)
            (* time to the next window                                     *)
  told      (* the least requests left that GitHub has told the client of  *)
            (* last, in this window                                        *)

client == <<cache, known, pc, request, tries, bearer, answer, attempts>>
github == <<limits, told>>
vars   == <<client, github>>

NoToken  == [id |-> "none", left |-> 0]
Unknown  == [remaining |-> Limit, reset |-> 0]    (* `None`, or no headers *)
Pending  == [status |-> "pending", limit |-> Unknown]
Tokens   == [id : Installations, left : 0..Life]
Limits   == [remaining : 0..Limit, reset : 0..Window]
Requests == [repo : Repos, method : {"GET", "mutation"}]
Statuses == {"pending", "ok", "server_error", "other_error", "limited", "expired",
             "transient", "broken"}
Answers  == [status : Statuses, limit : Limits]
Steps    == {"idle", "rate", "auth", "lookup", "exchange", "send", "back"}

TypeOK ==
  /\ cache \in [Repos -> Tokens \cup {NoToken}]
  /\ known \in Limits
  /\ pc \in Steps
  /\ request \in Requests
  /\ tries \in 0..MaxRetries
  /\ bearer \in Tokens \cup {NoToken}
  /\ answer \in Answers
  /\ attempts \in 0..MaxRetries + 2
  /\ limits \in [Installations -> Limits]
  /\ told \in [Installations -> 0..Limit]

Init ==
  /\ cache = [r \in Repos |-> NoToken]
  /\ known = Unknown
  /\ pc = "idle"
  /\ request \in Requests
  /\ tries = 0 /\ attempts = 0
  /\ bearer = NoToken
  /\ answer = Pending
  /\ limits \in [Installations -> Limits]
  /\ told = [i \in Installations |-> Limit]

-----------------------------------------------------------------------------
(* Time passes: everything due gets closer by d.                           *)
Later(x, d) == IF x > d THEN x - d ELSE 0

Aged(token, d)  == [id |-> token.id, left |-> Later(token.left, d)]
Sooner(limit, d) == [remaining |-> limit.remaining, reset |-> Later(limit.reset, d)]
AgedCache(d)    == [r \in Repos |-> Aged(cache[r], d)]
SoonerLimits(d) == [i \in Installations |-> Sooner(limits[i], d)]

(* GitHub starts a new window when it is asked after the end of the old.   *)
Renewed(limit) == IF limit.reset = 0
                  THEN [remaining |-> Limit, reset |-> Window]
                  ELSE limit

(* The requests left that a client could know of, when the window is over. *)
StillTold(n, d) ==
  [i \in Installations |-> IF limits[i].reset <= d THEN Limit ELSE n[i]]

(* Mutant: the last request of the buffer is sent.                         *)
SleepDurationTooBold ==
  IF known.remaining < Buffer /\ known.reset > 0 THEN known.reset + 1 ELSE 0

(* RateLimitState::sleep_duration: 0 is `None`.                            *)
SleepDuration ==
  IF known.remaining <= Buffer /\ known.reset > 0 THEN known.reset + 1 ELSE 0

(* Mutant: a token is used until it has expired.                           *)
NeedsRefreshOnceExpired(token) == token.left = 0

(* InstallationToken::needs_refresh                                        *)
NeedsRefresh(token) == token.left <= Margin

(* The installation a request is charged to.                               *)
Charged == InstallationOf[request.repo]

(* Mutant: one cached token serves every repository.                       *)
CachedForAny == IF \E r \in Repos : cache[r] # NoToken
                THEN cache[CHOOSE r \in Repos : cache[r] # NoToken]
                ELSE NoToken

(* What `resolve_bearer` finds for the repository.                         *)
Cached == cache[request.repo]

(* Mutant: mutations are retried as reads are.                             *)
RetriedMutation ==
  tries < MaxRetries /\ answer.status \in {"server_error", "transient"}

(* Mutant: the number of retries is not looked at.                         *)
RetriedForEver ==
  request.method = "GET" /\ answer.status \in {"server_error", "transient"}

(* retry_delay and is_retryable_transport_error, for what send_get asks;   *)
(* mutations never ask.                                                    *)
Retried ==
  /\ request.method = "GET"
  /\ tries < MaxRetries
  /\ answer.status \in {"server_error", "transient"}

(* d goes by at GitHub; the client's token cache and limit go with it.     *)
Elapse(d) ==
  /\ limits' = SoonerLimits(d)
  /\ told' = StillTold(told, d)

(* The request is over: its caller has the response, or an error.          *)
Over ==
  /\ pc' = "idle"
  /\ tries' = 0 /\ attempts' = 0
  /\ bearer' = NoToken
  /\ answer' = Pending

-----------------------------------------------------------------------------
(* A request, from send_get or send_mutation.                              *)
Ask ==
  /\ pc = "idle"
  /\ pc' = "rate"
  /\ request' \in Requests
  /\ UNCHANGED <<cache, known, tries, bearer, answer, attempts, github>>

(* sleep_for_rate_limit_if_needed                                          *)
Wait ==
  /\ pc = "rate"
  /\ pc' = "auth"
  /\ cache' = AgedCache(SleepDuration)
  /\ known' = Sooner(known, SleepDuration)
  /\ Elapse(SleepDuration)
  /\ UNCHANGED <<request, tries, bearer, answer, attempts>>

(* auth_header: a personal token, the cached token, or a new one.  Minting *)
(* the JWT for a new one may fail.                                         *)
Resolve(to, token) ==
  /\ pc' = to
  /\ bearer' = token
  /\ UNCHANGED <<tries, answer, attempts>>

Auth ==
  /\ pc = "auth"
  /\ \/ ~App /\ Resolve("send", NoToken)
     \/ App /\ Cached # NoToken /\ ~NeedsRefresh(Cached) /\ Resolve("send", Cached)
     \/ App /\ Cached # NoToken /\ NeedsRefresh(Cached) /\ Resolve("exchange", Cached)
     \/ App /\ Cached = NoToken /\ Resolve("lookup", NoToken)
     \/ App /\ (Cached = NoToken \/ NeedsRefresh(Cached)) /\ Over
  /\ UNCHANGED <<cache, known, request, github>>

(* lookup_installation_id                                                  *)
Lookup ==
  /\ pc = "lookup"
  /\ \E d \in 0..CallTime :
       /\ cache' = AgedCache(d)
       /\ known' = Sooner(known, d)
       /\ Elapse(d)
  /\ \/ Resolve("exchange", [id |-> Charged, left |-> 0])
     \/ Over
  /\ UNCHANGED request

(* fetch_installation_token; only its success changes the cache.           *)
Exchange ==
  /\ pc = "exchange"
  /\ \E d \in 0..CallTime :
       /\ \/ LET token == [id |-> bearer.id, left |-> Life - d] IN
               /\ Resolve("send", token)
               /\ cache' = [AgedCache(d) EXCEPT ![request.repo] = token]
          \/ Over /\ cache' = AgedCache(d)
       /\ known' = Sooner(known, d)
       /\ Elapse(d)
  /\ UNCHANGED request

-----------------------------------------------------------------------------
(* call_once, call_patch_once and the other calls: the request reaches     *)
(* GitHub after d, or fails on its way there.                              *)
Reply(d, status, limit) ==
  /\ answer' \in [status : {status}, limit : {limit, Unknown}]
  /\ limits' = [SoonerLimits(d) EXCEPT ![Charged] = limit]

(* GitHub: an expired token, a limit used up, or an answer that costs one  *)
(* request of the limit.                                                   *)
Serve(d) ==
  LET limit == Renewed(Sooner(limits[Charged], d))
      spent == [remaining |-> limit.remaining - 1, reset |-> limit.reset]
      fresh == App => Later(bearer.left, d) > 0
  IN \/ ~fresh /\ Reply(d, "expired", limit)
     \/ fresh /\ limit.remaining = 0 /\ Reply(d, "limited", limit)
     \/ /\ fresh /\ limit.remaining > 0
        /\ \E status \in {"ok", "server_error", "other_error"} : Reply(d, status, spent)

(* A transport error, that is_retryable_transport_error names or not.      *)
Failed(status) == [status |-> status, limit |-> Unknown]
Failures       == {Failed("transient"), Failed("broken")}

Send ==
  /\ pc = "send"
  /\ pc' = "back"
  /\ attempts' = IF attempts > MaxRetries + 1 THEN attempts ELSE attempts + 1
  /\ \E d \in 0..CallTime :
       /\ Serve(d) \/ (answer' \in Failures /\ limits' = SoonerLimits(d))
       /\ told' = StillTold(told, d)
       /\ cache' = AgedCache(d)
       /\ known' = Sooner(known, d)
  /\ UNCHANGED <<request, tries, bearer>>

(* GitHub has answered and the answer does not arrive.                     *)
Lose ==
  /\ pc = "back"
  /\ answer \notin Failures
  /\ answer' \in Failures
  /\ UNCHANGED <<cache, known, pc, request, tries, bearer, attempts, github>>

(* update_rate_limit and parse_rate_limit_headers: both headers or neither *)
Stated == answer.limit # Unknown

Recorded == IF Stated THEN answer.limit ELSE known

(* Mutant: a retry is not counted.                                         *)
Uncounted == tries

Counted == tries + 1

(* send_get's loop, or the end of a mutation.  A backoff is shorter than   *)
(* the unit of time here: Tick may add one.                                *)
Receive ==
  /\ pc = "back"
  /\ \E d \in 0..CallTime :
       /\ known' = Sooner(Recorded, d)
       /\ cache' = AgedCache(d)
       /\ limits' = SoonerLimits(d)
       /\ told' = StillTold(IF Stated
                             THEN [told EXCEPT ![Charged] = answer.limit.remaining]
                             ELSE told, d)
  /\ \/ /\ Retried
        /\ pc' = "rate"
        /\ tries' = Counted
        /\ bearer' = NoToken /\ answer' = Pending
        /\ UNCHANGED attempts
     \/ ~Retried /\ Over
  /\ UNCHANGED request

-----------------------------------------------------------------------------
(* Time also passes between requests, in a backoff and while a sleep takes *)
(* longer than it was asked to.                                            *)
Tick ==
  /\ pc \in {"idle", "rate", "auth"}
  /\ cache' = AgedCache(1)
  /\ known' = Sooner(known, 1)
  /\ Elapse(1)
  /\ UNCHANGED <<pc, request, tries, bearer, answer, attempts>>

(* Another program spends requests of the same limit.                      *)
SpendElsewhere(i) ==
  /\ Elsewhere
  /\ LET limit == Renewed(limits[i]) IN
       /\ limit.remaining > 0
       /\ limits' = [limits EXCEPT ![i] =
                       [remaining |-> limit.remaining - 1, reset |-> limit.reset]]
  /\ UNCHANGED <<client, told>>

Step == Wait \/ Auth \/ Lookup \/ Exchange \/ Send \/ Receive

Next == Ask \/ Step \/ Lose \/ Tick \/ \E i \in Installations : SpendElsewhere(i)

Spec     == Init /\ [][Next]_vars
LiveSpec == Spec /\ WF_vars(Step)

-----------------------------------------------------------------------------
(* `sleep when near the limit`: GitHub turns a request away for its limit  *)
(* only if it never told the client, in this window, that no more than     *)
(* Buffer requests were left.  Answers that were lost, answers without     *)
(* headers and requests of other programs are what the client cannot know. *)
RefusedOnlyUnawares == answer.status = "limited" => told[Charged] > Buffer

(* A token is never expired when the request that carries it arrives, for  *)
(* all that the client sleeps for the rate limit, retries and waits for    *)
(* other tokens between taking a token into its cache and using it.        *)
TokensFresh == answer.status # "expired"

(* A request carries the token of the installation that covers its         *)
(* repository, in a client whose cache serves many.                        *)
BearerFits == (App /\ pc \in {"send", "back"}) => bearer.id = Charged

(* GitHub is sent a mutation at most once, though the answer may be lost,  *)
(* and a read at most MAX_RETRIES + 1 times.                               *)
SentAtMost == attempts <= (IF request.method = "GET" THEN MaxRetries + 1 ELSE 1)

(* A limit the client takes to be in force is one that GitHub told it for  *)
(* some installation, together with the end of that installation's window. *)
KnownIsTold ==
  known.reset > 0 => \E i \in Installations : /\ known.reset = limits[i].reset
                                              /\ known.remaining = told[i]

(* Every request ends, with a response or an error, whatever GitHub and    *)
(* the network do.                                                         *)
RequestsEnd == pc # "idle" ~> pc = "idle"

=============================================================================
