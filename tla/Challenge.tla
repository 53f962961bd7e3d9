------------------------------ MODULE Challenge ------------------------------
(***************************************************************************)
(* The web service of app.py, and one browser with several tabs.  Flask    *)
(* keeps a session in the client's cookie and nowhere else: a request      *)
(* carries the cookie the browser had when it was sent, the handler works  *)
(* on that copy, and a reply that changed it replaces the browser's cookie *)
(* when it arrives.  Requests of different tabs overlap, replies arrive in *)
(* any order or not at all, the clock runs on meanwhile.                   *)
(***************************************************************************)
EXTENDS Integers, FiniteSets

CONSTANTS Tabs,             \* each has at most one request on its way
          RunIds,           \* what generate_run_id draws from
          NoRun,            \* no run id
          ChallengeTime,    \* CHALLENGE_TIME, in seconds
          TicksPerSecond,   \* the clock's resolution
          KeepRuns,         \* KEEP_RUNS: leave the run directories in place
          MaxTime,          \* bound: the clock stops here
          MaxChallenges     \* bound: challenges generated

ASSUME ChallengeAssumption ==
  /\ {ChallengeTime, TicksPerSecond} \subseteq Nat \ {0}
  /\ {MaxTime, MaxChallenges} \subseteq Nat
  /\ KeepRuns \in BOOLEAN /\ NoRun \notin RunIds

VARIABLES now,        \* time.time(), in ticks
          cookie,     \* the session cookie the browser holds
          req,        \* each tab's request
          runs,       \* the run directories under webservice/tmp
          made,       \* challenges generated so far, numbered from 1
          began,      \* ghost: when each was generated
          attempts,   \* ghost: how often each was judged, up to 2
          settled,    \* ghost: those whose verdict the browser received
          wins,       \* ghost: those answered rightly within ChallengeTime
          leaked      \* ghost: directories an uncaught failure left behind

ghosts == <<began, attempts, settled, wins, leaked>>
vars   == <<now, cookie, req, runs, made, ghosts>>

Limit      == ChallengeTime * TicksPerSecond
Challenges == 1..MaxChallenges

\* A session's start_time, attempt_used and solved, and the challenge whose
\* "answer" it holds; challenge 0 is a session without start_time.
Sessions == [chal : 0..MaxChallenges, start : 0..MaxTime,
             attempt_used : BOOLEAN, solved : BOOLEAN]
Cleared  == [chal |-> 0, start |-> 0, attempt_used |-> FALSE, solved |-> FALSE]
Fresh(c) == [Cleared EXCEPT !.chal = c, !.start = now]

\* What an answer names: the function of one challenge, or no such function.
Answers == 0..MaxChallenges

Routes  == {"index", "start", "submit", "reset"}
Stages  == {"idle", "sent", "obfuscating", "zipping", "answered"}
\* "first" is "Start a challenge first!", "again" the "Correct!" of a session
\* that was solved before, "failed" a handled error and "500" an exception.
Replies == {"none", "page", "zip", "failed", "500", "redirect",
            "first", "again", "late", "locked", "right", "wrong"}
Idle == [stage |-> "idle", route |-> "index", session |-> Cleared, answer |-> 0,
         run |-> NoRun, reply |-> "none", saved |-> FALSE, knew |-> {}]

Init == /\ now = 0 /\ cookie = Cleared /\ req = [t \in Tabs |-> Idle]
        /\ runs = {} /\ made = 0
        /\ began = [c \in Challenges |-> 0] /\ attempts = [c \in Challenges |-> 0]
        /\ settled = {} /\ wins = {} /\ leaked = {}

\* int() drops the fraction, max() the sign.
Positive(x) == IF x > 0 THEN x ELSE 0
\* Mutated get_time: the two times are swapped.
get_time_swapped(s) == Positive(Limit + (now - s.start)) \div TicksPerSecond
get_time(s) == Positive(Limit - (now - s.start)) \div TicksPerSecond

\* Mutated is_submission_locked: the attempt is not looked at.
lock_without_attempt(s) == s.solved \/ (s.chal # 0 /\ get_time(s) <= 0)
is_submission_locked(s) ==
  s.solved \/ s.attempt_used \/ (s.chal # 0 /\ get_time(s) <= 0)

\* The reply to t's request; saved says that the session was modified, so that
\* Flask sets the cookie.
Reply(t, text, session, saved) ==
  req' = [req EXCEPT ![t].stage = "answered", ![t].reply = text,
                     ![t].session = session, ![t].saved = saved,
                     ![t].run = NoRun, ![t].answer = 0]

\* The user follows a link or posts the form in a tab; knew remembers the
\* challenges whose verdict the browser had by then.
Send(t) ==
  /\ req[t].stage = "idle"
  /\ \E route \in Routes, a \in {0, cookie.chal} :
       /\ route # "submit" => a = 0
       /\ req' = [req EXCEPT ![t] = [Idle EXCEPT !.stage = "sent", !.route = route,
                    !.session = cookie, !.answer = a, !.knew = settled]]
  /\ UNCHANGED <<now, cookie, runs, made, ghosts>>

Serving(t, route) == req[t].stage = "sent" /\ req[t].route = route

index(t) == /\ Serving(t, "index")
            /\ Reply(t, IF is_submission_locked(req[t].session) THEN "locked" ELSE "page",
                     Cleared, FALSE)
            /\ UNCHANGED <<now, cookie, runs, made, ghosts>>

reset(t) == /\ Serving(t, "reset")
            /\ Reply(t, "redirect", Cleared, TRUE)
            /\ UNCHANGED <<now, cookie, runs, made, ghosts>>

\* Mutated start: the directory may exist already (exist_ok=True).
start_anywhere(t) ==
  /\ Serving(t, "start")
  /\ \E r \in RunIds :
       /\ runs' = runs \cup {r}
       /\ req' = [req EXCEPT ![t].stage = "obfuscating", ![t].run = r,
                             ![t].session = Cleared]
  /\ UNCHANGED <<now, cookie, made, ghosts>>

\* start() up to the obfuscator: the session is cleared and a directory is made.
\* One that exists already, or cannot be made, is an uncaught exception.
start(t) ==
  /\ Serving(t, "start")
  /\ \/ Reply(t, "500", Cleared, TRUE) /\ UNCHANGED runs
     \/ \E r \in RunIds \ runs :
          /\ runs' = runs \cup {r}
          /\ req' = [req EXCEPT ![t].stage = "obfuscating", ![t].run = r,
                                ![t].session = Cleared]
  /\ UNCHANGED <<now, cookie, made, ghosts>>

\* Mutated cleanup_run_artifacts: the test of KEEP_RUNS is inverted.
cleanup_if_kept(r) == runs' = IF KeepRuns THEN runs \ {r} ELSE runs

cleanup_run_artifacts(r) == runs' = IF KeepRuns THEN runs ELSE runs \ {r}

\* The obfuscator fails or leaves no metadata: both are caught and clean up.  It
\* is not started, or what it left cannot be read or is no dictionary: that is
\* not caught, so the directory stays.
start_fails(t) ==
  /\ req[t].stage = "obfuscating"
  /\ \/ /\ cleanup_run_artifacts(req[t].run)
        /\ Reply(t, "failed", Cleared, TRUE)
        /\ UNCHANGED leaked
     \/ /\ Reply(t, "500", Cleared, TRUE)
        /\ leaked' = leaked \cup {req[t].run}
        /\ UNCHANGED runs
  /\ UNCHANGED <<now, cookie, made, began, attempts, settled, wins>>

\* The obfuscator is done: the answer and start_time enter the session, then
\* the archive is built.
start_obfuscated(t) ==
  /\ req[t].stage = "obfuscating"
  /\ made < MaxChallenges /\ now + Limit <= MaxTime
  /\ made' = made + 1
  /\ began' = [began EXCEPT ![made'] = now]
  /\ req' = [req EXCEPT ![t].stage = "zipping", ![t].session = Fresh(made')]
  /\ UNCHANGED <<now, cookie, runs, attempts, settled, wins, leaked>>

\* The archive is sent and the directory removed; an exception on the way is
\* not caught, so the directory stays, and the session is saved all the same.
start_zipped(t) ==
  /\ req[t].stage = "zipping"
  /\ \/ /\ cleanup_run_artifacts(req[t].run)
        /\ Reply(t, "zip", req[t].session, TRUE)
        /\ UNCHANGED leaked
     \/ /\ Reply(t, "500", req[t].session, TRUE)
        /\ leaked' = leaked \cup {req[t].run}
        /\ UNCHANGED runs
  /\ UNCHANGED <<now, cookie, made, began, attempts, settled, wins>>

\* What submit answers without judging, "judge" when it judges.
Refusal(s) == IF s.chal = 0 THEN "first"
              ELSE IF s.solved THEN "again"
              ELSE IF get_time(s) <= 0 THEN "late"
              ELSE IF s.attempt_used THEN "locked"
              ELSE "judge"

\* Mutated Judged: the clock starts over, a wrong attempt is not recorded, the
\* time used is stored over the time it began.
JudgedAnew(s, a)   == [s EXCEPT !.attempt_used = TRUE, !.solved = (a = s.chal),
                                !.start = now]
JudgedFreely(s, a) == IF a = s.chal
                        THEN [s EXCEPT !.attempt_used = TRUE, !.solved = TRUE] ELSE s
JudgedTime(s, a)   == [s EXCEPT !.attempt_used = TRUE, !.start = @ - now]

\* The session after an answer is judged: the attempt is spent whatever it was.
Judged(s, a) == LET spent == [s EXCEPT !.attempt_used = TRUE] IN
                  IF a = s.chal THEN [spent EXCEPT !.solved = TRUE] ELSE spent

submit(t) ==
  /\ Serving(t, "submit")
  /\ LET s == req[t].session
         a == req[t].answer
         c == s.chal IN
       IF Refusal(s) # "judge"
         THEN /\ Reply(t, Refusal(s), s, FALSE)
              /\ UNCHANGED <<attempts, wins>>
         ELSE /\ Reply(t, IF a = c THEN "right" ELSE "wrong", Judged(s, a), TRUE)
              /\ attempts' = [attempts EXCEPT ![c] = IF @ = 0 THEN 1 ELSE 2]
              /\ wins' = IF a = c /\ now - began[c] < Limit THEN wins \cup {c} ELSE wins
  /\ UNCHANGED <<now, cookie, runs, made, began, settled, leaked>>

\* The browser takes the reply, and the cookie that comes with it.
Receive(t) ==
  /\ req[t].stage = "answered"
  /\ cookie' = IF req[t].saved THEN req[t].session ELSE cookie
  /\ settled' = IF req[t].reply \in {"right", "wrong"}
                  THEN settled \cup {req[t].session.chal} ELSE settled
  /\ req' = [req EXCEPT ![t] = Idle]
  /\ UNCHANGED <<now, runs, made, began, attempts, wins, leaked>>

\* The request or the reply is lost, or the user left the page.
Lose(t) ==
  /\ req[t].stage \in {"sent", "answered"}
  /\ req' = [req EXCEPT ![t] = Idle]
  /\ UNCHANGED <<now, cookie, runs, made, ghosts>>

Tick == /\ now < MaxTime /\ now' = now + 1
        /\ UNCHANGED <<cookie, req, runs, made, ghosts>>

Serve(t) == \/ index(t) \/ reset(t) \/ start(t) \/ start_fails(t)
            \/ start_obfuscated(t) \/ start_zipped(t) \/ submit(t)

Next == Tick \/ \E t \in Tabs : Send(t) \/ Serve(t) \/ Receive(t) \/ Lose(t)

\* The clock does not stop, and a handler that runs comes to its end.
Fairness == WF_vars(Tick) /\ \A t \in Tabs : WF_vars(Serve(t))

Spec == Init /\ [][Next]_vars /\ Fairness
-----------------------------------------------------------------------------
Requests == [stage : Stages, route : Routes, session : Sessions, answer : Answers,
             run : RunIds \cup {NoRun}, reply : Replies, saved : BOOLEAN,
             knew : SUBSET Challenges]

TypeOK ==
  /\ now \in 0..MaxTime /\ cookie \in Sessions /\ req \in [Tabs -> Requests]
  /\ runs \subseteq RunIds /\ made \in 0..MaxChallenges
  /\ began \in [Challenges -> 0..MaxTime] /\ attempts \in [Challenges -> 0..2]
  /\ settled \subseteq Challenges /\ wins \subseteq Challenges
  /\ leaked \subseteq RunIds

Genuine(s) ==
  s.chal # 0 => /\ s.chal <= made /\ s.start = began[s.chal]
                /\ s.attempt_used => attempts[s.chal] > 0
                /\ s.solved => s.attempt_used /\ s.chal \in wins

\* Whatever replies are lost or come late, a session in the browser or on its
\* way has the deadline its challenge began with, and is solved only if that
\* challenge was rightly answered within the time (get_time, submit).
SessionsGenuine == Genuine(cookie) /\ \A t \in Tabs : Genuine(req[t].session)

\* "Wrong answer. This challenge is now locked until reset.": once the browser
\* has the verdict on a challenge, no older reply brings the unspent attempt
\* back, and nothing the browser sends from then on is judged for it.
NeverReopened ==
  /\ cookie.chal \in settled => cookie.attempt_used
  /\ \A t \in Tabs : req[t].reply \in {"right", "wrong"} =>
                      req[t].session.chal \notin req[t].knew

Working(t) == req[t].stage \in {"obfuscating", "zipping"}

\* No two requests work in one run directory, each has its own until it is
\* answered, and what is left on the disk is what an uncaught failure left.
RunsOwned ==
  /\ \A t \in Tabs : Working(t) => req[t].run \in runs \ leaked
  /\ \A t, u \in Tabs : Working(t) /\ Working(u) /\ t # u => req[t].run # req[u].run
  /\ ~KeepRuns => runs = leaked \cup {req[t].run : t \in {u \in Tabs : Working(u)}}

\* The page shows a challenge as locked exactly when submit would not judge an
\* answer (is_submission_locked against the three tests of submit).
PageAgrees ==
  cookie.chal # 0 => (is_submission_locked(cookie) <=> Refusal(cookie) # "judge")

\* The deadline comes: a challenge does not stay open for ever.
EventuallyLocked ==
  \A c \in Challenges :
    cookie.chal = c ~> cookie.chal # c \/ is_submission_locked(cookie)

\* A run directory is removed in the end, unless a failure left it behind.
RunsReclaimed == \A r \in RunIds : r \in runs ~> r \notin runs \/ r \in leaked

\* app.py:208 says "This challenge is now locked until reset.": a challenge
\* ought to be judged once.
SingleAttempt == \A c \in Challenges : attempts[c] <= 1

\* readme.md:50 promises "a time window of 60 seconds": an answer ought not to
\* be refused as late before that.
FullWindow ==
  \A t \in Tabs : req[t].reply = "late" => now - req[t].session.start >= Limit
=============================================================================
