--------------------------- MODULE ChallengeProofs ---------------------------
(***************************************************************************)
(* The safety properties of Challenge, for any number of tabs, run ids,    *)
(* challenges and seconds.  First what each kind of step makes of a        *)
(* request, then types, directories, sessions, and last that a verdict     *)
(* stands.                                                                 *)
(***************************************************************************)
EXTENDS Challenge, TLAPS

\* Only t's request changes.
Others(t) == \A u \in Tabs \ {t} : req'[u] = req[u]

\* What a reply makes of the request, and that it touches no other.
LEMMA ReplyFacts ==
  ASSUME NEW t \in Tabs, NEW text, NEW s, NEW saved,
         req \in [Tabs -> Requests], Reply(t, text, s, saved)
  PROVE  /\ Others(t)
         /\ req'[t].stage = "answered" /\ req'[t].reply = text /\ req'[t].session = s
         /\ req'[t].saved = saved /\ req'[t].route = req[t].route /\ req'[t].run = NoRun
         /\ req'[t].knew = req[t].knew
<1>1. req[t] \in Requests
  OBVIOUS
<1>2. req' = [req EXCEPT ![t] = [req[t] EXCEPT !.stage = "answered", !.reply = text,
                !.session = s, !.saved = saved, !.run = NoRun, !.answer = 0]]
  BY DEF Reply
<1>3. req'[t] = [req[t] EXCEPT !.stage = "answered", !.reply = text,
                !.session = s, !.saved = saved, !.run = NoRun, !.answer = 0]
  BY <1>2
<1>4. Others(t)
  BY <1>2 DEF Others
<1> QED
  BY <1>1, <1>3, <1>4 DEF Requests

\* A reply keeps the type of req.
LEMMA ReplyTyped ==
  ASSUME NEW t \in Tabs, NEW text \in Replies, NEW s \in Sessions, NEW saved \in BOOLEAN,
         req \in [Tabs -> Requests], Reply(t, text, s, saved)
  PROVE  req' \in [Tabs -> Requests]
<1>1. req[t] \in Requests
  OBVIOUS
<1>2. req' = [req EXCEPT ![t] = [req[t] EXCEPT !.stage = "answered", !.reply = text,
                !.session = s, !.saved = saved, !.run = NoRun, !.answer = 0]]
  BY DEF Reply
<1> DEFINE r1 == [req[t] EXCEPT !.stage = "answered", !.reply = text, !.session = s]
           r2 == [r1 EXCEPT !.saved = saved]
           r3 == [r2 EXCEPT !.run = NoRun, !.answer = 0]
<1>3. r1 \in Requests
  BY <1>1 DEF Requests, Stages
<1>4. req' = [req EXCEPT ![t] = r3]
  BY <1>1, <1>2 DEF Requests
<1>5. r2 \in Requests
  <2> HIDE DEF r1
  <2> QED
    BY <1>3 DEF Requests
<1>6. r3 \in Requests
  <2> HIDE DEF r2
  <2>1. 0 \in Answers
    BY ChallengeAssumption DEF Answers
  <2> QED
    BY <1>5, <2>1 DEF Requests
<1> QED
  BY <1>4, <1>6

\* A request that is sent carries the cookie and what is settled.
LEMMA SendFacts ==
  ASSUME NEW t \in Tabs, req \in [Tabs -> Requests], cookie \in Sessions,
         settled \subseteq Challenges, Send(t)
  PROVE  /\ Others(t) 
         /\ req'[t].stage = "sent" /\ req'[t].session = cookie /\ req'[t].reply = "none"
         /\ req'[t].knew = settled /\ req'[t].saved = FALSE /\ req'[t].run = NoRun
         /\ req' \in [Tabs -> Requests]
<1>1. PICK route \in Routes, a \in {0, cookie.chal} :
       req' = [req EXCEPT ![t] = [Idle EXCEPT !.stage = "sent", !.route = route,
                    !.session = cookie, !.answer = a, !.knew = settled]]
  BY DEF Send
<1>2. a \in Answers
  BY ChallengeAssumption DEF Answers, Sessions
<1>3. [Idle EXCEPT !.stage = "sent", !.route = route, !.session = cookie, !.answer = a,
                   !.knew = settled] \in Requests
  BY <1>2 DEF Idle, Requests, Replies, Stages
<1> QED
  BY <1>1, <1>3 DEF Others, Idle

\* A tab that goes back to idle.
LEMMA IdleFacts ==
  ASSUME NEW t \in Tabs, req \in [Tabs -> Requests], req' = [req EXCEPT ![t] = Idle]
  PROVE  /\ Others(t) /\ req'[t] = Idle /\ req' \in [Tabs -> Requests]
<1>1. Idle \in Requests
  BY ChallengeAssumption DEF Idle, Requests, Replies, Stages, Routes, Answers, Sessions, Cleared
<1> QED
  BY <1>1 DEF Others

\* A request of start() that was given its run directory.
LEMMA StartFacts ==
  ASSUME NEW t \in Tabs, req \in [Tabs -> Requests], NEW r \in RunIds,
         req' = [req EXCEPT ![t].stage = "obfuscating", ![t].run = r, ![t].session = Cleared]
  PROVE  /\ Others(t) /\ req' \in [Tabs -> Requests]
         /\ req'[t].stage = "obfuscating" /\ req'[t].run = r /\ req'[t].session = Cleared
         /\ req'[t].reply = req[t].reply /\ req'[t].saved = req[t].saved
         /\ req'[t].knew = req[t].knew /\ req'[t].route = req[t].route
<1>1. req[t] \in Requests
  OBVIOUS
<1>2. req' = [req EXCEPT ![t] = [req[t] EXCEPT !.stage = "obfuscating", !.run = r, !.session = Cleared]]
  OBVIOUS
<1>3. Cleared \in Sessions
  BY ChallengeAssumption DEF Cleared, Sessions
<1>4. [req[t] EXCEPT !.stage = "obfuscating", !.run = r, !.session = Cleared] \in Requests
  BY <1>1, <1>3 DEF Requests, Stages
<1> QED
  BY <1>1, <1>2, <1>4 DEF Others, Requests

\* A request of start() whose session was filled.
LEMMA ZippingFacts ==
  ASSUME NEW t \in Tabs, req \in [Tabs -> Requests], NEW s \in Sessions,
         req' = [req EXCEPT ![t].stage = "zipping", ![t].session = s]
  PROVE  /\ Others(t) /\ req' \in [Tabs -> Requests]
         /\ req'[t].stage = "zipping" /\ req'[t].session = s
         /\ req'[t].run = req[t].run
         /\ req'[t].reply = req[t].reply /\ req'[t].saved = req[t].saved
         /\ req'[t].knew = req[t].knew /\ req'[t].route = req[t].route
<1>1. req[t] \in Requests
  OBVIOUS
<1>2. req' = [req EXCEPT ![t] = [req[t] EXCEPT !.stage = "zipping", !.session = s]]
  OBVIOUS
<1>4. [req[t] EXCEPT !.stage = "zipping", !.session = s] \in Requests
  BY <1>1 DEF Requests, Stages
<1> QED
  BY <1>1, <1>2, <1>4 DEF Others, Requests

\* Judging spends the attempt and keeps the challenge and its deadline.
LEMMA JudgedFacts ==
  ASSUME NEW s \in Sessions, NEW a
  PROVE  /\ Judged(s, a) \in Sessions
         /\ Judged(s, a).chal = s.chal /\ Judged(s, a).start = s.start
         /\ Judged(s, a).attempt_used = TRUE
         /\ a # s.chal => Judged(s, a).solved = s.solved
  BY DEF Judged, Sessions
-----------------------------------------------------------------------------
\* TypeOK, and what keeps settled and leaked within their types: only a session
\* with a challenge is judged, and whoever works has a directory.
Sound(r) == /\ r.stage # "answered" => r.reply = "none"
            /\ r.reply \in {"right", "wrong"} => r.session.chal # 0
            /\ r.stage \in {"obfuscating", "zipping"} => r.run \in RunIds
Typed == TypeOK /\ \A t \in Tabs : Sound(req[t])

\* A request that is changed alone keeps what holds for each one.
LEMMA SoundStep ==
  ASSUME NEW t \in Tabs, \A u \in Tabs : Sound(req[u]), Others(t), Sound(req'[t])
  PROVE  \A u \in Tabs : Sound(req'[u])
  BY DEF Others

\* The reply to an answer that was judged.
LEMMA ReplySound ==
  ASSUME NEW t \in Tabs, NEW text \in {"right", "wrong"}, NEW s \in Sessions, s.chal # 0,
         req \in [Tabs -> Requests], Reply(t, text, s, TRUE)
  PROVE  req' \in [Tabs -> Requests] /\ Others(t) /\ Sound(req'[t])
<1>1. req' \in [Tabs -> Requests]
  BY ReplyTyped DEF Replies
<1>2. Others(t) /\ req'[t].stage = "answered" /\ req'[t].session = s
  BY ReplyFacts
<1> QED
  BY <1>1, <1>2 DEF Sound

\* Typed holds in every state.
LEMMA TypedAlways == Spec => []Typed
<1> USE ChallengeAssumption
<1>1. Init => Typed
  <2> SUFFICES ASSUME Init PROVE Typed
    OBVIOUS
  <2>1. Cleared \in Sessions
    BY DEF Cleared, Sessions
  <2>2. Idle \in Requests
    BY <2>1 DEF Idle, Requests, Replies, Stages, Routes, Answers
  <2>3. req = [t \in Tabs |-> Idle]
    BY DEF Init
  <2>4. TypeOK
    BY <2>1, <2>2, <2>3 DEF Init, TypeOK
  <2>5. Sound(Idle)
    BY DEF Idle, Sound
  <2> QED
    BY <2>3, <2>4, <2>5 DEF Typed
<1>2. Typed /\ [Next]_vars => Typed'
  <2> SUFFICES ASSUME Typed, [Next]_vars PROVE Typed'
    OBVIOUS
  <2> USE DEF Typed, TypeOK, ghosts
  <2>0. /\ Cleared \in Sessions /\ req \in [Tabs -> Requests]
        /\ \A t \in Tabs : req[t].session \in Sessions /\ req[t].run \in RunIds \cup {NoRun}
    BY DEF Cleared, Sessions, Requests
  <2>1. CASE Tick
    BY <2>1 DEF Tick
  <2>2. ASSUME NEW t \in Tabs, Send(t) PROVE Typed'
    <3>1. /\ Others(t) /\ req' \in [Tabs -> Requests]
          /\ req'[t].stage = "sent" /\ req'[t].reply = "none"
      BY <2>2, SendFacts
    <3>2. Sound(req'[t])
      BY <3>1 DEF Sound
    <3> QED
      BY <2>2, <3>1, <3>2, SoundStep DEF Send
  <2>3. ASSUME NEW t \in Tabs, NEW text \in {"locked", "page", "redirect"},
               NEW saved \in BOOLEAN, Reply(t, text, Cleared, saved)
        PROVE  req' \in [Tabs -> Requests] /\ \A u \in Tabs : Sound(req'[u])
    <3>1. req' \in [Tabs -> Requests]
      BY <2>0, <2>3, ReplyTyped DEF Replies
    <3>2. Sound(req'[t]) /\ Others(t)
      BY <2>0, <2>3, ReplyFacts DEF Sound
    <3> QED
      BY <3>1, <3>2, SoundStep
  <2>4. ASSUME NEW t \in Tabs, index(t) \/ reset(t) PROVE Typed'
    BY <2>3, <2>4 DEF index, reset
  <2>5. ASSUME NEW t \in Tabs, start(t) PROVE Typed'
    <3>0. UNCHANGED <<now, cookie, made, ghosts>>
      BY <2>5 DEF start
    <3>1. CASE Reply(t, "500", Cleared, TRUE) /\ UNCHANGED runs
      <4>1. req' \in [Tabs -> Requests]
        BY <2>0, <3>1, ReplyTyped DEF Replies
      <4>2. Sound(req'[t]) /\ Others(t)
        BY <2>0, <3>1, ReplyFacts DEF Sound
      <4> QED
        BY <3>0, <3>1, <4>1, <4>2, SoundStep
    <3>2. ASSUME NEW r \in RunIds \ runs, runs' = runs \cup {r},
                 req' = [req EXCEPT ![t].stage = "obfuscating", ![t].run = r,
                                    ![t].session = Cleared]
          PROVE  Typed'
      <4>1. req[t].reply = "none"
        BY <2>5 DEF start, Serving, Sound
      <4>2. r \in RunIds
        BY <3>2
      <4>3. /\ Others(t) /\ req' \in [Tabs -> Requests]
            /\ req'[t].stage = "obfuscating" /\ req'[t].run = r /\ req'[t].session = Cleared
            /\ req'[t].reply = req[t].reply
        BY <2>0, <3>2, <4>2, StartFacts
      <4>4. Sound(req'[t])
        BY <4>1, <4>2, <4>3 DEF Sound
      <4> QED
        BY <2>0, <3>0, <3>2, <4>2, <4>3, <4>4, SoundStep
    <3> QED
      BY <2>5, <3>1, <3>2 DEF start
  <2>6. ASSUME NEW t \in Tabs, start_fails(t) PROVE Typed'
    <3>0. PICK text \in {"failed", "500"} : Reply(t, text, Cleared, TRUE)
      BY <2>6 DEF start_fails
    <3>1. req' \in [Tabs -> Requests]
      BY <2>0, <3>0, ReplyTyped DEF Replies
    <3>2. runs' \subseteq RunIds /\ leaked' \subseteq RunIds
      <4>1. req[t].run \in RunIds
        BY <2>6 DEF start_fails, Sound
      <4> QED
        BY <2>6, <4>1 DEF start_fails, cleanup_run_artifacts
    <3>3. Sound(req'[t]) /\ Others(t)
      BY <2>0, <3>0, ReplyFacts DEF Sound
    <3> QED
      BY <2>6, <3>1, <3>2, <3>3, SoundStep DEF start_fails
  <2>7. ASSUME NEW t \in Tabs, start_obfuscated(t) PROVE Typed'
    <3>1. /\ made' = made + 1 /\ made' \in 1..MaxChallenges
          /\ made' \in 0..MaxChallenges /\ now \in 0..MaxTime
          /\ began' = [began EXCEPT ![made'] = now]
          /\ req' = [req EXCEPT ![t].stage = "zipping", ![t].session = Fresh(made')]
          /\ UNCHANGED <<now, cookie, runs, attempts, settled, wins, leaked>>
          /\ req[t].stage = "obfuscating"
      BY <2>7 DEF start_obfuscated
    <3>2. Fresh(made') \in Sessions
      <4>1. ASSUME NEW c \in 0..MaxChallenges PROVE Fresh(c) \in Sessions
        BY <3>1 DEF Fresh, Cleared, Sessions
      <4> QED
        BY <3>1, <4>1
    <3>3. began' \in [Challenges -> 0..MaxTime]
      BY <3>1 DEF Challenges
    <3>4. Sound(req'[t]) /\ Others(t) /\ req' \in [Tabs -> Requests]
      BY <2>0, <3>1, <3>2, ZippingFacts DEF Sound
    <3> QED
      BY <3>1, <3>3, <3>4, SoundStep
  <2>8. ASSUME NEW t \in Tabs, start_zipped(t) PROVE Typed'
    <3>1. PICK text \in {"zip", "500"} :
            /\ Reply(t, text, req[t].session, TRUE)
            /\ text = "500" \/ (UNCHANGED leaked /\ cleanup_run_artifacts(req[t].run))
            /\ text = "zip" \/ (UNCHANGED runs /\ leaked' = leaked \cup {req[t].run})
      BY <2>8 DEF start_zipped
    <3>0. req[t].session \in Sessions /\ text \in Replies
      BY <2>0, <3>1 DEF Replies
    <3>2. req' \in [Tabs -> Requests]
      BY <2>0, <3>0, <3>1, ReplyTyped
    <3>3. req[t].run \in RunIds
      BY <2>8 DEF start_zipped, Sound
    <3>4. runs' \subseteq RunIds /\ leaked' \subseteq RunIds
      BY <3>1, <3>3 DEF cleanup_run_artifacts
    <3>5. UNCHANGED <<now, cookie, made, began, attempts, settled, wins>>
      BY <2>8 DEF start_zipped
    <3>6. Sound(req'[t]) /\ Others(t)
      BY <2>0, <3>1, ReplyFacts DEF Sound
    <3> QED
      BY <3>2, <3>4, <3>5, <3>6, SoundStep
  <2>9. ASSUME NEW t \in Tabs, submit(t) PROVE Typed'
    <3>1. /\ req[t].session \in Sessions
          /\ UNCHANGED <<now, cookie, runs, made, began, settled, leaked>>
      BY <2>0, <2>9 DEF submit
    <3>2. CASE Refusal(req[t].session) # "judge"
      <4>1. /\ Reply(t, Refusal(req[t].session), req[t].session, FALSE)
            /\ UNCHANGED <<attempts, wins>>
        BY <2>9, <3>2 DEF submit
      <4>2. Refusal(req[t].session) \in {"first", "again", "late", "locked"}
        BY <3>2 DEF Refusal
      <4>3. req' \in [Tabs -> Requests]
        BY <2>0, <4>1, <4>2, ReplyTyped DEF Replies
      <4>4. Sound(req'[t]) /\ Others(t)
        BY <2>0, <4>1, <4>2, ReplyFacts DEF Sound
      <4> QED
        BY <3>1, <4>1, <4>3, <4>4, SoundStep
    <3>3. CASE Refusal(req[t].session) = "judge"
      <4> DEFINE s == req[t].session
                 a == req[t].answer
                 text == IF a = s.chal THEN "right" ELSE "wrong"
      <4>1. /\ Reply(t, text, Judged(s, a), TRUE)
            /\ attempts' = [attempts EXCEPT ![s.chal] = IF @ = 0 THEN 1 ELSE 2]
            /\ wins' = wins \/ wins' = wins \cup {s.chal}
        BY <2>9, <3>3 DEF submit
      <4>2. s.chal # 0
        BY <3>3 DEF Refusal
      <4>3. s.chal \in Challenges
        BY <3>1, <4>2 DEF Sessions, Challenges
      <4>4. wins' \subseteq Challenges /\ attempts' \in [Challenges -> 0..2]
        BY <4>1, <4>3
      <4>5. Judged(s, a) \in Sessions /\ Judged(s, a).chal = s.chal
        BY <3>1, JudgedFacts
      <4>6. req' \in [Tabs -> Requests] /\ Others(t) /\ Sound(req'[t])
        BY <2>0, <4>1, <4>2, <4>5, ReplySound DEF Replies
      <4> QED
        BY <3>1, <4>4, <4>6, SoundStep
    <3> QED
      BY <3>2, <3>3
  <2>10. ASSUME NEW t \in Tabs, Receive(t) PROVE Typed'
    <3>1. cookie' \in Sessions
      BY <2>0, <2>10 DEF Receive
    <3>2. settled' \subseteq Challenges
      <4>1. req[t].session.chal \in 0..MaxChallenges
        BY <2>0 DEF Sessions
      <4>2. \/ settled' = settled
            \/ /\ settled' = settled \cup {req[t].session.chal}
               /\ req[t].session.chal # 0
        BY <2>10 DEF Receive, Sound
      <4> QED
        BY <4>1, <4>2 DEF Challenges
    <3>3. Sound(Idle)
      BY DEF Idle, Sound
    <3>4. Sound(req'[t]) /\ Others(t) /\ req' \in [Tabs -> Requests]
      BY <2>0, <2>10, <3>3, IdleFacts DEF Receive
    <3> QED
      BY <2>10, <3>1, <3>2, <3>4, SoundStep DEF Receive
  <2>11. ASSUME NEW t \in Tabs, Lose(t) PROVE Typed'
    <3>3. Sound(Idle)
      BY DEF Idle, Sound
    <3>4. Sound(req'[t]) /\ Others(t) /\ req' \in [Tabs -> Requests]
      BY <2>0, <2>11, <3>3, IdleFacts DEF Lose
    <3> QED
      BY <2>11, <3>4, SoundStep DEF Lose
  <2>12. CASE UNCHANGED vars
    BY <2>12 DEF vars
  <2> QED
    BY <2>1, <2>2, <2>4, <2>5, <2>6, <2>7, <2>8, <2>9, <2>10, <2>11, <2>12
       DEF Next, Serve
<1> QED
  BY <1>1, <1>2, PTL DEF Spec

\* All variables of the service and the browser keep their types, whatever
\* the requests of app.py do and in whatever order.
THEOREM TypeCorrect == Spec => []TypeOK
  BY TypedAlways, PTL DEF Typed
-----------------------------------------------------------------------------
\* RunsOwned with what the next step needs of it: a directory that was left
\* behind is still there, so that no request draws its name again.
Runs == RunsOwned /\ leaked \subseteq runs

\* What RunsOwned says of the step: only t's request changes.
LEMMA OthersWork ==
  ASSUME NEW t \in Tabs, Others(t), NEW u \in Tabs, u # t
  PROVE  req'[u] = req[u] /\ (Working(u)' <=> Working(u))
  BY DEF Others, Working

\* A step that leaves the directories, what is working and where, as they are.
LEMMA RunsKept ==
  ASSUME Runs, NEW t \in Tabs, Others(t), UNCHANGED <<runs, leaked>>,
         Working(t)' <=> Working(t), Working(t) => req'[t].run = req[t].run
  PROVE  Runs'
<1>1. \A u \in Tabs : (Working(u)' <=> Working(u))
                      /\ (Working(u) => req'[u].run = req[u].run)
  BY OthersWork
<1>2. {req'[u].run : u \in {v \in Tabs : Working(v)'}}
        = {req[u].run : u \in {v \in Tabs : Working(v)}}
  BY <1>1
<1> QED
  BY <1>1, <1>2 DEF Runs, RunsOwned

\* A request that has worked is answered; its directory is gone or left behind.
LEMMA RunsEnd ==
  ASSUME Typed, Runs, NEW t \in Tabs, Others(t), Working(t), ~Working(t)',
         \/ cleanup_run_artifacts(req[t].run) /\ UNCHANGED leaked
         \/ UNCHANGED runs /\ leaked' = leaked \cup {req[t].run}
  PROVE  Runs'
<1> DEFINE r == req[t].run
<1>1. \A u \in Tabs : Working(u)' <=> u # t /\ Working(u)
  BY OthersWork
<1>2. \A u \in Tabs : Working(u)' => req'[u].run = req[u].run /\ req[u].run # r
  BY <1>1, OthersWork DEF Runs, RunsOwned
<1>3. r \in runs \ leaked
  BY DEF Runs, RunsOwned
<1>4. \A u \in Tabs : Working(u)' => req'[u].run \in runs' \ leaked'
  BY <1>1, <1>2, <1>3 DEF Runs, RunsOwned, cleanup_run_artifacts
<1>5. \A u, v \in Tabs : Working(u)' /\ Working(v)' /\ u # v => req'[u].run # req'[v].run
  BY <1>1, <1>2 DEF Runs, RunsOwned
<1>6. ASSUME ~KeepRuns
      PROVE  runs' = leaked' \cup {req'[u].run : u \in {v \in Tabs : Working(v)'}}
  <2>1. {req'[u].run : u \in {v \in Tabs : Working(v)'}}
          = {req[u].run : u \in {v \in Tabs : Working(v)}} \ {r}
    BY <1>1, <1>2
  <2> QED
    BY <1>3, <1>6, <2>1 DEF Runs, RunsOwned, cleanup_run_artifacts
<1>7. leaked' \subseteq runs'
  BY <1>3 DEF Runs, cleanup_run_artifacts
<1> QED
  BY <1>4, <1>5, <1>6, <1>7 DEF Runs, RunsOwned

\* Runs holds in every state.
LEMMA RunsStep == Typed /\ Runs /\ [Next]_vars => Runs'
<1> SUFFICES ASSUME Typed, Runs, [Next]_vars PROVE Runs'
  OBVIOUS
<1>0. req \in [Tabs -> Requests] /\ cookie \in Sessions /\ settled \subseteq Challenges
  BY DEF Typed, TypeOK
<1>1. CASE Tick
  BY <1>1 DEF Tick, ghosts, Runs, RunsOwned, Working
<1>2. ASSUME NEW t \in Tabs, Send(t) PROVE Runs'
  <2>1. Others(t) /\ req'[t].stage = "sent"
    BY <1>0, <1>2, SendFacts
  <2>2. ~Working(t) /\ ~Working(t)' /\ UNCHANGED <<runs, leaked>>
    BY <1>2, <2>1 DEF Send, Working, ghosts
  <2> QED
    BY <2>1, <2>2, RunsKept
<1>3. ASSUME NEW t \in Tabs, NEW text, NEW s, NEW saved, Reply(t, text, s, saved)
      PROVE  Others(t) /\ ~Working(t)'
  BY <1>0, <1>3, ReplyFacts DEF Working
<1>4. ASSUME NEW t \in Tabs, index(t) \/ reset(t) \/ submit(t) PROVE Runs'
  <2>1. ~Working(t) /\ UNCHANGED <<runs, leaked>>
    BY <1>4 DEF index, reset, submit, Serving, Working, ghosts
  <2>2. \E text, s, saved : Reply(t, text, s, saved)
    <3>1. CASE index(t) \/ reset(t)
      BY <3>1 DEF index, reset
    <3>2. CASE submit(t)
      BY <3>2 DEF submit
    <3> QED
      BY <1>4, <3>1, <3>2
  <2>3. Others(t) /\ ~Working(t)'
    BY <1>3, <2>2
  <2> QED
    BY <2>1, <2>3, RunsKept
<1>5. ASSUME NEW t \in Tabs, start(t) PROVE Runs'
  <2>1. ~Working(t) /\ UNCHANGED leaked
    BY <1>5 DEF start, Serving, Working, ghosts
  <2>2. CASE Reply(t, "500", Cleared, TRUE) /\ UNCHANGED runs
    BY <1>3, <2>1, <2>2, RunsKept
  <2>3. ASSUME NEW r \in RunIds \ runs, runs' = runs \cup {r},
               req' = [req EXCEPT ![t].stage = "obfuscating", ![t].run = r,
                                  ![t].session = Cleared]
        PROVE  Runs'
    <3>1. Others(t) /\ req'[t].stage = "obfuscating" /\ req'[t].run = r
      BY <1>0, <2>3, StartFacts
    <3>2. \A u \in Tabs : Working(u)' <=> u = t \/ Working(u)
      BY <3>1, OthersWork DEF Working
    <3>3. \A u \in Tabs : u # t => req'[u] = req[u]
      BY <3>1, OthersWork
    <3>4. r \notin leaked /\ runs' = runs \cup {r}
      BY <2>3 DEF Runs
    <3>5. \A u \in Tabs : Working(u) => req[u].run \in runs /\ req[u].run # r
      BY <2>3 DEF Runs, RunsOwned
    <3>6. {req'[u].run : u \in {v \in Tabs : Working(v)'}}
            = {r} \cup {req[u].run : u \in {v \in Tabs : Working(v)}}
      BY <2>1, <3>1, <3>2, <3>3
    <3> QED
      BY <2>1, <3>1, <3>2, <3>3, <3>4, <3>5, <3>6 DEF Runs, RunsOwned
  <2> QED
    BY <1>5, <2>2, <2>3 DEF start
<1>6. ASSUME NEW t \in Tabs, start_fails(t) PROVE Runs'
  <2>1. Others(t) /\ ~Working(t)'
    BY <1>3, <1>6 DEF start_fails
  <2>2. /\ Working(t)
        /\ \/ cleanup_run_artifacts(req[t].run) /\ UNCHANGED leaked
           \/ UNCHANGED runs /\ leaked' = leaked \cup {req[t].run}
    BY <1>6 DEF start_fails, Working
  <2> QED
    BY <2>1, <2>2, RunsEnd
<1>7. ASSUME NEW t \in Tabs, start_obfuscated(t) PROVE Runs'
  <2>1. PICK s : req' = [req EXCEPT ![t].stage = "zipping", ![t].session = s]
    BY <1>7 DEF start_obfuscated
  <2>2. Others(t) /\ req'[t].stage = "zipping" /\ req'[t].run = req[t].run
    BY <1>0, <2>1 DEF Others, Requests
  <2>3. Working(t) /\ Working(t)' /\ UNCHANGED <<runs, leaked>>
    BY <1>7, <2>2 DEF start_obfuscated, Working
  <2> QED
    BY <2>2, <2>3, RunsKept
<1>8. ASSUME NEW t \in Tabs, start_zipped(t) PROVE Runs'
  <2>1. Others(t) /\ ~Working(t)'
    BY <1>3, <1>8 DEF start_zipped
  <2>2. /\ Working(t)
        /\ \/ cleanup_run_artifacts(req[t].run) /\ UNCHANGED leaked
           \/ UNCHANGED runs /\ leaked' = leaked \cup {req[t].run}
    BY <1>8 DEF start_zipped, Working
  <2> QED
    BY <2>1, <2>2, RunsEnd
<1>9. ASSUME NEW t \in Tabs, Receive(t) \/ Lose(t) PROVE Runs'
  <2>1. Others(t) /\ req'[t] = Idle
    BY <1>0, <1>9, IdleFacts DEF Receive, Lose
  <2>2. ~Working(t) /\ ~Working(t)' /\ UNCHANGED <<runs, leaked>>
    BY <1>9, <2>1 DEF Receive, Lose, Working, ghosts, Idle
  <2> QED
    BY <2>1, <2>2, RunsKept
<1>10. CASE UNCHANGED vars
  BY <1>10 DEF vars, ghosts, Runs, RunsOwned, Working
<1> QED
  BY <1>1, <1>2, <1>4, <1>5, <1>6, <1>7, <1>8, <1>9, <1>10 DEF Next, Serve

\* No two requests of start() work in one run directory, and what is left on
\* the disk is what an uncaught failure left (generate_run_id, mkdir, cleanup).
THEOREM RunsOwnedAlways == Spec => []RunsOwned
<1>1. Init => Runs
  BY DEF Init, Idle, Runs, RunsOwned, Working
<1>2. Spec => []Runs
  BY <1>1, RunsStep, TypedAlways, PTL DEF Spec
<1>3. Runs => RunsOwned
  BY DEF Runs
<1> QED
  BY <1>2, <1>3, PTL
-----------------------------------------------------------------------------
\* Genuine of a session after the step.
GenuineThen(s) ==
  s.chal # 0 => /\ s.chal <= made' /\ s.start = began'[s.chal]
                /\ s.attempt_used => attempts'[s.chal] > 0
                /\ s.solved => s.attempt_used /\ s.chal \in wins'

\* What the ghosts record is never taken back.
Grows == /\ made <= made' /\ made' \in Nat
         /\ \A c \in 1..made : began'[c] = began[c]
         /\ \A c \in Challenges : attempts[c] > 0 => attempts'[c] > 0
         /\ wins \subseteq wins'

\* A genuine session remains one.
LEMMA GenuineGrows ==
  ASSUME Typed, Grows, NEW s \in Sessions, Genuine(s)
  PROVE  GenuineThen(s)
<1> USE ChallengeAssumption
<1>1. CASE s.chal = 0
  BY <1>1 DEF GenuineThen
<1>2. CASE s.chal # 0
  <2>1. s.chal \in 1..made /\ s.chal \in Challenges /\ made \in Nat
    BY <1>2 DEF Genuine, Sessions, Challenges, Typed, TypeOK
  <2> QED
    BY <1>2, <2>1 DEF Genuine, GenuineThen, Grows
<1> QED
  BY <1>1, <1>2

\* One request changes, and the browser takes no session but its own.
LEMMA GenuineStep ==
  ASSUME Typed, SessionsGenuine, Grows, NEW t \in Tabs, Others(t),
         cookie' \in {cookie, req[t].session}, GenuineThen(req'[t].session)
  PROVE  SessionsGenuine'
<1>1. /\ cookie \in Sessions /\ Genuine(cookie)
      /\ \A u \in Tabs : req[u].session \in Sessions /\ Genuine(req[u].session)
  BY DEF Typed, TypeOK, SessionsGenuine, Requests
<1>2. GenuineThen(cookie) /\ \A u \in Tabs : GenuineThen(req[u].session)
  BY <1>1, GenuineGrows
<1>3. GenuineThen(cookie') /\ \A u \in Tabs : GenuineThen(req'[u].session)
  BY <1>2 DEF Others
<1> QED
  BY <1>3 DEF SessionsGenuine, Genuine, GenuineThen

\* An answer is judged within the time, so a right one is among the wins.
LEMMA JudgedGenuine ==
  ASSUME Typed, NEW s \in Sessions, NEW a, Genuine(s), Refusal(s) = "judge",
         UNCHANGED <<made, began>>,
         attempts' = [attempts EXCEPT ![s.chal] = IF @ = 0 THEN 1 ELSE 2],
         wins' = IF a = s.chal /\ now - began[s.chal] < Limit
                   THEN wins \cup {s.chal} ELSE wins
  PROVE  Grows /\ GenuineThen(Judged(s, a))
<1> USE ChallengeAssumption
<1>1. s.chal \in Challenges /\ ~s.solved /\ ~(get_time(s) <= 0) /\ s.start \in Nat
  BY DEF Refusal, Sessions, Challenges
<1>2. now \in Nat /\ Limit \in Nat /\ TicksPerSecond \in Nat \ {0} /\ made \in Nat
      /\ attempts \in [Challenges -> 0..2]
  BY DEF Typed, TypeOK, Limit
<1>3. now - s.start < Limit
  <2>1. 0 \div TicksPerSecond = 0
    BY <1>2
  <2> QED
    BY <1>1, <1>2, <2>1 DEF get_time, Positive
<1>4. attempts'[s.chal] > 0 /\ \A c \in Challenges : attempts[c] > 0 => attempts'[c] > 0
  BY <1>1, <1>2
<1>5. Grows
  BY <1>2, <1>4 DEF Grows
<1>6. s.chal <= made /\ s.start = began[s.chal]
  BY <1>1 DEF Genuine, Challenges
<1>7. /\ Judged(s, a).chal = s.chal /\ Judged(s, a).start = s.start
      /\ Judged(s, a).attempt_used /\ (a # s.chal => ~Judged(s, a).solved)
  BY <1>1, JudgedFacts
<1>8. a = s.chal => s.chal \in wins'
  BY <1>3, <1>6
<1> HIDE DEF Judged
<1> QED
  BY <1>4, <1>5, <1>6, <1>7, <1>8 DEF GenuineThen

\* Each step keeps the sessions genuine.
LEMMA GenuineNext == Typed /\ SessionsGenuine /\ [Next]_vars => SessionsGenuine'
<1> SUFFICES ASSUME Typed, SessionsGenuine, [Next]_vars PROVE SessionsGenuine'
  OBVIOUS
<1> USE ChallengeAssumption
<1>0. /\ req \in [Tabs -> Requests] /\ cookie \in Sessions /\ settled \subseteq Challenges
      /\ made \in Nat
      /\ \A t \in Tabs : req[t].session \in Sessions /\ Genuine(req[t].session)
  BY DEF Typed, TypeOK, Requests, SessionsGenuine
<1>a. GenuineThen(Cleared)
  BY DEF GenuineThen, Cleared
<1>b. ASSUME UNCHANGED <<made, began, attempts, wins>> PROVE Grows
  BY <1>0, <1>b DEF Grows
<1>1. CASE Tick
  BY <1>1 DEF Tick, ghosts, SessionsGenuine, Genuine
<1>2. ASSUME NEW t \in Tabs, Send(t) PROVE SessionsGenuine'
  <2>1. Others(t) /\ req'[t].session = cookie
    BY <1>0, <1>2, SendFacts
  <2>2. UNCHANGED <<cookie, made, began, attempts, wins>>
    BY <1>2 DEF Send, ghosts
  <2>3. Grows
    BY <1>b, <2>2
  <2>4. GenuineThen(cookie)
    BY <1>0, <2>3, GenuineGrows DEF SessionsGenuine
  <2> QED
    BY <2>1, <2>2, <2>3, <2>4, GenuineStep
<1>3. ASSUME NEW t \in Tabs, NEW text, NEW saved, NEW s, Reply(t, text, s, saved),
             GenuineThen(s), Grows, UNCHANGED cookie
      PROVE  SessionsGenuine'
  <2>1. Others(t) /\ req'[t].session = s
    BY <1>0, <1>3, ReplyFacts
  <2> QED
    BY <1>3, <2>1, GenuineStep
<1>4. ASSUME NEW t \in Tabs, index(t) \/ reset(t) \/ start_fails(t) PROVE SessionsGenuine'
  <2>1. UNCHANGED <<cookie, made, began, attempts, wins>>
    BY <1>4 DEF index, reset, start_fails, ghosts
  <2>2. \E text, saved : Reply(t, text, Cleared, saved)
    BY <1>4 DEF index, reset, start_fails
  <2> QED
    BY <1>a, <1>b, <1>3, <2>1, <2>2
<1>5. ASSUME NEW t \in Tabs, start(t) PROVE SessionsGenuine'
  <2>1. UNCHANGED <<cookie, made, began, attempts, wins>>
    BY <1>5 DEF start, ghosts
  <2>2. CASE Reply(t, "500", Cleared, TRUE)
    BY <1>a, <1>b, <1>3, <2>1, <2>2
  <2>3. ASSUME NEW r \in RunIds,
               req' = [req EXCEPT ![t].stage = "obfuscating", ![t].run = r,
                                  ![t].session = Cleared]
        PROVE  SessionsGenuine'
    <3>1. Others(t) /\ req'[t].session = Cleared
      BY <1>0, <2>3, StartFacts
    <3> QED
      BY <1>a, <1>b, <2>1, <3>1, GenuineStep
  <2> QED
    BY <1>5, <2>2, <2>3 DEF start
<1>6. ASSUME NEW t \in Tabs, start_obfuscated(t) PROVE SessionsGenuine'
  <2>1. /\ made' = made + 1 /\ made' \in Challenges /\ began' = [began EXCEPT ![made'] = now]
        /\ began \in [Challenges -> 0..MaxTime] /\ now \in 0..MaxTime
        /\ req' = [req EXCEPT ![t].stage = "zipping", ![t].session = Fresh(made')]
        /\ UNCHANGED <<cookie, attempts, wins>>
    BY <1>0, <1>6 DEF start_obfuscated, Challenges, Typed, TypeOK
  <2>2. Grows
    BY <1>0, <2>1 DEF Grows, Challenges
  <2>3. /\ Fresh(made').chal = made' /\ Fresh(made').start = now
        /\ ~Fresh(made').attempt_used /\ ~Fresh(made').solved
    BY DEF Fresh, Cleared
  <2>4. Fresh(made') \in Sessions
    <3>1. ASSUME NEW c \in 0..MaxChallenges PROVE Fresh(c) \in Sessions
      BY <2>1 DEF Fresh, Cleared, Sessions
    <3>2. made' \in 0..MaxChallenges
      BY <2>1 DEF Challenges
    <3> QED
      BY <3>1, <3>2
  <2>5. GenuineThen(Fresh(made'))
    BY <2>1, <2>3 DEF GenuineThen, Challenges
  <2>6. Others(t) /\ req'[t].session = Fresh(made')
    BY <1>0, <2>1, <2>4, ZippingFacts
  <2> QED
    BY <2>1, <2>2, <2>5, <2>6, GenuineStep
<1>7. ASSUME NEW t \in Tabs, start_zipped(t) PROVE SessionsGenuine'
  <2>1. UNCHANGED <<cookie, made, began, attempts, wins>>
    BY <1>7 DEF start_zipped
  <2>2. \E text : Reply(t, text, req[t].session, TRUE)
    BY <1>7 DEF start_zipped
  <2>3. GenuineThen(req[t].session)
    BY <1>0, <1>b, <2>1, GenuineGrows
  <2> QED
    BY <1>b, <1>3, <2>1, <2>2, <2>3
<1>8. ASSUME NEW t \in Tabs, submit(t) PROVE SessionsGenuine'
  <2>1. UNCHANGED <<cookie, made, began>>
    BY <1>8 DEF submit
  <2>2. CASE Refusal(req[t].session) # "judge"
    <3>1. UNCHANGED <<attempts, wins>> /\ \E text : Reply(t, text, req[t].session, FALSE)
      BY <1>8, <2>2 DEF submit
    <3>2. GenuineThen(req[t].session)
      BY <1>0, <1>b, <2>1, <3>1, GenuineGrows
    <3> QED
      BY <1>b, <1>3, <2>1, <3>1, <3>2
  <2>3. CASE Refusal(req[t].session) = "judge"
    <3> DEFINE s == req[t].session
               a == req[t].answer
    <3>1. /\ \E text : Reply(t, text, Judged(s, a), TRUE)
          /\ attempts' = [attempts EXCEPT ![s.chal] = IF @ = 0 THEN 1 ELSE 2]
          /\ wins' = IF a = s.chal /\ now - began[s.chal] < Limit
                       THEN wins \cup {s.chal} ELSE wins
      BY <1>8, <2>3 DEF submit
    <3>2. Grows /\ GenuineThen(Judged(s, a))
      <4>1. s \in Sessions /\ Genuine(s) /\ Refusal(s) = "judge"
        BY <1>0, <2>3
      <4> HIDE DEF s, a
      <4> QED
        BY <2>1, <3>1, <4>1, JudgedGenuine
    <3> HIDE DEF s, a
    <3> QED
      BY <1>3, <2>1, <3>1, <3>2
  <2> QED
    BY <2>2, <2>3
<1>9. ASSUME NEW t \in Tabs, Receive(t) \/ Lose(t) PROVE SessionsGenuine'
  <2>1. Others(t) /\ req'[t] = Idle
    BY <1>0, <1>9, IdleFacts DEF Receive, Lose
  <2>2. /\ UNCHANGED <<made, began, attempts, wins>>
        /\ cookie' \in {cookie, req[t].session}
    BY <1>9 DEF Receive, Lose, ghosts
  <2>3. GenuineThen(req'[t].session)
    BY <1>a, <2>1 DEF Idle
  <2> QED
    BY <1>b, <2>1, <2>2, <2>3, GenuineStep
<1>10. CASE UNCHANGED vars
  BY <1>10 DEF vars, ghosts, SessionsGenuine, Genuine
<1> QED
  BY <1>1, <1>2, <1>4, <1>5, <1>6, <1>7, <1>8, <1>9, <1>10 DEF Next, Serve

\* A session has the deadline its challenge began with, and is solved only if
\* the challenge was rightly answered within the time (get_time, submit).
THEOREM SessionsGenuineAlways == Spec => []SessionsGenuine
<1>1. Init => SessionsGenuine
  BY DEF Init, Idle, Cleared, SessionsGenuine, Genuine
<1> QED
  BY <1>1, GenuineNext, TypedAlways, PTL DEF Spec
-----------------------------------------------------------------------------
\* What NeverReopened needs of each request.  A verdict spends the attempt and
\* sets the cookie; a request sent with a settled challenge carries its spent
\* attempt, and so is not judged.
Verdict(r) == r.reply \in {"right", "wrong"} =>
                r.session.attempt_used /\ r.saved /\ r.session.chal \notin r.knew
Informed(r) == r.stage = "sent" /\ r.session.chal \in r.knew => r.session.attempt_used

\* The request that carries a new challenge to the browser.
Carries(r) == /\ r.stage \in {"zipping", "answered"} /\ r.session.chal # 0
              /\ r.stage = "answered" => r.saved
              /\ ~r.session.attempt_used

\* A challenge that is still on its way to the browser is nowhere else.
Unseen(t) == Carries(req[t]) =>
  /\ req[t].session.chal \notin settled /\ req[t].session.chal # cookie.chal
  /\ \A u \in Tabs \ {t} : req[u].session.chal # req[t].session.chal

Settled == /\ settled \subseteq 1..made
           /\ cookie.chal \in settled => cookie.attempt_used
           /\ \A t \in Tabs : Verdict(req[t]) /\ Informed(req[t]) /\ Unseen(t)

\* A request that carries no new challenge, and brings none that was new, may
\* change alone.
LEMMA SettledStep ==
  ASSUME Settled, NEW t \in Tabs, Others(t), UNCHANGED <<cookie, settled, made>>,
         Verdict(req'[t]), Informed(req'[t]), ~Carries(req'[t]) \/ Unseen(t)',
         req'[t].session.chal \in {0, cookie.chal, req[t].session.chal}
  PROVE  Settled'
<1>1. ASSUME NEW u \in Tabs \ {t}
      PROVE  Verdict(req'[u]) /\ Informed(req'[u]) /\ Unseen(u)'
  <2>1. req'[u] = req[u]
    BY DEF Others
  <2>2. Verdict(req[u]) /\ Informed(req[u]) /\ Unseen(u)
    BY DEF Settled
  <2>3. ASSUME Carries(req[u])
        PROVE  \A v \in Tabs \ {u} : req'[v].session.chal # req[u].session.chal
    BY <2>2, <2>3 DEF Unseen, Others, Carries
  <2> QED
    BY <2>1, <2>2, <2>3 DEF Unseen
<1>2. Unseen(t)'
  BY DEF Unseen
<1> QED
  BY <1>1, <1>2 DEF Settled

\* A reply that leaves the request's session as it is, or clears it.
LEMMA SettledReply ==
  ASSUME Typed, Settled, NEW t \in Tabs, NEW text, NEW saved, NEW s \in Sessions,
         Reply(t, text, s, saved), UNCHANGED <<cookie, settled, made>>,
         text \notin {"right", "wrong"},
         \/ s.chal = 0
         \/ s = req[t].session /\ (saved = FALSE \/ req[t].stage = "zipping")
  PROVE  Settled'
<1>1. /\ Others(t) /\ req'[t].stage = "answered" /\ req'[t].reply = text
      /\ req'[t].session = s /\ req'[t].saved = saved
  BY ReplyFacts DEF Typed, TypeOK
<1>2. Verdict(req'[t]) /\ Informed(req'[t])
  BY <1>1 DEF Verdict, Informed
<1>3. ~Carries(req'[t]) \/ Unseen(t)'
  <2>1. CASE s.chal = 0 \/ saved = FALSE
    BY <1>1, <2>1 DEF Carries
  <2>2. CASE s = req[t].session /\ req[t].stage = "zipping"
    <3>1. Carries(req'[t]) => Carries(req[t])
      BY <1>1, <2>2 DEF Carries
    <3>2. Unseen(t)
      BY DEF Settled
    <3> QED
      BY <1>1, <2>2, <3>1, <3>2 DEF Unseen, Others
  <2> QED
    BY <2>1, <2>2
<1> QED
  BY <1>1, <1>2, <1>3, SettledStep

\* The reply to an answer that was judged.
LEMMA SettledVerdict ==
  ASSUME Typed, Settled, NEW t \in Tabs, NEW text, NEW s \in Sessions,
         Reply(t, text, s, TRUE), UNCHANGED <<cookie, settled, made>>,
         s.attempt_used, s.chal = req[t].session.chal, s.chal \notin req[t].knew
  PROVE  Settled'
<1>1. /\ Others(t) /\ req'[t].stage = "answered" /\ req'[t].session = s
      /\ req'[t].saved = TRUE /\ req'[t].knew = req[t].knew
  BY ReplyFacts DEF Typed, TypeOK
<1>2. Verdict(req'[t]) /\ Informed(req'[t]) /\ ~Carries(req'[t])
  BY <1>1 DEF Verdict, Informed, Carries
<1> QED
  BY <1>1, <1>2, SettledStep

\* Each step keeps Settled.
LEMMA SettledNext == Typed /\ SessionsGenuine /\ Settled /\ [Next]_vars => Settled'
<1> SUFFICES ASSUME Typed, SessionsGenuine, Settled, [Next]_vars PROVE Settled'
  OBVIOUS
<1> USE ChallengeAssumption
<1>0. /\ req \in [Tabs -> Requests] /\ cookie \in Sessions /\ settled \subseteq Challenges
      /\ made \in Nat /\ Cleared \in Sessions /\ Cleared.chal = 0
      /\ \A t \in Tabs : req[t].session \in Sessions
  BY DEF Typed, TypeOK, Requests, Cleared, Sessions
<1>1. CASE Tick
  BY <1>1 DEF Tick, ghosts, Settled, Unseen
<1>2. ASSUME NEW t \in Tabs, Send(t) PROVE Settled'
  <2>1. /\ Others(t) /\ req'[t].session = cookie /\ req'[t].stage = "sent"
        /\ req'[t].reply = "none" /\ req'[t].knew = settled
    BY <1>0, <1>2, SendFacts
  <2>2. UNCHANGED <<cookie, settled, made>>
    BY <1>2 DEF Send, ghosts
  <2>3. Verdict(req'[t]) /\ Informed(req'[t]) /\ ~Carries(req'[t])
    BY <2>1 DEF Verdict, Informed, Carries, Settled
  <2> QED
    BY <2>1, <2>2, <2>3, SettledStep
<1>3. ASSUME NEW t \in Tabs, index(t) \/ reset(t) \/ start_fails(t) PROVE Settled'
  <2>1. UNCHANGED <<cookie, made, settled>>
    BY <1>3 DEF index, reset, start_fails, ghosts
  <2>2. ASSUME NEW text \in {"locked", "page", "redirect", "failed", "500"}, NEW saved \in BOOLEAN,
               Reply(t, text, Cleared, saved)
        PROVE  Settled'
    BY <1>0, <2>1, <2>2, SettledReply
  <2>3. CASE index(t)
    BY <2>2, <2>3 DEF index
  <2>4. CASE reset(t) \/ start_fails(t)
    BY <2>2, <2>4 DEF reset, start_fails
  <2> QED
    BY <1>3, <2>3, <2>4
<1>4. ASSUME NEW t \in Tabs, start(t) PROVE Settled'
  <2>1. UNCHANGED <<cookie, made, settled>>
    BY <1>4 DEF start, ghosts
  <2>2. CASE Reply(t, "500", Cleared, TRUE)
    BY <1>0, <2>1, <2>2, SettledReply
  <2>3. ASSUME NEW r \in RunIds,
               req' = [req EXCEPT ![t].stage = "obfuscating", ![t].run = r,
                                  ![t].session = Cleared]
        PROVE  Settled'
    <3>1. /\ Others(t) /\ req'[t].session = Cleared /\ req'[t].stage = "obfuscating"
          /\ req'[t].reply = req[t].reply
      BY <1>0, <2>3, StartFacts
    <3>2. req[t].reply = "none"
      BY <1>4 DEF start, Serving, Typed, Sound
    <3>3. Verdict(req'[t]) /\ Informed(req'[t]) /\ ~Carries(req'[t])
      BY <3>1, <3>2 DEF Verdict, Informed, Carries
    <3> QED
      BY <1>0, <2>1, <3>1, <3>3, SettledStep
  <2> QED
    BY <1>4, <2>2, <2>3 DEF start
<1>5. ASSUME NEW t \in Tabs, start_obfuscated(t) PROVE Settled'
  <2>1. /\ made' = made + 1 /\ made' \in 0..MaxChallenges /\ now \in 0..MaxTime
        /\ req' = [req EXCEPT ![t].stage = "zipping", ![t].session = Fresh(made')]
        /\ UNCHANGED <<cookie, settled>> /\ req[t].stage = "obfuscating"
    BY <1>0, <1>5 DEF start_obfuscated, Typed, TypeOK
  <2>2. Fresh(made').chal = made'
    BY DEF Fresh, Cleared
  <2>3. Fresh(made') \in Sessions
    <3>1. ASSUME NEW c \in 0..MaxChallenges PROVE Fresh(c) \in Sessions
      BY <2>1 DEF Fresh, Cleared, Sessions
    <3> QED
      BY <2>1, <3>1
  <2>4. /\ Others(t) /\ req'[t].session = Fresh(made') /\ req'[t].stage = "zipping"
        /\ req'[t].reply = req[t].reply
    BY <1>0, <2>1, <2>3, ZippingFacts
  <2>5. made' \notin settled /\ settled \subseteq 1..made'
    BY <1>0, <2>1 DEF Settled
  <2>6. cookie.chal < made' /\ \A u \in Tabs : req[u].session.chal < made'
    <3>1. ASSUME NEW s \in Sessions, Genuine(s) PROVE s.chal < made'
      BY <1>0, <2>1, <3>1 DEF Genuine, Sessions
    <3> QED
      BY <1>0, <3>1 DEF SessionsGenuine
  <2>7. req[t].reply = "none"
    BY <2>1 DEF Typed, Sound
  <2>8. Verdict(req'[t]) /\ Informed(req'[t])
    BY <2>4, <2>7 DEF Verdict, Informed
  <2>9. Unseen(t)'
    BY <1>0, <2>1, <2>2, <2>4, <2>5, <2>6 DEF Unseen, Others, Sessions
  <2>10. ASSUME NEW u \in Tabs \ {t}
         PROVE  Verdict(req'[u]) /\ Informed(req'[u]) /\ Unseen(u)'
    <3>1. req'[u] = req[u]
      BY <2>4 DEF Others
    <3>2. Verdict(req[u]) /\ Informed(req[u]) /\ Unseen(u)
      BY DEF Settled
    <3>3. req'[t].session.chal # req[u].session.chal
      BY <1>0, <2>1, <2>2, <2>4, <2>6 DEF Sessions
    <3>4. ASSUME Carries(req[u]), NEW v \in Tabs \ {u}
          PROVE  req'[v].session.chal # req[u].session.chal
      BY <2>4, <3>2, <3>3, <3>4 DEF Unseen, Others
    <3>5. UNCHANGED <<cookie, settled>>
      BY <2>1
    <3>6. Unseen(u)'
      BY <3>1, <3>2, <3>4, <3>5 DEF Unseen
    <3> QED
      BY <3>1, <3>2, <3>6
  <2> QED
    BY <2>1, <2>5, <2>8, <2>9, <2>10 DEF Settled
<1>6. ASSUME NEW t \in Tabs, start_zipped(t) PROVE Settled'
  <2>1. UNCHANGED <<cookie, made, settled>> /\ req[t].stage = "zipping"
    BY <1>6 DEF start_zipped
  <2>2. PICK text \in {"zip", "500"} : Reply(t, text, req[t].session, TRUE)
    BY <1>6 DEF start_zipped
  <2> QED
    BY <1>0, <2>1, <2>2, SettledReply
<1>7. ASSUME NEW t \in Tabs, submit(t) PROVE Settled'
  <2>1. UNCHANGED <<cookie, made, settled>> /\ req[t].stage = "sent"
    BY <1>7 DEF submit, Serving
  <2>2. CASE Refusal(req[t].session) # "judge"
    <3>1. Reply(t, Refusal(req[t].session), req[t].session, FALSE)
      BY <1>7, <2>2 DEF submit
    <3>2. Refusal(req[t].session) \notin {"right", "wrong"}
      BY DEF Refusal
    <3> QED
      BY <1>0, <2>1, <3>1, <3>2, SettledReply
  <2>3. CASE Refusal(req[t].session) = "judge"
    <3> DEFINE s == req[t].session
               a == req[t].answer
    <3>1. PICK text \in {"right", "wrong"} : Reply(t, text, Judged(s, a), TRUE)
      BY <1>7, <2>3 DEF submit
    <3>2. s.chal \notin req[t].knew
      BY <2>1, <2>3 DEF Settled, Informed, Refusal
    <3>3. s \in Sessions
      BY <1>0
    <3>4. Judged(s, a).chal = s.chal /\ Judged(s, a).attempt_used
      BY <3>3, JudgedFacts
    <3>5. Judged(s, a) \in Sessions
      BY <3>3, JudgedFacts
    <3> QED
      BY <2>1, <3>1, <3>2, <3>4, <3>5, SettledVerdict
  <2> QED
    BY <2>2, <2>3
<1>8. ASSUME NEW t \in Tabs, Lose(t) PROVE Settled'
  <2>1. Others(t) /\ req'[t] = Idle /\ UNCHANGED <<cookie, made, settled>>
    BY <1>0, <1>8, IdleFacts DEF Lose, ghosts
  <2>2. /\ Verdict(req'[t]) /\ Informed(req'[t]) /\ ~Carries(req'[t])
        /\ req'[t].session.chal = 0
    BY <2>1 DEF Verdict, Informed, Carries, Idle, Cleared
  <2> QED
    BY <2>1, <2>2, SettledStep
<1>9. ASSUME NEW t \in Tabs, Receive(t) PROVE Settled'
  <2>1. /\ Others(t) /\ req'[t] = Idle /\ UNCHANGED made /\ req[t].stage = "answered"
        /\ cookie' = IF req[t].saved THEN req[t].session ELSE cookie
        /\ settled' = IF req[t].reply \in {"right", "wrong"}
                        THEN settled \cup {req[t].session.chal} ELSE settled
    BY <1>0, <1>9, IdleFacts DEF Receive
  <2>2. /\ Verdict(req'[t]) /\ Informed(req'[t]) /\ ~Carries(req'[t])
        /\ req'[t].session.chal = 0
    BY <2>1 DEF Verdict, Informed, Carries, Idle, Cleared
  <2>3. Verdict(req[t]) /\ Unseen(t) /\ Sound(req[t]) /\ Genuine(req[t].session)
    BY DEF Settled, Typed, SessionsGenuine
  <2>4. settled' \subseteq 1..made'
    <3>1. CASE req[t].reply \in {"right", "wrong"}
      <4>1. req[t].session.chal \in 1..made
        BY <1>0, <2>3, <3>1 DEF Sound, Genuine, Sessions
      <4> QED
        BY <2>1, <4>1 DEF Settled
    <3>2. CASE req[t].reply \notin {"right", "wrong"}
      BY <2>1, <3>2 DEF Settled
    <3> QED
      BY <3>1, <3>2
  <2>5. cookie'.chal \in settled' => cookie'.attempt_used
    <3>1. CASE req[t].reply \in {"right", "wrong"}
      BY <2>1, <2>3, <3>1 DEF Verdict
    <3>2. CASE req[t].reply \notin {"right", "wrong"} /\ ~req[t].saved
      BY <2>1, <3>2 DEF Settled
    <3>3. CASE req[t].reply \notin {"right", "wrong"} /\ req[t].saved
      <4>1. 0 \notin settled
        BY <1>0 DEF Challenges
      <4> QED
        BY <2>1, <2>3, <3>3, <4>1 DEF Unseen, Carries
    <3> QED
      BY <3>1, <3>2, <3>3
  <2>6. ASSUME NEW u \in Tabs \ {t}
        PROVE  Verdict(req'[u]) /\ Informed(req'[u]) /\ Unseen(u)'
    <3>1. req'[u] = req[u]
      BY <2>1 DEF Others
    <3>2. Verdict(req[u]) /\ Informed(req[u]) /\ Unseen(u)
      BY DEF Settled
    <3>3. ASSUME Carries(req[u])
          PROVE  /\ req[u].session.chal \notin settled' /\ req[u].session.chal # cookie'.chal
                 /\ \A v \in Tabs \ {u} : req'[v].session.chal # req[u].session.chal
      <4>1. req[u].session.chal # req[t].session.chal
        BY <3>2, <3>3 DEF Unseen
      <4> QED
        BY <2>1, <2>2, <3>2, <3>3, <4>1 DEF Unseen, Others, Carries
    <3> QED
      BY <3>1, <3>2, <3>3 DEF Unseen
  <2>7. Unseen(t)'
    BY <2>2 DEF Unseen
  <2> QED
    BY <2>2, <2>4, <2>5, <2>6, <2>7 DEF Settled
<1>10. CASE UNCHANGED vars
  BY <1>10 DEF vars, ghosts, Settled, Unseen
<1> QED
  BY <1>1, <1>2, <1>3, <1>4, <1>5, <1>6, <1>7, <1>8, <1>9, <1>10 DEF Next, Serve

\* Once the browser has the verdict on a challenge, the unspent attempt does
\* not come back, and nothing sent from then on is judged for it (submit).
THEOREM NeverReopenedAlways == Spec => []NeverReopened
<1>1. Init => Settled
  BY DEF Init, Idle, Cleared, Settled, Verdict, Informed, Carries, Unseen
<1>2. Spec => []Settled
  BY <1>1, SettledNext, TypedAlways, SessionsGenuineAlways, PTL DEF Spec
<1>3. Settled => NeverReopened
  BY DEF Settled, NeverReopened, Verdict
<1> QED
  BY <1>2, <1>3, PTL
-----------------------------------------------------------------------------
\* What the page shows as locked is what submit refuses to judge, for every
\* session the browser may hold and at every time (is_submission_locked, submit).
THEOREM PageAlwaysAgrees == Spec => []PageAgrees
<1>1. TypeOK => PageAgrees
  <2> SUFFICES ASSUME TypeOK, cookie.chal # 0
               PROVE  is_submission_locked(cookie) <=> Refusal(cookie) # "judge"
    BY DEF PageAgrees
  <2>1. cookie.solved \in BOOLEAN /\ cookie.attempt_used \in BOOLEAN
    BY DEF TypeOK, Sessions
  <2>2. CASE cookie.solved
    BY <2>2 DEF is_submission_locked, Refusal
  <2>3. CASE ~cookie.solved /\ get_time(cookie) <= 0
    BY <2>3 DEF is_submission_locked, Refusal
  <2>4. CASE ~cookie.solved /\ ~(get_time(cookie) <= 0)
    BY <2>1, <2>4 DEF is_submission_locked, Refusal
  <2> QED BY <2>1, <2>2, <2>3, <2>4
<1> QED BY TypeCorrect, <1>1, PTL
=============================================================================
