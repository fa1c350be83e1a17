--------------------------- MODULE BindingsProofs ---------------------------
(***************************************************************************)
(* Proofs about Bindings, for any numbers of timers, channels,             *)
(* connections and calls.  Each part has an inductive invariant of its     *)
(* own, which the steps of the others leave alone.  Those of the 1-Wire    *)
(* bus are in OneWireProofs.                                               *)
(***************************************************************************)
EXTENDS OneWireProofs

(* A step of the program is one of each part, or leaves it alone.          *)
LEMMA Parts ==
  [Next]_vars => /\ T!Next \/ UNCHANGED timers
                 /\ H!Next \/ UNCHANGED https
                 /\ B!Next \/ UNCHANGED bluetooth
                 /\ P!Next \/ UNCHANGED tcp
                 /\ C!Next \/ UNCHANGED calls
BY DEF Next, TimersNext, HttpsNext, BluetoothNext, TcpNext, CallsNext,
       SearchNext, SensorsNext, vars

-----------------------------------------------------------------------------
(* Timers.  A timer that is a userdata's is the one it remembers; the NTP  *)
(* client has the timer and the socket it remembers and no others, until   *)
(* requests overlap or somebody deletes the timer of another.              *)

Owned ==
  \A i \in Ids : owner[i] \in Objects =>
    object[owner[i]] # "none" /\ timer_id[owner[i]] = i

Named == \A o \in Objects : object[o] # "none" => timer_id[o] \in Ids

Client ==
  \/ ntpOverlapped
  \/ strayed
  \/ /\ \A i \in Ids : owner[i] = T!NTP => ntp.timer = i
     /\ sockets \subseteq {ntp.udp}
     /\ sockets # {} => ntp.timer \in Ids /\ owner[ntp.timer] = T!NTP
     /\ ntp.set => \A i \in Ids : owner[i] # T!NTP

TimersInv == T!TypeOK /\ Owned /\ Named /\ Client

(* Every step keeps every variable in its type.                            *)
LEMMA TimersTypeStep == T!TypeOK /\ (T!Next \/ UNCHANGED timers) => T!TypeOK'
<1> USE BindingsAssumption DEF T!Constants, T!NTP, T!Free, T!None
<1> SUFFICES ASSUME T!TypeOK, (T!Next \/ UNCHANGED timers) PROVE T!TypeOK'
  OBVIOUS
<1>1. ASSUME NEW o \in Objects, T!Create(o) PROVE T!TypeOK'
  BY <1>1 DEF T!TypeOK, T!Create, T!FreeIds
<1>2. ASSUME NEW o \in Objects, T!TimerDelete(o) PROVE T!TypeOK'
  BY <1>2 DEF T!TypeOK, T!TimerDelete, T!Delete, T!Deleted, T!Strays, T!lua
<1>3. ASSUME NEW o \in Objects, T!Drop(o) PROVE T!TypeOK'
  BY <1>3 DEF T!TypeOK, T!Drop
<1>4. ASSUME NEW o \in Objects, T!TimerGC(o) PROVE T!TypeOK'
  BY <1>4 DEF T!TypeOK, T!TimerGC, T!Delete, T!Deleted, T!Strays
<1>5. ASSUME NEW cb \in BOOLEAN, T!NtpTime(cb) PROVE T!TypeOK'
  BY <1>5 DEF T!TypeOK, T!NtpTime, T!Request, T!FreeIds, T!Running, T!lua
<1>6. CASE T!NtpTick
  <2>1. CASE ~ntp.set /\ ~T!TimedOut /\ ntp' = [ntp EXCEPT !.timeout = @ + 1]
             /\ UNCHANGED <<owner, sockets, strayed, T!lua, ntpOverlapped>>
    BY <2>1 DEF T!TypeOK, T!TimedOut, T!lua
  <2>2. CASE /\ ntp' = [ntp EXCEPT !.timeout = 0]
             /\ sockets' = sockets \ {ntp.udp}
             /\ T!Delete(ntp.timer, T!NTP) /\ UNCHANGED <<T!lua, ntpOverlapped>>
    BY <2>2 DEF T!TypeOK, T!Delete, T!Deleted, T!Strays, T!lua
  <2>3. CASE /\ T!Delete(ntp.timer, T!NTP)
             /\ UNCHANGED <<ntp, sockets, T!lua, ntpOverlapped>>
    BY <2>3 DEF T!TypeOK, T!Delete, T!Deleted, T!Strays, T!lua
  <2> QED
    BY <1>6, <2>1, <2>2, <2>3 DEF T!NtpTick
<1>7. CASE T!Refused
  BY <1>7 DEF T!TypeOK, T!Refused, T!lua
<1>8. CASE T!Answered
  BY <1>8 DEF T!TypeOK, T!Answered, T!Delete, T!Deleted, T!Strays, T!lua
<1>9. CASE T!AskedAgain
  <2>1. PICK id \in T!FreeIds \union {ntp.timer}, s \in NtpSockets \ sockets :
          /\ owner' = [T!Deleted(ntp.timer) EXCEPT ![id] = T!NTP]
          /\ ntp' = T!Request(id, s, FALSE)
    BY <1>9 DEF T!AskedAgain
  <2>2. owner' \in [Ids -> Objects \union {T!NTP, T!Free}]
    <3>1. T!Deleted(ntp.timer) \in [Ids -> Objects \union {T!NTP, T!Free}]
      BY DEF T!TypeOK, T!Deleted
    <3> QED
      BY <2>1, <3>1
  <2>3. id \in Ids \union {T!None} /\ s \in NtpSockets
    BY <2>1 DEF T!TypeOK, T!FreeIds
  <2>4. ntp' \in [timer : Ids \union {T!None}, udp : NtpSockets \union {T!None},
                 set : BOOLEAN, timeout : 0 .. NtpTimeOut, cb : BOOLEAN]
    BY <2>1, <2>3 DEF T!Request
  <2>5. UNCHANGED <<object, timer_id, sockets>> /\ ntpOverlapped' = TRUE
          /\ strayed' \in BOOLEAN
    BY <1>9 DEF T!TypeOK, T!AskedAgain, T!Strays, T!lua
  <2> QED
    BY <2>2, <2>4, <2>5 DEF T!TypeOK
<1>10. CASE UNCHANGED timers
  BY <1>10 DEF T!TypeOK, timers
<1> QED
  BY <1>1, <1>2, <1>3, <1>4, <1>5, <1>6, <1>7, <1>8, <1>9, <1>10 DEF T!Next

(* A timer stops or begins to be an object's only with that object: what   *)
(* the NTP client starts and deletes leaves the others as they are.        *)
LEMMA OwnedStep == T!TypeOK /\ Owned /\ (T!Next \/ UNCHANGED timers) => Owned'
<1> USE BindingsAssumption DEF T!Constants, T!NTP, T!Free, T!None
<1> SUFFICES ASSUME T!TypeOK, Owned, (T!Next \/ UNCHANGED timers) PROVE Owned'
  OBVIOUS
<1>0. ASSUME UNCHANGED T!lua,
             \A i \in Ids : owner'[i] \in Objects => owner'[i] = owner[i]
      PROVE  Owned'
  BY <1>0 DEF Owned, T!lua
<1>1. ASSUME NEW o \in Objects, T!Create(o) PROVE Owned'
  BY <1>1 DEF T!TypeOK, Owned, T!Create, T!FreeIds
<1>2. ASSUME NEW o \in Objects, T!TimerDelete(o) PROVE Owned'
  BY <1>0, <1>2 DEF T!TypeOK, T!TimerDelete, T!Delete, T!Deleted, T!lua
<1>3. ASSUME NEW o \in Objects, T!Drop(o) PROVE Owned'
  BY <1>3 DEF T!TypeOK, Owned, T!Drop
<1>4. ASSUME NEW o \in Objects, T!TimerGC(o) PROVE Owned'
  BY <1>4 DEF T!TypeOK, Owned, T!TimerGC, T!Delete, T!Deleted
<1>5. ASSUME NEW cb \in BOOLEAN, T!NtpTime(cb) PROVE Owned'
  BY <1>0, <1>5 DEF T!TypeOK, T!NtpTime, T!lua
<1>6. CASE T!NtpTick
  BY <1>0, <1>6 DEF T!TypeOK, T!NtpTick, T!Delete, T!Deleted, T!lua
<1>7. CASE T!Refused
  BY <1>0, <1>7 DEF T!Refused, T!lua
<1>8. CASE T!Answered
  BY <1>0, <1>8 DEF T!TypeOK, T!Answered, T!Delete, T!Deleted, T!lua
<1>9. CASE T!AskedAgain
  BY <1>0, <1>9 DEF T!TypeOK, T!AskedAgain, T!Deleted, T!lua
<1>10. CASE UNCHANGED timers
  BY <1>0, <1>10 DEF timers, T!lua
<1> QED
  BY <1>1, <1>2, <1>3, <1>4, <1>5, <1>6, <1>7, <1>8, <1>9, <1>10 DEF T!Next

(* A userdata that is there has got an identifier.                         *)
LEMMA NamedStep == T!TypeOK /\ Named /\ (T!Next \/ UNCHANGED timers) => Named'
<1> USE BindingsAssumption DEF T!Constants, T!NTP, T!Free, T!None
<1> SUFFICES ASSUME T!TypeOK, Named, (T!Next \/ UNCHANGED timers) PROVE Named'
  OBVIOUS
<1>1. ASSUME NEW o \in Objects, T!Create(o) PROVE Named'
  BY <1>1 DEF T!TypeOK, Named, T!Create, T!FreeIds
<1>2. ASSUME NEW o \in Objects, T!Drop(o) PROVE Named'
  BY <1>2 DEF T!TypeOK, Named, T!Drop
<1>3. ASSUME NEW o \in Objects, T!TimerGC(o) PROVE Named'
  BY <1>3 DEF T!TypeOK, Named, T!TimerGC
<1>4. CASE UNCHANGED T!lua
  BY <1>4 DEF Named, T!lua
<1> QED
  BY <1>1, <1>2, <1>3, <1>4
  DEF T!Next, T!TimerDelete, T!NtpTime, T!NtpTick, T!Refused,
      T!Answered, T!AskedAgain, timers, T!lua

(* As long as the client is in order, whoever deletes a timer that is not  *)
(* its own is a userdata that is stale.                                    *)
LEMMA FirstStray ==
  ASSUME T!TypeOK, Named, Client, (T!Next \/ UNCHANGED timers),
         ~strayed, strayed', ~ntpOverlapped
  PROVE  \E o \in Objects : T!Stale(o)
<1> USE BindingsAssumption DEF T!Constants, T!NTP, T!Free, T!None
<1>1. ASSUME T!Strays(ntp.timer, T!NTP),
             sockets # {} \/ \E i \in Ids : owner[i] = T!NTP
      PROVE  FALSE
  BY <1>1 DEF T!TypeOK, Client, T!Strays
<1>2. ASSUME NEW o \in Objects, object[o] # "none", T!Strays(timer_id[o], o)
      PROVE  T!Stale(o)
  BY <1>2 DEF T!TypeOK, T!Strays, T!Stale
<1>3. ASSUME NEW o \in Objects, T!TimerDelete(o) \/ T!TimerGC(o)
      PROVE  T!Stale(o)
  BY <1>2, <1>3 DEF T!TimerDelete, T!TimerGC, T!Delete
<1>4. ~T!NtpTick /\ ~T!Answered /\ ~T!AskedAgain
  BY <1>1 DEF T!NtpTick, T!Answered, T!AskedAgain, T!Delete
<1> QED
  BY <1>3, <1>4 DEF T!Next, T!Create, T!Drop, T!NtpTime, T!Refused, timers

(* The client stays in order until requests overlap or a timer is deleted  *)
(* by another.                                                             *)
LEMMA ClientStep ==
  T!TypeOK /\ Client /\ (T!Next \/ UNCHANGED timers) => Client'
<1> USE BindingsAssumption DEF T!Constants, T!NTP, T!Free, T!None
<1> SUFFICES ASSUME T!TypeOK, Client, (T!Next \/ UNCHANGED timers),
                    ~ntpOverlapped', ~strayed'
             PROVE  Client'
  BY DEF Client
<1>0. ~ntpOverlapped /\ ~strayed
  BY DEF T!TypeOK, T!Next, T!Create, T!TimerDelete, T!Drop, T!TimerGC,
         T!NtpTime, T!NtpTick,
         T!Refused, T!Answered, T!AskedAgain, T!Delete, T!Strays, timers
<1>a. /\ \A i \in Ids : owner[i] = T!NTP => ntp.timer = i
      /\ sockets \subseteq {ntp.udp}
      /\ sockets # {} => ntp.timer \in Ids /\ owner[ntp.timer] = T!NTP
      /\ ntp.set => \A i \in Ids : owner[i] # T!NTP
  BY <1>0 DEF Client
<1>b. ASSUME UNCHANGED <<ntp, sockets>>,
             \A i \in Ids : owner'[i] = T!NTP <=> owner[i] = T!NTP
      PROVE  Client'
  BY <1>a, <1>b DEF Client
<1>1. ASSUME NEW o \in Objects, T!Create(o) PROVE Client'
  BY <1>b, <1>1 DEF T!TypeOK, T!Create, T!FreeIds
<1>2. ASSUME NEW o \in Objects, T!TimerDelete(o) \/ T!TimerGC(o) PROVE Client'
  <2>1. owner' = T!Deleted(timer_id[o]) /\ T!Strays(timer_id[o], o)
          /\ UNCHANGED <<ntp, sockets>>
    BY <1>2 DEF T!TimerDelete, T!TimerGC, T!Delete
  <2> QED
    BY <1>b, <2>1 DEF T!TypeOK, T!Deleted, T!Strays
<1>3. ASSUME NEW cb \in BOOLEAN, T!NtpTime(cb) PROVE Client'
  <2>1. ~T!Running
    BY <1>3 DEF T!NtpTime
  <2>2. PICK id \in T!FreeIds, s \in NtpSockets \ sockets :
          /\ ntp' = T!Request(id, s, cb)
          /\ owner' = [owner EXCEPT ![id] = T!NTP]
          /\ sockets' = sockets \union {s}
    BY <1>3 DEF T!NtpTime
  <2> QED
    BY <2>1, <2>2 DEF T!TypeOK, Client, T!Running, T!Request, T!FreeIds
<1>4. CASE T!NtpTick
  <2>1. ntp'.timer = ntp.timer /\ ntp'.udp = ntp.udp
    BY <1>4 DEF T!TypeOK, T!NtpTick
  <2>2. \/ UNCHANGED <<owner, sockets>>
        \/ owner' = T!Deleted(ntp.timer) /\ sockets' = sockets \ {ntp.udp}
    BY <1>a, <1>4 DEF T!NtpTick, T!Delete
  <2>3. ntp'.set = ntp.set /\ ~ntp.set
    BY <1>a, <1>4 DEF T!TypeOK, T!NtpTick
  <2> QED
    BY <1>a, <2>1, <2>2, <2>3 DEF T!TypeOK, Client, T!Deleted
<1>5. CASE T!Refused
  <2>1. UNCHANGED <<owner, ntp>> /\ sockets' = sockets \ {ntp.udp}
    BY <1>5 DEF T!Refused
  <2> QED
    BY <1>a, <2>1 DEF Client
<1>6. CASE T!Answered
  <2>1. owner' = T!Deleted(ntp.timer) /\ sockets' = sockets \ {ntp.udp}
    BY <1>6 DEF T!Answered, T!Delete
  <2>2. ntp' = [ntp EXCEPT !.set = TRUE, !.cb = FALSE]
    BY <1>6 DEF T!Answered
  <2>3. ntp'.timer = ntp.timer /\ ntp'.udp = ntp.udp
    BY <2>2 DEF T!TypeOK
  <2> QED
    BY <1>a, <2>1, <2>3 DEF T!TypeOK, Client, T!Deleted
<1>7. ~T!AskedAgain
  BY DEF T!AskedAgain
<1>8. CASE UNCHANGED <<owner, ntp, sockets>>
  BY <1>b, <1>8
<1> QED
  BY <1>1, <1>2, <1>3, <1>4, <1>5, <1>6, <1>7, <1>8 DEF T!Next, T!Drop, timers

LEMMA TimersInvHolds == Spec => []TimersInv
<1>1. Init => TimersInv
  <2> SUFFICES ASSUME T!Init PROVE TimersInv
    BY DEF Init
  <2> USE BindingsAssumption DEF T!Constants, T!NTP, T!Free, T!None
  <2>1. 0 \in 0 .. NtpTimeOut
    OBVIOUS
  <2>2. T!TypeOK
    BY <2>1 DEF T!Init, T!TypeOK, T!Request
  <2>3. Owned /\ Named /\ Client
    BY DEF T!Init, Owned, Named, Client
  <2> QED
    BY <2>2, <2>3 DEF TimersInv
<1>2. TimersInv /\ [Next]_vars => TimersInv'
  BY Parts, TimersTypeStep, OwnedStep, NamedStep, ClientStep DEF TimersInv
<1> QED
  BY <1>1, <1>2, PTL DEF Spec

(* No timer calls back with a userdata that has been collected, whatever   *)
(* timers the program deletes twice and the NTP client by mistake.         *)
THEOREM CallbacksAreLive == Spec => []LiveCallbacks
<1>1. TimersInv => LiveCallbacks
  BY DEF TimersInv, Owned, LiveCallbacks, T!LiveCallbacks
<1> QED
  BY <1>1, TimersInvHolds, PTL

(* The first timer that is deleted by another is deleted by a userdata     *)
(* whose timer was deleted before, or after NTP requests overlapped.       *)
THEOREM TimersAreOwn == Spec => OwnTimers
<1>1. TimersInv /\ [Next]_vars =>
        [~strayed /\ strayed' =>
           ntpOverlapped \/ \E o \in Objects : T!Stale(o)]_timers
  BY Parts, FirstStray DEF TimersInv
<1> QED
  BY <1>1, TimersInvHolds, PTL DEF Spec, OwnTimers, T!OwnTimers, T!vars, timers

(* While the client runs, in order, the timer it remembers is its own and  *)
(* counts for the request; every tick brings the end nearer.               *)
TimerTicks ==
  T!Running /\ ~ntpOverlapped /\ ~strayed =>
    ntp.timer \in Ids /\ owner[ntp.timer] = T!NTP

GoesOn == T!Running /\ T!Running' /\ ~ntpOverlapped' /\ ~strayed'

Counts ==
  IF T!NtpTick
  THEN /\ ntp.timeout < NtpTimeOut
       /\ ntp' = [ntp EXCEPT !.timeout = ntp.timeout + 1]
  ELSE UNCHANGED ntp

TicksCount == [][GoesOn => Counts]_timers

LEMMA TickCounts ==
  ASSUME TimersInv, TimersInv', GoesOn, (T!Next \/ UNCHANGED timers)
  PROVE  Counts
<1> USE BindingsAssumption DEF Counts, T!Constants, T!NTP, T!Free, T!None
<1>1. T!TypeOK /\ T!TypeOK'
  BY DEF TimersInv
<1>2. ~ntpOverlapped /\ ~strayed
  BY <1>1 DEF GoesOn, T!TypeOK, T!Next, T!Create, T!TimerDelete, T!Drop, T!TimerGC,
         T!NtpTime, T!NtpTick,
         T!Refused, T!Answered, T!AskedAgain, T!Delete, T!Strays, timers
<1>3. /\ \A i \in Ids : owner[i] = T!NTP => ntp.timer = i
      /\ sockets \subseteq {ntp.udp}
      /\ ntp.set => \A i \in Ids : owner[i] # T!NTP
  BY <1>2 DEF TimersInv, Client
<1>4. ~(owner' = T!Deleted(ntp.timer) /\ sockets' = sockets \ {ntp.udp})
  BY <1>1, <1>3 DEF GoesOn, T!Running, T!Deleted, T!TypeOK
<1>5. CASE T!NtpTick
  <2>1. ~ntp.set /\ ~T!TimedOut /\ ntp' = [ntp EXCEPT !.timeout = @ + 1]
    BY <1>3, <1>4, <1>5 DEF T!NtpTick, T!Delete
  <2>2. ntp.timeout < NtpTimeOut
    BY <1>1, <2>1 DEF T!TypeOK, T!TimedOut
  <2> QED
    BY <1>5, <2>1, <2>2
<1>6. CASE ~T!NtpTick
  <2>1. ~T!Answered
    BY <1>4 DEF T!Answered, T!Delete
  <2>2. ~T!AskedAgain
    BY DEF GoesOn, T!AskedAgain
  <2>3. ASSUME NEW cb \in BOOLEAN, T!NtpTime(cb) PROVE FALSE
    BY <2>3 DEF GoesOn, T!NtpTime
  <2>4. UNCHANGED ntp
    BY <1>6, <2>1, <2>2, <2>3
    DEF T!Next, T!Create, T!TimerDelete, T!Drop, T!TimerGC, T!Refused, timers
  <2> QED
    BY <1>6, <2>4
<1> QED
  BY <1>5, <1>6

(* A request of NTP that goes on has a timer that ticks, and no more ticks *)
(* than NTP_TIME_OUT before it: no other step touches the count, so that   *)
(* it ends in time whatever the server does.                               *)
THEOREM RequestsAreTimed == Spec => []TimerTicks /\ TicksCount
<1>1. TimersInv => TimerTicks
  <2> SUFFICES ASSUME TimersInv, T!Running, ~ntpOverlapped, ~strayed
               PROVE  ntp.timer \in Ids /\ owner[ntp.timer] = T!NTP
    BY DEF TimerTicks
  <2> QED
    BY DEF TimersInv, Client, T!Running
<1>2. TimersInv /\ TimersInv' /\ [Next]_vars => [GoesOn => Counts]_timers
  BY Parts, TickCounts
<1> QED
  BY <1>1, <1>2, TimersInvHolds, PTL DEF Spec, TicksCount

-----------------------------------------------------------------------------
(* Https.  Until requests overlap one is in progress at most, and while    *)
(* its channel is set up, and the fields of a multipart POST are sent, the *)
(* static variables are its own.                                           *)

Single ==
  \A c, d \in Channels : H!InProgress(c) /\ H!InProgress(d) => c = d

Ready(c) ==
  channel[c] = "setting" =>
    /\ handlers = IF asked[c].method = "get" THEN "get" ELSE "post"
    /\ g_https_url = asked[c].url
    /\ asked[c].method # "get" =>
         g_postdata = asked[c].url /\ g_post_type = asked[c].method

Posting(c) ==
  channel[c] = "sent" /\ asked[c].method = "multipart" =>
    g_postdata = asked[c].url

HttpsInv ==
  /\ H!TypeOK
  /\ altered => httpsOverlapped
  /\ \/ httpsOverlapped
     \/ Single /\ \A c \in Channels : Ready(c) /\ Posting(c)

LEMMA HttpsTypeStep == H!TypeOK /\ (H!Next \/ UNCHANGED https) => H!TypeOK'
<1> SUFFICES ASSUME H!TypeOK, H!Next \/ UNCHANGED https PROVE H!TypeOK'
  OBVIOUS
<1> USE DEF H!TypeOK, H!Places, H!Methods, H!None, H!NoUrl, H!Nothing,
            H!request, H!CancelAndUnset, H!FreePostBuffers, H!SetChannel
<1>1. ASSUME NEW u \in Urls, H!HttpsGet(u) PROVE H!TypeOK'
  BY <1>1 DEF H!HttpsGet
<1>2. ASSUME NEW u \in Urls, NEW m \in H!Methods, H!HttpsPost(m, u)
      PROVE  H!TypeOK'
  BY <1>2 DEF H!HttpsPost, H!IsPost
<1>3. CASE H!PostFails
  BY <1>3 DEF H!PostFails
<1>4. CASE H!HttpsCancel
  BY <1>4 DEF H!HttpsCancel
<1>5. ASSUME NEW c \in Channels, H!SetChannelRsp(c) PROVE H!TypeOK'
  BY <1>5 DEF H!SetChannelRsp
<1>6. ASSUME NEW c \in Channels, H!PostNext(c) PROVE H!TypeOK'
  BY <1>6 DEF H!PostNext
<1>7. ASSUME NEW c \in Channels, H!UnsetChannelRsp(c) PROVE H!TypeOK'
  BY <1>7 DEF H!UnsetChannelRsp
<1>8. ASSUME NEW c \in Channels, H!RequestFails(c) PROVE H!TypeOK'
  BY <1>8 DEF H!RequestFails
<1>9. ASSUME NEW c \in Channels, H!FirstSegment(c) \/ H!NextSegment(c)
      PROVE  H!TypeOK'
  BY <1>9 DEF H!FirstSegment, H!NextSegment, H!ReadsMore
<1>10. ASSUME NEW c \in Channels, H!LastSegment(c) PROVE H!TypeOK'
  BY <1>10 DEF H!LastSegment
<1>11. CASE UNCHANGED https
  BY <1>11 DEF https
<1> QED
  BY <1>1, <1>2, <1>3, <1>4, <1>5, <1>6, <1>7, <1>8, <1>9, <1>10, <1>11
  DEF H!Next, H!Answers

LEMMA HttpsStep == HttpsInv /\ (H!Next \/ UNCHANGED https) => HttpsInv'
<1> SUFFICES ASSUME HttpsInv, H!Next \/ UNCHANGED https PROVE HttpsInv'
  OBVIOUS
<1>0. H!TypeOK'
  BY HttpsTypeStep DEF HttpsInv
<1>a. ASSUME httpsOverlapped' PROVE HttpsInv'
  BY <1>0, <1>a DEF HttpsInv
<1>b. SUFFICES ASSUME ~httpsOverlapped'
               PROVE  ~altered' /\ Single'
                        /\ (\A c \in Channels : Ready(c) /\ Posting(c))'
  BY <1>0, <1>a DEF HttpsInv
<1>c. ~httpsOverlapped
  BY <1>b DEF HttpsInv, H!TypeOK, H!Next, H!HttpsGet, H!HttpsPost, H!SetChannel,
         H!PostFails, H!HttpsCancel, H!SetChannelRsp, H!PostNext,
         H!UnsetChannelRsp, H!RequestFails, H!FirstSegment, H!NextSegment,
         H!LastSegment, H!Answers, H!request, https
<1>d. ~altered /\ Single /\ \A c \in Channels : Ready(c) /\ Posting(c)
  BY <1>c DEF HttpsInv
<1> USE <1>b, <1>c, <1>d
    DEF HttpsInv, H!TypeOK, Single, Ready, Posting, H!InProgress, H!request
<1>1. ASSUME NEW u \in Urls, H!HttpsGet(u)
      PROVE  ~altered' /\ Single'
               /\ (\A c \in Channels : Ready(c) /\ Posting(c))'
  <2>1. PICK c \in Channels :
          /\ channel[c] = "idle"
          /\ channel' = [channel EXCEPT ![c] = "setting"]
          /\ asked' = [asked EXCEPT ![c] = [method |-> "get", url |-> u]]
    BY <1>1 DEF H!HttpsGet, H!SetChannel
  <2>2. handlers' = "get" /\ g_https_url' = u /\ UNCHANGED altered
    BY <1>1 DEF H!HttpsGet, H!SetChannel
  <2>3. \A d \in Channels : ~H!InProgress(d)
    BY <1>1 DEF H!HttpsGet, H!SetChannel
  <2>4. \A d \in Channels \ {c} : channel'[d] = channel[d]
    BY <2>1
  <2>5. channel'[c] = "setting" /\ asked'[c].method = "get" /\ asked'[c].url = u
    BY <2>1
  <2>6. (\A d \in Channels : Ready(d) /\ Posting(d))'
    BY <2>2, <2>3, <2>4, <2>5
  <2> QED
    BY <2>2, <2>3, <2>4, <2>6
<1>2. ASSUME NEW u \in Urls, NEW m \in H!Methods, H!HttpsPost(m, u)
      PROVE  ~altered' /\ Single'
               /\ (\A c \in Channels : Ready(c) /\ Posting(c))'
  <2>1. PICK c \in Channels :
          /\ channel[c] = "idle"
          /\ channel' = [channel EXCEPT ![c] = "setting"]
          /\ asked' = [asked EXCEPT ![c] = [method |-> m, url |-> u]]
    BY <1>2 DEF H!HttpsPost, H!SetChannel
  <2>2. /\ m # "get" /\ handlers' = "post" /\ g_https_url' = u
        /\ g_postdata' = u /\ g_post_type' = m /\ UNCHANGED altered
    BY <1>2 DEF H!HttpsPost, H!IsPost, H!SetChannel
  <2>3. \A d \in Channels : ~H!InProgress(d)
    BY <1>2 DEF H!HttpsPost, H!SetChannel
  <2>4. \A d \in Channels \ {c} : channel'[d] = channel[d]
    BY <2>1
  <2>5. channel'[c] = "setting" /\ asked'[c].method = m /\ asked'[c].url = u
    BY <2>1
  <2>6. (\A d \in Channels : Ready(d) /\ Posting(d))'
    BY <2>2, <2>3, <2>4, <2>5
  <2> QED
    BY <2>2, <2>3, <2>4, <2>6
<1>3. CASE H!PostFails
  BY <1>3 DEF H!PostFails
<1>4. CASE H!HttpsCancel
  <2>1. \A d \in Channels \ {g_channel_id} : ~H!InProgress(d)
    BY <1>4 DEF H!HttpsCancel
  <2>2. \A d \in Channels :
          channel'[d] = IF d = g_channel_id /\ channel[d] # "idle"
                        THEN "unsetting"
                        ELSE IF /\ d = g_request_id
                                /\ channel[d] \in {"sent", "reading"}
                        THEN "left" ELSE channel[d]
    BY <1>4 DEF H!HttpsCancel, H!CancelAndUnset
  <2>3. \A d \in Channels \ {g_channel_id} : ~(H!InProgress(d))'
    BY <2>1, <2>2
  <2>4. channel'[g_channel_id] \in {"idle", "unsetting"}
          \/ g_channel_id \notin Channels
    BY <2>2
  <2>5. Single'
    BY <2>3
  <2>6. (\A d \in Channels : Ready(d) /\ Posting(d))'
    BY <2>3, <2>4
  <2> QED
    BY <1>4, <2>5, <2>6 DEF H!HttpsCancel
<1>5. ASSUME NEW c \in Channels, H!SetChannelRsp(c)
      PROVE  ~altered' /\ Single'
               /\ (\A d \in Channels : Ready(d) /\ Posting(d))'
  <2>1. H!Outgoing = asked[c]
    BY <1>5 DEF H!SetChannelRsp, H!Outgoing
  <2> QED
    BY <1>5, <2>1 DEF H!SetChannelRsp, H!CancelAndUnset
<1>6. ASSUME NEW c \in Channels, H!PostNext(c)
      PROVE  ~altered' /\ Single'
               /\ (\A d \in Channels : Ready(d) /\ Posting(d))'
  BY <1>6 DEF H!PostNext
<1>7. ASSUME NEW c \in Channels, H!UnsetChannelRsp(c)
      PROVE  ~altered' /\ Single'
               /\ (\A d \in Channels : Ready(d) /\ Posting(d))'
  BY <1>7 DEF H!UnsetChannelRsp
<1>8. ASSUME NEW c \in Channels, channel[c] \in {"sent", "reading"},
             H!CancelAndUnset(c, g_channel_id), UNCHANGED <<H!request, altered>>
      PROVE  ~altered' /\ Single'
               /\ (\A d \in Channels : Ready(d) /\ Posting(d))'
  <2>1. \A d \in Channels : H!InProgress(d) => d = c
    BY <1>8
  <2>2. \A d \in Channels :
          channel'[d] = IF d = g_channel_id /\ channel[d] # "idle"
                        THEN "unsetting"
                        ELSE IF d = c /\ channel[d] \in {"sent", "reading"}
                        THEN "left" ELSE channel[d]
    BY <1>8 DEF H!CancelAndUnset
  <2>3. \A d \in Channels : (H!InProgress(d))' => d = g_channel_id
    BY <1>8, <2>1, <2>2
  <2>4. \A d \in Channels : channel'[d] \notin {"setting", "sent"}
    BY <1>8, <2>1, <2>2
  <2> QED
    BY <1>8, <2>3, <2>4
<1>9. ASSUME NEW c \in Channels, NEW p \in {"reading", "short"},
             channel[c] \in {"sent", "reading"},
             channel' = [channel EXCEPT ![c] = p],
             UNCHANGED <<H!request, altered>>
      PROVE  ~altered' /\ Single'
               /\ (\A d \in Channels : Ready(d) /\ Posting(d))'
  BY <1>9
<1>11. ASSUME NEW c \in Channels, H!FirstSegment(c)
       PROVE  ~altered' /\ Single'
                /\ (\A d \in Channels : Ready(d) /\ Posting(d))'
  <2>1. channel[c] = "sent" /\ UNCHANGED <<H!request, altered>>
    BY <1>11 DEF H!FirstSegment
  <2>2. CASE H!CancelAndUnset(c, g_channel_id)
    BY <1>8, <2>1, <2>2
  <2>3. CASE \E p \in {"reading", "short"} :
               channel' = [channel EXCEPT ![c] = p]
    BY <1>9, <2>1, <2>3
  <2> QED
    BY <1>11, <2>2, <2>3 DEF H!FirstSegment, H!ReadsMore
<1>12. ASSUME NEW c \in Channels, H!NextSegment(c)
       PROVE  ~altered' /\ Single'
                /\ (\A d \in Channels : Ready(d) /\ Posting(d))'
  <2>1. channel[c] = "reading" /\ UNCHANGED <<H!request, altered>>
    BY <1>12 DEF H!NextSegment
  <2>2. CASE H!CancelAndUnset(c, g_channel_id)
    BY <1>8, <2>1, <2>2
  <2>3. CASE channel' = [channel EXCEPT ![c] = "reading"]
    BY <1>9, <2>1, <2>3
  <2> QED
    BY <1>12, <2>2, <2>3 DEF H!NextSegment, H!ReadsMore
<1>13. ASSUME NEW c \in Channels, H!RequestFails(c) \/ H!LastSegment(c)
       PROVE  ~altered' /\ Single'
                /\ (\A d \in Channels : Ready(d) /\ Posting(d))'
  <2>1. /\ channel[c] \in {"sent", "reading"}
        /\ H!CancelAndUnset(c, g_channel_id)
        /\ UNCHANGED <<H!request, altered>>
    BY <1>13 DEF H!RequestFails, H!LastSegment
  <2> QED
    BY <1>8, <2>1
<1>10. CASE UNCHANGED https
  BY <1>10 DEF https
<1> QED
  BY <1>1, <1>2, <1>3, <1>4, <1>5, <1>6, <1>7, <1>10, <1>11, <1>12, <1>13
  DEF H!Next, H!Answers

LEMMA HttpsInvInit == Init => HttpsInv
<1> SUFFICES ASSUME H!Init PROVE HttpsInv
  BY DEF Init
<1>1. H!TypeOK
  BY DEF H!Init, H!TypeOK, H!Places, H!Methods, H!None, H!NoUrl, H!Nothing
<1>2. \A c \in Channels : channel[c] = "idle"
  BY DEF H!Init
<1>3. Single /\ \A c \in Channels : Ready(c) /\ Posting(c)
  BY <1>2 DEF H!InProgress, Single, Ready, Posting
<1>4. ~altered
  BY DEF H!Init
<1> QED
  BY <1>1, <1>3, <1>4 DEF HttpsInv

LEMMA HttpsInvHolds == Spec => []HttpsInv
<1>1. HttpsInv /\ [Next]_vars => HttpsInv'
  BY Parts, HttpsStep
<1> QED
  BY HttpsInvInit, <1>1, PTL DEF Spec

(* What is sent on a channel is what the program asked for, unless it      *)
(* starts a request, or cancels one, while another is in progress.         *)
THEOREM WhatWasAskedIsSent == Spec => []SendsWhatWasAsked
<1>1. HttpsInv => SendsWhatWasAsked
  BY DEF HttpsInv, SendsWhatWasAsked, H!SendsWhatWasAsked
<1> QED
  BY <1>1, HttpsInvHolds, PTL

(* Until requests overlap, a GET whose answer is awaited has the channel   *)
(* that is remembered, which is what gives it back.                        *)
Remembered ==
  \A c \in Channels :
    asked[c].method = "get" /\ channel[c] \in {"sent", "reading"} =>
      g_channel_id = c

GetInv == HttpsInv /\ (httpsOverlapped \/ Remembered)

(* The way of a channel, on which nothing goes back.                       *)
After ==
  [setting |-> {"sent", "unsetting"},
   sent |-> {"reading", "short", "unsetting"},
   reading |-> {"unsetting"},
   unsetting |-> {"idle"}]

Forward(c) ==
  asked[c].method = "get" /\ H!InProgress(c) /\ channel'[c] # channel[c] =>
    channel'[c] \in After[channel[c]]

GetsGoForward ==
  [][~httpsOverlapped' => \A c \in Channels : Forward(c)]_https

LEMMA GetStep ==
  ASSUME GetInv, H!Next \/ UNCHANGED https, ~httpsOverlapped'
  PROVE  Remembered' /\ \A c \in Channels : Forward(c)
<1>1. ~httpsOverlapped
  BY DEF GetInv, HttpsInv, H!TypeOK, H!Next, H!HttpsGet, H!HttpsPost, H!SetChannel,
         H!PostFails, H!HttpsCancel, H!SetChannelRsp, H!PostNext,
         H!UnsetChannelRsp, H!RequestFails, H!FirstSegment, H!NextSegment,
         H!LastSegment, H!Answers, H!request, https
<1>2. H!TypeOK /\ Single /\ Remembered /\ \A c \in Channels : Ready(c)
  BY <1>1 DEF GetInv, HttpsInv
<1> USE <1>2
    DEF H!TypeOK, H!Places, Single, Remembered, Ready, Forward, After, H!InProgress,
        H!request
<1>3. ASSUME NEW c \in Channels, NEW m \in H!Methods, NEW u \in Urls,
             H!SetChannel(m, u), UNCHANGED g_channel_id
      PROVE  Remembered' /\ \A d \in Channels : Forward(d)
  <2>1. PICK d \in Channels :
          /\ channel[d] = "idle"
          /\ channel' = [channel EXCEPT ![d] = "setting"]
          /\ asked' = [asked EXCEPT ![d] = [method |-> m, url |-> u]]
    BY <1>3 DEF H!SetChannel
  <2>2. channel'[d] = "setting"
          /\ \A e \in Channels \ {d} : channel'[e] = channel[e] /\ asked'[e] = asked[e]
    BY <2>1
  <2> QED
    BY <1>3, <2>1, <2>2
<1>4. ASSUME NEW u \in Urls,
             H!HttpsGet(u) \/ \E m \in H!Methods : H!HttpsPost(m, u)
      PROVE  Remembered' /\ \A d \in Channels : Forward(d)
  <2>1. \E m \in H!Methods : H!SetChannel(m, u) /\ UNCHANGED g_channel_id
    BY <1>4 DEF H!HttpsGet, H!HttpsPost, H!Methods
  <2> QED
    BY <1>3, <2>1
<1>5. CASE UNCHANGED <<channel, asked, g_channel_id>>
  BY <1>5
<1>6. CASE H!HttpsCancel
  <2>1. \A d \in Channels \ {g_channel_id} : ~H!InProgress(d)
    BY <1>6 DEF H!HttpsCancel
  <2>2. \A d \in Channels :
          channel'[d] = IF d = g_channel_id /\ channel[d] # "idle"
                        THEN "unsetting"
                        ELSE IF /\ d = g_request_id
                                /\ channel[d] \in {"sent", "reading"}
                        THEN "left" ELSE channel[d]
    BY <1>6 DEF H!HttpsCancel, H!CancelAndUnset
  <2>3. \A d \in Channels : channel'[d] \notin {"sent", "reading"}
    BY <2>1, <2>2
  <2>4. \A d \in Channels : H!InProgress(d) => channel'[d] = "unsetting"
    BY <2>1, <2>2
  <2> QED
    BY <2>3, <2>4
<1>7. ASSUME NEW c \in Channels, H!SetChannelRsp(c)
      PROVE  Remembered' /\ \A d \in Channels : Forward(d)
  <2>1. /\ channel[c] = "setting" /\ UNCHANGED asked
        /\ asked[c].method = "get" => g_channel_id' = c
    BY <1>7 DEF H!SetChannelRsp
  <2>2. \A d \in Channels \ {c} : ~H!InProgress(d)
    BY <2>1
  <2>3. /\ channel'[c] \in {"sent", "unsetting"}
        /\ \A d \in Channels \ {c} : channel'[d] = channel[d]
    BY <1>7, <2>2 DEF H!SetChannelRsp, H!CancelAndUnset, H!None
  <2> QED
    BY <2>1, <2>2, <2>3
<1>8. ASSUME NEW c \in Channels, H!UnsetChannelRsp(c)
      PROVE  Remembered' /\ \A d \in Channels : Forward(d)
  <2>1. /\ channel[c] = "unsetting" /\ UNCHANGED g_channel_id
        /\ channel' = [channel EXCEPT ![c] = "idle"]
        /\ asked' = [asked EXCEPT ![c] = H!Nothing]
    BY <1>8 DEF H!UnsetChannelRsp
  <2> QED
    BY <2>1
<1>9. ASSUME NEW c \in Channels, channel[c] \in {"sent", "reading"},
             H!CancelAndUnset(c, g_channel_id), UNCHANGED asked
      PROVE  Remembered' /\ \A d \in Channels : Forward(d)
  <2>1. \A d \in Channels \ {c} : ~H!InProgress(d)
    BY <1>9
  <2>2. \A d \in Channels :
          channel'[d] = IF d = g_channel_id /\ channel[d] # "idle"
                        THEN "unsetting"
                        ELSE IF d = c /\ channel[d] \in {"sent", "reading"}
                        THEN "left" ELSE channel[d]
    BY <1>9 DEF H!CancelAndUnset
  <2>3. \A d \in Channels : channel'[d] \notin {"sent", "reading"}
    BY <1>9, <2>1, <2>2
  <2>4. asked[c].method = "get" => channel'[c] = "unsetting"
    BY <1>9, <2>2
  <2> QED
    BY <1>9, <2>1, <2>3, <2>4
<1>10. ASSUME NEW c \in Channels, NEW p \in {"reading", "short"},
              channel[c] = "sent" \/ (channel[c] = "reading" /\ p = "reading"),
              channel' = [channel EXCEPT ![c] = p],
              UNCHANGED <<asked, g_channel_id>>
       PROVE  Remembered' /\ \A d \in Channels : Forward(d)
  <2>1. channel'[c] = p /\ \A d \in Channels \ {c} : channel'[d] = channel[d]
    BY <1>10
  <2> QED
    BY <1>10, <2>1
<1>11. ASSUME NEW c \in Channels,
              \/ H!FirstSegment(c) \/ H!NextSegment(c)
              \/ H!RequestFails(c) \/ H!LastSegment(c)
       PROVE  Remembered' /\ \A d \in Channels : Forward(d)
  <2>1. channel[c] \in {"sent", "reading"} /\ UNCHANGED asked
    BY <1>11 DEF H!FirstSegment, H!NextSegment, H!RequestFails, H!LastSegment
  <2>2. CASE H!CancelAndUnset(c, g_channel_id)
    BY <1>9, <2>1, <2>2
  <2>3. CASE ~H!CancelAndUnset(c, g_channel_id)
    <3>1. \/ H!FirstSegment(c) /\ channel[c] = "sent"
          \/ H!NextSegment(c) /\ channel[c] = "reading"
      BY <1>11, <2>3 DEF H!FirstSegment, H!NextSegment, H!RequestFails,
                         H!LastSegment
    <3>2. UNCHANGED g_channel_id
      BY <3>1 DEF H!FirstSegment, H!NextSegment
    <3>3. CASE channel' = [channel EXCEPT ![c] = "reading"]
      BY <1>10, <2>1, <3>1, <3>2, <3>3
    <3>4. CASE channel[c] = "sent" /\ channel' = [channel EXCEPT ![c] = "short"]
      BY <1>10, <2>1, <3>2, <3>4
    <3> QED
      BY <2>3, <3>1, <3>3, <3>4 DEF H!FirstSegment, H!NextSegment, H!ReadsMore
  <2> QED
    BY <2>2, <2>3
<1> QED
  BY <1>4, <1>5, <1>6, <1>7, <1>8, <1>11
  DEF H!Next, H!Answers, H!PostFails, H!PostNext, https

(* As long as requests do not overlap, the channel of a GET goes forward   *)
(* from its setup to its return, and leaves this way only with an answer   *)
(* of one segment: no callback loses it or goes back.                      *)
THEOREM ChannelsGoForward == Spec => GetsGoForward
<1>1. Init => GetInv
  <2>1. Init => HttpsInv
    BY HttpsInvInit
  <2>2. Init => Remembered
    BY DEF Init, H!Init, Remembered
  <2> QED
    BY <2>1, <2>2 DEF GetInv
<1>2. GetInv /\ [Next]_vars => GetInv'
  BY Parts, HttpsStep, GetStep DEF GetInv
<1>3. GetInv /\ [Next]_vars =>
        [~httpsOverlapped' => \A c \in Channels : Forward(c)]_https
  BY Parts, GetStep
<1> QED
  BY <1>1, <1>2, <1>3, PTL DEF Spec, GetsGoForward

-----------------------------------------------------------------------------
(* Bluetooth.  What is connected is a connection of a bound service, and a *)
(* service in the SDK has a handle, so that it is not opened a second      *)
(* time.                                                                   *)
Linked == g_btspp_connected => g_btspp_id \in links /\ spp = "bound"
Handled   == spp # "closed" => g_btspp_hdl
OnConsole == retarget_target = "bluetooth" => g_btspp_connected

PortInv == B!TypeOK /\ Linked /\ Handled /\ OnConsole /\ B!BufferFollowsService

LEMMA PortTypeStep == B!TypeOK /\ (B!Next \/ UNCHANGED bluetooth) => B!TypeOK'
<1> SUFFICES ASSUME B!TypeOK, (B!Next \/ UNCHANGED bluetooth) PROVE B!TypeOK'
  OBVIOUS
<1> USE DEF B!TypeOK, B!console, B!service, B!Targets
<1>1. CASE B!BtStart \/ B!Deactivate
  BY <1>1 DEF B!BtStart, B!Deactivate
<1>2. CASE B!SppStart
  BY <1>2 DEF B!SppStart, B!SppStartFails
<1>3. CASE B!BtSppStop \/ B!BtStop
  BY <1>3 DEF B!BtSppStop, B!BtStop, B!SppStop, B!ConsoleLeaves
<1>4. ASSUME NEW t \in B!Targets, B!Retarget(t) PROVE B!TypeOK'
  BY <1>4 DEF B!Retarget
<1>5. ASSUME NEW c \in Connections, B!Authorize(c) PROVE B!TypeOK'
  BY <1>5 DEF B!Authorize
<1>6. ASSUME NEW c \in Connections, B!Disconnect(c) PROVE B!TypeOK'
  BY <1>6 DEF B!Disconnect, B!ConsoleLeaves
<1>7. CASE UNCHANGED bluetooth
  BY <1>7 DEF bluetooth
<1> QED
  BY <1>1, <1>2, <1>3, <1>4, <1>5, <1>6, <1>7 DEF B!Next

LEMMA PortStep == PortInv /\ (B!Next \/ UNCHANGED bluetooth) => PortInv'
<1> SUFFICES ASSUME PortInv, (B!Next \/ UNCHANGED bluetooth)
             PROVE  (Linked /\ Handled /\ OnConsole /\ B!BufferFollowsService)'
  BY PortTypeStep DEF PortInv
<1> USE DEF PortInv, B!TypeOK, Linked, Handled, OnConsole,
            B!BufferFollowsService,
            B!console, B!service
<1>0. ASSUME UNCHANGED <<g_btspp_hdl, g_btspp_buf, spp, g_btspp_connected,
                         g_btspp_id, retarget_target, links>>
      PROVE  (Linked /\ Handled /\ OnConsole /\ B!BufferFollowsService)'
  BY <1>0
<1>1. CASE B!BtStart \/ B!Deactivate
  BY <1>0, <1>1 DEF B!BtStart, B!Deactivate
<1>2. CASE B!SppStart
  BY <1>2 DEF B!SppStart, B!SppStartFails
<1>3. CASE B!BtSppStop \/ B!BtStop
  BY <1>3 DEF B!BtSppStop, B!BtStop, B!SppStop, B!ConsoleLeaves
<1>4. ASSUME NEW t \in B!Targets, B!Retarget(t)
      PROVE  (Linked /\ Handled /\ OnConsole /\ B!BufferFollowsService)'
  BY <1>4 DEF B!Retarget
<1>5. ASSUME NEW c \in Connections, B!Authorize(c)
      PROVE  (Linked /\ Handled /\ OnConsole /\ B!BufferFollowsService)'
  BY <1>5 DEF B!Authorize
<1>6. ASSUME NEW c \in Connections, B!Disconnect(c)
      PROVE  (Linked /\ Handled /\ OnConsole /\ B!BufferFollowsService)'
  BY <1>6 DEF B!Disconnect, B!ConsoleLeaves
<1>7. CASE UNCHANGED bluetooth
  BY <1>0, <1>7 DEF bluetooth
<1> QED
  BY <1>1, <1>2, <1>3, <1>4, <1>5, <1>6, <1>7 DEF B!Next

(* The console, the connection, the buffer and the service of the          *)
(* Bluetooth serial port belong together.                                  *)
THEOREM PortIsAlwaysWhole == Spec => []PortIsWhole
<1>1. Init => PortInv
  BY DEF Init, B!Init, PortInv, B!TypeOK, B!Targets, Linked, Handled, OnConsole,
         B!BufferFollowsService
<1>2. PortInv => PortIsWhole
  BY DEF PortInv, PortIsWhole, Linked, OnConsole, B!PortIsWhole,
         B!ConsoleIsConnected
<1>3. PortInv /\ [Next]_vars => PortInv'
  BY Parts, PortStep
<1> QED
  BY <1>1, <1>2, <1>3, PTL DEF Spec

-----------------------------------------------------------------------------
(* Tcp.  Until connections with data overlap, one that waits to be         *)
(* connected has the buffer; until a peer closes one, the buffer is        *)
(* allocated.                                                              *)
Waiting == {c \in data : link[c] # "none"}

TcpInv ==
  /\ P!TypeOK
  /\ P!SendsItsData
  /\ freed => hungUp
  /\ ~tcpOverlapped => \A c \in Waiting : send_buf = c

LEMMA TcpTypeStep == P!TypeOK /\ (P!Next \/ UNCHANGED tcp) => P!TypeOK'
<1> SUFFICES ASSUME P!TypeOK, (P!Next \/ UNCHANGED tcp) PROVE P!TypeOK'
  OBVIOUS
<1> USE BindingsAssumption
    DEF P!Constants, P!TypeOK, P!Dangling, P!buffer, P!history, P!NewBuffer
<1>1. ASSUME NEW c \in Connections, P!ConnectWithFunction(c) PROVE P!TypeOK'
  BY <1>1 DEF P!ConnectWithFunction
<1>2. ASSUME NEW c \in Connections, P!ConnectWithData(c) PROVE P!TypeOK'
  BY <1>2 DEF P!ConnectWithData
<1>3. ASSUME NEW c \in Connections, P!Connected(c) PROVE P!TypeOK'
  BY <1>3 DEF P!Connected
<1>4. ASSUME NEW c \in Connections, P!PipeClosed(c) PROVE P!TypeOK'
  BY <1>4 DEF P!PipeClosed
<1>5. ASSUME NEW c \in Connections, P!Closed(c) PROVE P!TypeOK'
  BY <1>5 DEF P!Closed
<1>6. CASE UNCHANGED tcp
  BY <1>6 DEF tcp
<1> QED
  BY <1>1, <1>2, <1>3, <1>4, <1>5, <1>6 DEF P!Next

LEMMA TcpStep == TcpInv /\ (P!Next \/ UNCHANGED tcp) => TcpInv'
<1> SUFFICES ASSUME TcpInv, (P!Next \/ UNCHANGED tcp) PROVE TcpInv'
  OBVIOUS
<1>0. P!TypeOK'
  BY TcpTypeStep DEF TcpInv
<1> USE <1>0, BindingsAssumption
    DEF P!Constants, TcpInv, P!TypeOK, P!SendsItsData, Waiting,
        P!Dangling, P!buffer,
        P!history, P!NewBuffer
<1>1. ASSUME NEW c \in Connections, P!ConnectWithFunction(c) PROVE TcpInv'
  BY <1>1 DEF P!ConnectWithFunction
<1>2. ASSUME NEW c \in Connections, P!ConnectWithData(c) PROVE TcpInv'
  BY <1>2 DEF P!ConnectWithData
<1>3. ASSUME NEW c \in Connections, P!Connected(c) PROVE TcpInv'
  BY <1>3 DEF P!Connected
<1>4. ASSUME NEW c \in Connections, P!PipeClosed(c) PROVE TcpInv'
  BY <1>4 DEF P!PipeClosed
<1>5. ASSUME NEW c \in Connections, P!Closed(c) PROVE TcpInv'
  BY <1>5 DEF P!Closed
<1>6. CASE UNCHANGED tcp
  BY <1>6 DEF tcp
<1> QED
  BY <1>1, <1>2, <1>3, <1>4, <1>5, <1>6 DEF P!Next

(* A connection sends the data it was made with unless another with data   *)
(* overlaps it, from a buffer that is allocated unless a peer has closed   *)
(* one.                                                                    *)
THEOREM OwnDataIsSent == Spec => []SendsItsData
<1>1. Init => TcpInv
  BY DEF Init, P!Init, TcpInv, P!TypeOK, P!SendsItsData, Waiting
<1>2. TcpInv => SendsItsData
  BY DEF TcpInv, SendsItsData
<1>3. TcpInv /\ [Next]_vars => TcpInv'
  BY Parts, TcpStep
<1> QED
  BY <1>1, <1>2, <1>3, PTL DEF Spec

-----------------------------------------------------------------------------
(* Calls.  Until calls cross there is one call at most.                    *)
Alone == crossed \/ \A c, d \in C!InNetwork : c = d

CallsInv == C!TypeOK /\ Alone /\ C!CanHangUp

LEMMA CallsTypeStep == C!TypeOK /\ (C!Next \/ UNCHANGED calls) => C!TypeOK'
<1> SUFFICES ASSUME C!TypeOK, (C!Next \/ UNCHANGED calls) PROVE C!TypeOK'
  OBVIOUS
<1> USE DEF C!TypeOK, C!Phases, C!Status, C!Actions, C!Phase, C!Begins,
            C!Answer, C!Indication
<1>1. ASSUME NEW c \in Numbers,
             C!GsmCall(c) \/ C!Incoming(c) \/ C!Outgoing(c) \/ C!Connected(c)
               \/ C!CallEnded(c)
      PROVE  C!TypeOK'
  BY <1>1 DEF C!GsmCall, C!Incoming, C!Outgoing, C!Connected, C!CallEnded
<1>2. CASE C!GsmAnswer \/ C!GsmHang
  BY <1>2 DEF C!GsmAnswer, C!GsmHang
<1>3. ASSUME NEW a \in {"dial", "accept"}, C!Accepted(a) PROVE C!TypeOK'
  BY <1>3 DEF C!Accepted
<1>4. ASSUME NEW a \in {"dial", "accept"}, C!Refused(a) PROVE C!TypeOK'
  BY <1>4 DEF C!Refused
<1>5. CASE C!EndAnswered
  BY <1>5 DEF C!EndAnswered
<1>6. CASE UNCHANGED calls
  BY <1>6 DEF calls
<1> QED
  BY <1>1, <1>2, <1>3, <1>4, <1>5, <1>6 DEF C!Next, C!Answers

LEMMA CallsStep == CallsInv /\ (C!Next \/ UNCHANGED calls) => CallsInv'
<1> SUFFICES ASSUME CallsInv, (C!Next \/ UNCHANGED calls) PROVE CallsInv'
  OBVIOUS
<1>0. C!TypeOK'
  BY CallsTypeStep DEF CallsInv
<1> USE <1>0 DEF CallsInv, C!TypeOK, C!Phases, C!Phase, C!Begins,
            C!Answer, C!Indication,
            Alone, C!CanHangUp, C!InNetwork, C!Active
<1>1. ASSUME NEW c \in Numbers, C!GsmCall(c) PROVE CallsInv'
  BY <1>1 DEF C!GsmCall
<1>2. ASSUME NEW c \in Numbers, C!Incoming(c) PROVE CallsInv'
  BY <1>2 DEF C!Incoming
<1>3. ASSUME NEW c \in Numbers, C!Outgoing(c) \/ C!Connected(c) PROVE CallsInv'
  BY <1>3 DEF C!Outgoing, C!Connected
<1>4. ASSUME NEW c \in Numbers, C!CallEnded(c) PROVE CallsInv'
  BY <1>4 DEF C!CallEnded
<1>5. CASE C!GsmAnswer \/ C!GsmHang
  BY <1>5 DEF C!GsmAnswer, C!GsmHang
<1>6. ASSUME NEW a \in {"dial", "accept"}, C!Accepted(a) PROVE CallsInv'
  BY <1>6 DEF C!Accepted
<1>7. ASSUME NEW a \in {"dial", "accept"}, C!Refused(a) PROVE CallsInv'
  BY <1>7 DEF C!Refused
<1>8. CASE C!EndAnswered
  BY <1>8 DEF C!EndAnswered
<1>9. CASE UNCHANGED calls
  BY <1>9 DEF calls
<1> QED
  BY <1>1, <1>2, <1>3, <1>4, <1>5, <1>6, <1>7, <1>8, <1>9 DEF C!Next, C!Answers

(* A call that goes on can be hung up unless calls cross, an action is     *)
(* refused or an answer comes late.                                        *)
THEOREM CallsCanBeHungUp == Spec => []CanHangUp
<1>1. Init => CallsInv
  BY DEF Init, C!Init, CallsInv, C!TypeOK, C!Phases, C!Status, Alone,
         C!CanHangUp, C!InNetwork, C!Active
<1>2. CallsInv => CanHangUp
  BY DEF CallsInv, CanHangUp
<1>3. CallsInv /\ [Next]_vars => CallsInv'
  BY Parts, CallsStep
<1> QED
  BY <1>1, <1>2, <1>3, PTL DEF Spec

-----------------------------------------------------------------------------
(* Every variable of every binding keeps its type.                         *)
THEOREM TypeCorrect == Spec => []TypeOK
<1>1. Init => TypeOK
  <2>1. Init => T!TypeOK
    <3> SUFFICES ASSUME T!Init PROVE T!TypeOK
      BY DEF Init
    <3> USE BindingsAssumption DEF T!Constants, T!NTP, T!Free, T!None
    <3>1. 0 \in 0 .. NtpTimeOut
      OBVIOUS
    <3> QED
      BY <3>1 DEF T!Init, T!TypeOK, T!Request
  <2>2. Init => H!TypeOK
    <3> SUFFICES ASSUME H!Init PROVE H!TypeOK
      BY DEF Init
    <3> QED
      BY DEF H!Init, H!TypeOK, H!Places, H!Methods, H!None, H!NoUrl, H!Nothing
  <2>3. Init => B!TypeOK
    BY DEF Init, B!Init, B!TypeOK, B!Targets
  <2>4. Init => P!TypeOK
    BY DEF Init, P!Init, P!TypeOK
  <2>5. Init => C!TypeOK
    BY DEF Init, C!Init, C!TypeOK, C!Phases, C!Status
  <2> QED
    BY <2>1, <2>2, <2>3, <2>4, <2>5, SearchTypeInit, SensorsTypeInit DEF TypeOK
<1>2. TypeOK /\ [Next]_vars => TypeOK'
  BY Parts, SearchPart, SensorsPart, TimersTypeStep, HttpsTypeStep, PortTypeStep, TcpTypeStep,
     CallsTypeStep, SearchTypeStep, SensorsTypeStep DEF TypeOK
<1> QED
  BY <1>1, <1>2, PTL DEF Spec
=============================================================================
