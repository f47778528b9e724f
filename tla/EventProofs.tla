----------------------------- MODULE EventProofs ----------------------------
(***************************************************************************)
(* Event is type correct, calls every callback at most once and not before *)
(* its status, and lets no waiter overtake the callbacks of a completion,  *)
(* for any events, hosts, callbacks and wait lists.                        *)
(***************************************************************************)
EXTENDS Event, TLAPS

(* The signal of status s has entered the Monitor of e, now or before: the *)
(* history of an event, read off the variables of those who signal.        *)
Entered(e, s) ==
  \/ s = SUBMITTED /\ e \in submitted
  \/ s = RUNNING /\ e \in Internal /\ phase[e] > 0
  \/ s <= COMPLETE /\ e \in Internal /\ phase[e] = 2
  \/ s <= COMPLETE /\ e \in User /\ status[e] <= COMPLETE

(* It has entered and has not left.                                        *)
Signalling(e, s) == mon[e] # None /\ mon[e].s = s

RegInv == \A c \in Callbacks :
  /\ calls[c] \in {0, 1}
  /\ reg[c] = None => c \notin stored /\ calls[c] = 0
  /\ reg[c] # None /\ c \notin stored => calls[c] = 1

CallInv == \A c \in Callbacks, e \in Events, t \in CallbackTypes :
  reg[c] = <<e, t>> =>
    /\ calls[c] = 1 => status[e] <= t
    /\ c \in stored /\ calls[c] = 1 => Entered(e, t) /\ ~ Signalling(e, t)
    /\ t = COMPLETE /\ status[e] = COMPLETE
         => calls[c] = 1 \/ Signalling(e, COMPLETE)

SignalInv == \A e \in Events :
  /\ mon[e] # None => Entered(e, mon[e].s) /\ status[e] <= mon[e].s
  /\ e \in Internal /\ status[e] <= COMPLETE => phase[e] = 2

HostInv == \A h \in Hosts :
  /\ pc[h] \in {"check", "blocked"} =>
       list[h] \in WaitArgs /\ idx[h] \in 1 .. Len(list[h])
  /\ \A i \in 1 .. Len(list[h]) : i < idx[h] =>
       status[list[h][i]] <= COMPLETE /\ ~ Signalling(list[h][i], COMPLETE)

Inv == TypeOK /\ RegInv /\ CallInv /\ SignalInv /\ HostInv

USE DEF QUEUED, SUBMITTED, RUNNING, COMPLETE, FAILED, CallbackTypes

-----------------------------------------------------------------------------
(* The elements of a wait list are events. *)
LEMMA ListEvents ==
  ASSUME TypeOK, NEW h \in Hosts, NEW i \in 1 .. Len(list[h])
  PROVE  list[h][i] \in Events
BY EventsAssumption DEF TypeOK

LEMMA ListIsSeq ==
  ASSUME TypeOK, NEW h \in Hosts
  PROVE  list[h] \in Seq(Events) /\ Len(list[h]) \in Nat
<1>1. list[h] \in WaitArgs \/ list[h] = <<>>
  BY DEF TypeOK
<1>2. CASE list[h] \in WaitArgs
  BY <1>2, EventsAssumption
<1>3. CASE list[h] = <<>>
  BY <1>3
<1> QED
  BY <1>1, <1>2, <1>3

(* The statuses of CallbackTypes are numbers.                              *)
LEMMA InitInv == Init => Inv
<1> SUFFICES ASSUME Init PROVE Inv
  OBVIOUS
<1>1. TypeOK
  BY EventsAssumption DEF Init, TypeOK, Events
<1>2. RegInv
  BY DEF Init, RegInv
<1>3. CallInv
  BY EventsAssumption DEF Init, CallInv
<1>4. SignalInv
  BY DEF Init, SignalInv, Events
<1>5. HostInv
  BY DEF Init, HostInv
<1> QED
  BY <1>1, <1>2, <1>3, <1>4, <1>5 DEF Inv

-----------------------------------------------------------------------------
(* The first half of Signal, whoever signals: the status was not signalled *)
(* before, and from now on it was.                                         *)
LEMMA EnterInv ==
  ASSUME Inv, TypeOK',
         NEW e \in Events, NEW p \in Hosts \cup {None}, NEW s \in FAILED .. SUBMITTED,
         SignalEnter(e, p, s),
         ~ Entered(e, s), Entered(e, s)',
         \A f \in Events, x \in FAILED .. SUBMITTED : Entered(f, x) => Entered(f, x)',
         e \in Internal /\ s <= COMPLETE => phase'[e] = 2,
         UNCHANGED callVars, UNCHANGED <<list, idx>>,
         \A h \in Hosts : pc'[h] \in {"check", "blocked"} => pc'[h] = pc[h]
  PROVE  RegInv' /\ CallInv' /\ SignalInv' /\ HostInv'
<1> USE DEF Inv
<1>0. /\ \A f \in Events : f # e => mon'[f] = mon[f] /\ status'[f] = status[f]
      /\ mon[e] = None /\ mon'[e] = [by |-> p, s |-> s] /\ mon'[e] # None
      /\ mon'[e].s = s
      /\ status'[e] = IF status[e] > s THEN s ELSE status[e]
      /\ status[e] \in FAILED .. QUEUED
  BY EventsAssumption DEF SignalEnter, TypeOK
<1>a. \A f \in Events, x \in FAILED .. SUBMITTED :
         Signalling(f, x)' <=> IF f = e THEN x = s ELSE Signalling(f, x)
  BY <1>0 DEF Signalling
<1>b. \A f \in Events : status'[f] <= status[f] /\ status[f] \in Int /\ status'[f] \in Int
  BY <1>0 DEF TypeOK
<1>1. RegInv'
  BY DEF RegInv, callVars
<1>2. CallInv'
  <2> SUFFICES ASSUME NEW c \in Callbacks, NEW f \in Events, NEW t \in CallbackTypes,
                      reg[c] = <<f, t>>
               PROVE  /\ calls[c] = 1 => status'[f] <= t
                      /\ c \in stored /\ calls[c] = 1
                           => Entered(f, t)' /\ ~ Signalling(f, t)'
                      /\ t = COMPLETE /\ status'[f] = COMPLETE
                           => calls[c] = 1 \/ Signalling(f, COMPLETE)'
    BY DEF CallInv, callVars
  <2>0. /\ calls[c] = 1 => status[f] <= t
        /\ c \in stored /\ calls[c] = 1 => Entered(f, t) /\ ~ Signalling(f, t)
        /\ t = COMPLETE /\ status[f] = COMPLETE
             => calls[c] = 1 \/ Signalling(f, COMPLETE)
    BY DEF CallInv
  <2>1. calls[c] = 1 => status'[f] <= t
    BY <2>0, <1>b
  <2>2. c \in stored /\ calls[c] = 1 => Entered(f, t)' /\ ~ Signalling(f, t)'
    <3> HAVE c \in stored /\ calls[c] = 1
    <3>1. Entered(f, t) /\ ~ Signalling(f, t) /\ t \in FAILED .. SUBMITTED
      BY <2>0
    <3>2. ~ (f = e /\ t = s)
      BY <3>1
    <3> QED
      BY <3>1, <3>2, <1>a
  <2>3. ASSUME t = COMPLETE, status'[f] = COMPLETE
        PROVE  calls[c] = 1 \/ Signalling(f, COMPLETE)'
    <3>1. CASE f = e
      <4>1. CASE status[e] = COMPLETE
        BY <4>1, <3>1, <2>0, <2>3, <1>0 DEF Signalling
      <4>2. CASE status[e] # COMPLETE
        BY <4>2, <3>1, <2>3, <1>0, <1>a
      <4> QED
        BY <4>1, <4>2
    <3>2. CASE f # e
      BY <3>2, <2>0, <2>3, <1>0, <1>a
    <3> QED
      BY <3>1, <3>2
  <2> QED
    BY <2>1, <2>2, <2>3
<1>3. SignalInv'
  <2> SUFFICES ASSUME NEW f \in Events
               PROVE  /\ mon'[f] # None => (Entered(f, mon[f].s) /\ status[f] <= mon[f].s)'
                      /\ f \in Internal /\ status'[f] <= COMPLETE => phase'[f] = 2
    BY DEF SignalInv
  <2>1. CASE f = e
    <3>1. status'[f] <= s
      BY <2>1, <1>0
    <3>2. ASSUME f \in Internal, status'[f] <= COMPLETE PROVE phase'[f] = 2
      <4>1. CASE s <= COMPLETE
        BY <2>1, <3>2, <4>1
      <4>2. CASE ~ (s <= COMPLETE)
        <5>1. status[f] <= COMPLETE
          BY <2>1, <3>2, <4>2, <1>0
        <5>2. Entered(f, COMPLETE)
          BY <5>1, <3>2 DEF SignalInv, Entered
        <5>3. Entered(f, COMPLETE)'
          BY <5>2
        <5> QED
          BY <5>3, <3>2, EventsAssumption DEF Entered
      <4> QED
        BY <4>1, <4>2
    <3> QED
      BY <2>1, <3>1, <3>2, <1>0
  <2>2. CASE f # e
    <3>1. ASSUME mon'[f] # None
          PROVE  (Entered(f, mon[f].s) /\ status[f] <= mon[f].s)'
      <4>1. mon'[f] = mon[f] /\ mon[f].s \in FAILED .. SUBMITTED /\ Entered(f, mon[f].s)
        BY <2>2, <3>1, <1>0 DEF SignalInv, TypeOK
      <4>2. \A x \in FAILED .. SUBMITTED : Entered(f, x) => Entered(f, x)'
        OBVIOUS
      <4>3. status'[f] = status[f] /\ status[f] <= mon[f].s
        BY <2>2, <4>1, <1>0, <3>1 DEF SignalInv
      <4> QED
        BY <4>1, <4>2, <4>3 DEF Entered
    <3>2. ASSUME f \in Internal, status'[f] <= COMPLETE PROVE phase'[f] = 2
      <4>1. Entered(f, COMPLETE)
        BY <2>2, <3>2, <1>0 DEF SignalInv, Entered
      <4>2. Entered(f, COMPLETE)'
        BY <4>1
      <4> QED
        BY <4>2, <3>2, EventsAssumption DEF Entered
    <3> QED
      BY <3>1, <3>2
  <2> QED
    BY <2>1, <2>2
<1>4. HostInv'
  <2> SUFFICES ASSUME NEW h \in Hosts
               PROVE  /\ pc'[h] \in {"check", "blocked"} =>
                           list[h] \in WaitArgs /\ idx[h] \in 1 .. Len(list[h])
                      /\ \A i \in 1 .. Len(list[h]) : i < idx[h] =>
                           /\ status'[list[h][i]] <= COMPLETE
                           /\ ~ Signalling(list[h][i], COMPLETE)'
    BY DEF HostInv
  <2>1. pc'[h] \in {"check", "blocked"} =>
          list[h] \in WaitArgs /\ idx[h] \in 1 .. Len(list[h])
    BY DEF HostInv
  <2>2. ASSUME NEW i \in 1 .. Len(list[h]), i < idx[h]
        PROVE  status'[list[h][i]] <= COMPLETE /\ ~ Signalling(list[h][i], COMPLETE)'
    <3> DEFINE f == list[h][i]
    <3>1. f \in Events /\ status[f] <= COMPLETE /\ ~ Signalling(f, COMPLETE)
      BY <2>2, ListEvents DEF HostInv
    <3>2. Entered(f, COMPLETE)
      BY <3>1 DEF SignalInv, Entered, Events
    <3>3. ~ (f = e /\ s = COMPLETE)
      BY <3>2
    <3>4. ~ Signalling(f, COMPLETE)'
      BY <3>1, <3>3, <1>a
    <3> HIDE DEF f
    <3>5. status'[f] <= COMPLETE
      BY <3>1, <1>b
    <3> QED
      BY <3>4, <3>5 DEF f
  <2> QED
    BY <2>1, <2>2
<1> QED
  BY <1>1, <1>2, <1>3, <1>4

-----------------------------------------------------------------------------
(* The actions of those who signal.                                        *)
LEMMA MarkSubmittedInv ==
  ASSUME Inv, NEW e \in Internal, MarkSubmitted(e)
  PROVE  Inv'
<1> USE DEF Inv
<1>0. e \in Events /\ None \in Hosts \cup {None} /\ SUBMITTED \in FAILED .. SUBMITTED
  BY DEF Events
<1>1. TypeOK'
  BY <1>0 DEF MarkSubmitted, SignalEnter, TypeOK, callVars, hostVars
<1>2. ~ Entered(e, SUBMITTED) /\ Entered(e, SUBMITTED)'
  BY DEF MarkSubmitted, Entered
<1>3. \A f \in Events, x \in FAILED .. SUBMITTED : Entered(f, x) => Entered(f, x)'
  BY EventsAssumption DEF MarkSubmitted, SignalEnter, Entered, TypeOK, Events
<1>4. UNCHANGED callVars /\ UNCHANGED <<list, idx>> /\ UNCHANGED pc
      /\ SignalEnter(e, None, SUBMITTED)
  BY DEF MarkSubmitted, hostVars
<1> QED
  BY <1>0, <1>1, <1>2, <1>3, <1>4, EnterInv DEF Inv

LEMMA MarkRunningInv ==
  ASSUME Inv, NEW e \in Internal, MarkRunning(e)
  PROVE  Inv'
<1> USE DEF Inv
<1>0. e \in Events /\ None \in Hosts \cup {None} /\ RUNNING \in FAILED .. SUBMITTED
  BY DEF Events
<1>1. TypeOK'
  BY <1>0 DEF MarkRunning, SignalEnter, TypeOK, callVars, hostVars
<1>2. ~ Entered(e, RUNNING) /\ Entered(e, RUNNING)'
  BY DEF MarkRunning, Entered, TypeOK
<1>3. \A f \in Events, x \in FAILED .. SUBMITTED : Entered(f, x) => Entered(f, x)'
  BY EventsAssumption DEF MarkRunning, SignalEnter, Entered, TypeOK, Events
<1>4. UNCHANGED callVars /\ UNCHANGED <<list, idx>> /\ UNCHANGED pc
      /\ SignalEnter(e, None, RUNNING)
  BY DEF MarkRunning, hostVars
<1> QED
  BY <1>0, <1>1, <1>2, <1>3, <1>4, EnterInv DEF Inv

LEMMA MarkCompletedInv ==
  ASSUME Inv, NEW e \in Internal, NEW s \in {COMPLETE, FAILED}, MarkCompleted(e, s)
  PROVE  Inv'
<1> USE DEF Inv
<1>0. e \in Events /\ None \in Hosts \cup {None} /\ s \in FAILED .. SUBMITTED
  BY DEF Events
<1>1. TypeOK'
  BY <1>0 DEF MarkCompleted, SignalEnter, TypeOK, callVars, hostVars
<1>2. ~ Entered(e, s) /\ Entered(e, s)'
  BY EventsAssumption DEF MarkCompleted, Entered, TypeOK
<1>3. \A f \in Events, x \in FAILED .. SUBMITTED : Entered(f, x) => Entered(f, x)'
  BY EventsAssumption DEF MarkCompleted, SignalEnter, Entered, TypeOK, Events
<1>4. UNCHANGED callVars /\ UNCHANGED <<list, idx>> /\ UNCHANGED pc
      /\ SignalEnter(e, None, s) /\ phase'[e] = 2
  BY DEF MarkCompleted, hostVars, TypeOK
<1> QED
  BY <1>0, <1>1, <1>2, <1>3, <1>4, EnterInv DEF Inv

(* UserEvent::SetStatus tests the status in the Monitor: a second call     *)
(* signals nothing.                                                        *)
LEMMA SetStatusInv ==
  ASSUME Inv, NEW h \in Hosts, NEW u \in User, NEW s \in {COMPLETE, FAILED},
         SetStatus(h, u, s)
  PROVE  Inv'
<1> USE DEF Inv
<1>0. u \in Events /\ h \in Hosts \cup {None} /\ s \in FAILED .. SUBMITTED /\ u \notin Internal
  BY EventsAssumption DEF Events
<1>1. TypeOK'
  BY <1>0 DEF SetStatus, SignalEnter, TypeOK, callVars, hostVars
<1>2. ~ Entered(u, s) /\ Entered(u, s)'
  BY <1>0 DEF SetStatus, SignalEnter, Entered, TypeOK
<1>3. \A f \in Events, x \in FAILED .. SUBMITTED : Entered(f, x) => Entered(f, x)'
  BY <1>0 DEF SetStatus, SignalEnter, Entered, TypeOK, Events
<1>4. /\ UNCHANGED callVars /\ UNCHANGED <<list, idx>>
      /\ SignalEnter(u, h, s)
      /\ \A g \in Hosts : pc'[g] \in {"check", "blocked"} => pc'[g] = pc[g]
  BY DEF SetStatus, TypeOK
<1> QED
  BY <1>0, <1>1, <1>2, <1>3, <1>4, EnterInv DEF Inv

(* The second half of Signal.  Signalling makes sure that a callback it    *)
(* calls was not called before.                                            *)
LEMMA SignalNotifyInv ==
  ASSUME Inv, NEW e \in Events, SignalNotify(e)
  PROVE  Inv'
<1> USE DEF Inv
<1> DEFINE s == mon[e].s
<1>0. /\ s \in FAILED .. SUBMITTED
      /\ \A f \in Events : f # e => mon'[f] = mon[f]
      /\ mon'[e] = None /\ mon[e] # None
      /\ UNCHANGED <<status, submitted, phase, reg, stored, list, idx>>
  BY DEF SignalNotify, TypeOK
<1>1. TypeOK'
  BY DEF SignalNotify, TypeOK
<1>2. \A c \in Callbacks :
         calls'[c] = IF c \in stored /\ reg[c] = <<e, s>> THEN calls[c] + 1 ELSE calls[c]
  BY DEF SignalNotify, Notified
<1>3. \A c \in Callbacks : c \in stored /\ reg[c] = <<e, s>> => calls[c] = 0 /\ calls'[c] = 1
  <2> SUFFICES ASSUME NEW c \in Callbacks, c \in stored, reg[c] = <<e, s>>
               PROVE  calls[c] = 0 /\ calls'[c] = 1
    OBVIOUS
  <2>0. reg[c] \in Events \X CallbackTypes
    BY DEF TypeOK, RegInv
  <2>1. s \in CallbackTypes
    BY <2>0
  <2>2. Signalling(e, s)
    BY <1>0 DEF Signalling
  <2>3. calls[c] # 1
    BY <2>1, <2>2 DEF CallInv
  <2> QED
    BY <2>3, <1>2 DEF RegInv
<1>a. \A f \in Events, x \in FAILED .. SUBMITTED :
         /\ Entered(f, x)' <=> Entered(f, x)
         /\ Signalling(f, x)' <=> f # e /\ Signalling(f, x)
  BY <1>0 DEF Entered, Signalling
<1> HIDE DEF s
<1>4. RegInv'
  BY <1>0, <1>2, <1>3 DEF RegInv
<1>5. CallInv'
  <2> SUFFICES ASSUME NEW c \in Callbacks, NEW f \in Events, NEW t \in CallbackTypes,
                      reg[c] = <<f, t>>
               PROVE  /\ calls'[c] = 1 => status[f] <= t
                      /\ c \in stored /\ calls'[c] = 1
                           => Entered(f, t)' /\ ~ Signalling(f, t)'
                      /\ t = COMPLETE /\ status[f] = COMPLETE
                           => calls'[c] = 1 \/ Signalling(f, COMPLETE)'
    BY <1>0 DEF CallInv
  <2>0. /\ calls[c] = 1 => status[f] <= t
        /\ c \in stored /\ calls[c] = 1 => Entered(f, t) /\ ~ Signalling(f, t)
        /\ t = COMPLETE /\ status[f] = COMPLETE
             => calls[c] = 1 \/ Signalling(f, COMPLETE)
    BY DEF CallInv
  <2>1. CASE f = e /\ t = s /\ c \in stored
    <3>1. status[f] <= t /\ Entered(f, t)
      BY <2>1, <1>0 DEF SignalInv, s
    <3> QED
      BY <2>1, <3>1, <1>a, <1>3
  <2>2. CASE ~ (f = e /\ t = s /\ c \in stored)
    <3>1. calls'[c] = calls[c]
      BY <2>2, <1>2
    <3>2. ASSUME t = COMPLETE, status[f] = COMPLETE
          PROVE  calls'[c] = 1 \/ Signalling(f, COMPLETE)'
      <4>1. CASE f = e
        <5>1. CASE c \notin stored
          <6>1. <<f, t>> \in Events \X CallbackTypes
            OBVIOUS
          <6>2. reg[c] # None
            BY <6>1, EventsAssumption
          <6> QED
            BY <5>1, <6>2, <3>1 DEF RegInv
        <5>2. CASE c \in stored
          <6>1. s # COMPLETE
            BY <5>2, <4>1, <2>2, <3>2
          <6>2. ~ Signalling(f, COMPLETE)
            BY <6>1, <4>1 DEF Signalling, s
          <6> QED
            BY <6>2, <2>0, <3>1, <3>2
        <5> QED
          BY <5>1, <5>2
      <4>2. CASE f # e
        BY <4>2, <2>0, <3>1, <3>2, <1>a
      <4> QED
        BY <4>1, <4>2
    <3> QED
      BY <2>0, <3>1, <3>2, <1>a
  <2> QED
    BY <2>1, <2>2
<1>6. SignalInv'
  BY <1>0 DEF SignalInv, Entered
<1>7. HostInv'
  <2> SUFFICES ASSUME NEW h \in Hosts
               PROVE  /\ pc'[h] \in {"check", "blocked"} =>
                           list[h] \in WaitArgs /\ idx[h] \in 1 .. Len(list[h])
                      /\ \A i \in 1 .. Len(list[h]) : i < idx[h] =>
                           /\ status[list[h][i]] <= COMPLETE
                           /\ ~ Signalling(list[h][i], COMPLETE)'
    BY <1>0 DEF HostInv
  <2>1. pc'[h] \in {"check", "blocked"} => pc[h] \in {"check", "blocked"}
    BY DEF SignalNotify, TypeOK
  <2>2. ASSUME NEW i \in 1 .. Len(list[h]), i < idx[h]
        PROVE  status[list[h][i]] <= COMPLETE /\ ~ Signalling(list[h][i], COMPLETE)'
    <3>1. list[h][i] \in Events /\ COMPLETE \in FAILED .. SUBMITTED
      BY ListEvents
    <3> QED
      BY <2>2, <3>1, <1>a, <1>0 DEF HostInv, Signalling
  <2> QED
    BY <2>1, <2>2 DEF HostInv
<1> QED
  BY <1>1, <1>4, <1>5, <1>6, <1>7 DEF Inv

-----------------------------------------------------------------------------
(* The calls of the application.                                           *)
LEMMA AddEventCallbackInv ==
  ASSUME Inv, NEW h \in Hosts, NEW e \in Events, NEW t \in CallbackTypes,
         NEW c \in Callbacks, AddEventCallback(h, e, t, c)
  PROVE  Inv'
<1> USE DEF Inv
<1>0. /\ UNCHANGED <<status, mon, submitted, phase, pc, list, idx, result>>
      /\ mon[e] = None
      /\ calls[c] = 0 /\ c \notin stored /\ reg[c] = None
      /\ reg' = [reg EXCEPT ![c] = <<e, t>>]
      /\ <<e, t>> \in Events \X CallbackTypes
  BY DEF AddEventCallback, eventVars, hostVars, RegInv
<1>1. TypeOK'
  BY <1>0 DEF AddEventCallback, TypeOK
<1>2. \A d \in Callbacks : d # c =>
         reg'[d] = reg[d] /\ calls'[d] = calls[d] /\ (d \in stored' <=> d \in stored)
  BY <1>0 DEF AddEventCallback, TypeOK
<1>3. /\ reg'[c] = <<e, t>> /\ reg'[c] # None
      /\ IF status[e] <= t THEN calls'[c] = 1 /\ c \notin stored'
                           ELSE calls'[c] = 0 /\ c \in stored'
  BY <1>0, EventsAssumption DEF AddEventCallback, TypeOK
<1>a. \A f \in Events, x \in FAILED .. SUBMITTED :
         (Entered(f, x)' <=> Entered(f, x)) /\ (Signalling(f, x)' <=> Signalling(f, x))
  BY <1>0 DEF Entered, Signalling
<1>4. RegInv'
  BY <1>2, <1>3 DEF RegInv
<1>5. CallInv'
  <2> SUFFICES ASSUME NEW d \in Callbacks, NEW f \in Events, NEW x \in CallbackTypes,
                      reg'[d] = <<f, x>>
               PROVE  /\ calls'[d] = 1 => status[f] <= x
                      /\ d \in stored' /\ calls'[d] = 1
                           => Entered(f, x)' /\ ~ Signalling(f, x)'
                      /\ x = COMPLETE /\ status[f] = COMPLETE
                           => calls'[d] = 1 \/ Signalling(f, COMPLETE)'
    BY <1>0 DEF CallInv
  <2>1. CASE d = c
    BY <2>1, <1>3
  <2>2. CASE d # c
    <3>1. reg[d] = <<f, x>> /\ calls'[d] = calls[d] /\ (d \in stored' <=> d \in stored)
      BY <2>2, <1>2
    <3> QED
      BY <3>1, <1>a DEF CallInv
  <2> QED
    BY <2>1, <2>2
<1>6. SignalInv'
  BY <1>0 DEF SignalInv, Entered
<1>7. HostInv'
  BY <1>0 DEF HostInv, Signalling
<1> QED
  BY <1>1, <1>4, <1>5, <1>6, <1>7 DEF Inv

(* Steps that leave the events and the callbacks alone.                    *)
LEMMA HostFrame ==
  ASSUME Inv, TypeOK', UNCHANGED <<eventVars, callVars>>, HostInv'
  PROVE  Inv'
<1>1. RegInv' /\ CallInv' /\ SignalInv'
  BY DEF Inv, RegInv, CallInv, SignalInv, Entered, Signalling, eventVars, callVars
<1> QED
  BY <1>1 DEF Inv

LEMMA WaitForEventsInv ==
  ASSUME Inv, NEW h \in Hosts, NEW l \in WaitArgs, WaitForEvents(h, l)
  PROVE  Inv'
<1> USE DEF Inv
<1>0. UNCHANGED <<eventVars, callVars>>
  BY DEF WaitForEvents
<1>1. TypeOK'
  BY <1>0 DEF WaitForEvents, TypeOK, eventVars, callVars
<1>2. l \in Seq(Events) /\ l # <<>> /\ 1 \in 1 .. Len(l)
  BY EventsAssumption
<1>3. HostInv'
  <2> SUFFICES ASSUME NEW g \in Hosts
               PROVE  /\ pc'[g] \in {"check", "blocked"} =>
                           list'[g] \in WaitArgs /\ idx'[g] \in 1 .. Len(list'[g])
                      /\ \A i \in 1 .. Len(list'[g]) : i < idx'[g] =>
                           (/\ status[list[g][i]] <= COMPLETE
                            /\ ~ Signalling(list[g][i], COMPLETE))'
    BY DEF HostInv
  <2>1. CASE g = h
    BY <2>1, <1>2 DEF WaitForEvents, TypeOK
  <2>2. CASE g # h
    <3>1. pc'[g] = pc[g] /\ list'[g] = list[g] /\ idx'[g] = idx[g]
      BY <2>2 DEF WaitForEvents, TypeOK
    <3> QED
      BY <3>1, <1>0 DEF HostInv, Signalling, eventVars
  <2> QED
    BY <2>1, <2>2
<1> QED
  BY <1>0, <1>1, <1>3, HostFrame DEF Inv

LEMMA WaitPcInv ==
  ASSUME Inv, NEW h \in Hosts, WaitBlock(h) \/ WakeSpuriously(h)
  PROVE  Inv'
<1> USE DEF Inv
<1>0. UNCHANGED <<eventVars, callVars>> /\ UNCHANGED <<list, idx, result>>
  BY DEF WaitBlock, WakeSpuriously
<1>1. TypeOK'
  BY <1>0 DEF WaitBlock, WakeSpuriously, TypeOK, eventVars, callVars
<1>2. \A g \in Hosts : pc'[g] \in {"check", "blocked"} => pc[g] \in {"check", "blocked"}
  BY DEF WaitBlock, WakeSpuriously, TypeOK
<1>3. HostInv'
  BY <1>0, <1>2 DEF HostInv, Signalling, eventVars
<1> QED
  BY <1>0, <1>1, <1>3, HostFrame DEF Inv

(* Wait returns: the Monitor was free, so that the callbacks have run.     *)
LEMMA WaitNextInv ==
  ASSUME Inv, NEW h \in Hosts, WaitNext(h)
  PROVE  Inv'
<1> USE DEF Inv
<1> DEFINE e == list[h][idx[h]]
<1>0. UNCHANGED <<eventVars, callVars>> /\ UNCHANGED list
  BY DEF WaitNext
<1>1. TypeOK'
  BY <1>0 DEF WaitNext, TypeOK, eventVars, callVars
<1>2. list[h] \in WaitArgs /\ idx[h] \in 1 .. Len(list[h]) /\ idx'[h] = idx[h] + 1
      /\ Len(list[h]) \in Nat
  BY ListIsSeq DEF WaitNext, HostInv, TypeOK
<1>3. status[e] <= COMPLETE /\ mon[e] = None
  BY DEF WaitNext, HasCompleted, CanEnter
<1>4. pc'[h] = "check" => idx[h] # Len(list[h])
  BY DEF WaitNext, TypeOK
<1>4a. pc'[h] # "blocked"
  BY DEF WaitNext, TypeOK
<1>5. HostInv'
  <2> SUFFICES ASSUME NEW g \in Hosts
               PROVE  /\ pc'[g] \in {"check", "blocked"} =>
                           list[g] \in WaitArgs /\ idx'[g] \in 1 .. Len(list[g])
                      /\ \A i \in 1 .. Len(list[g]) : i < idx'[g] =>
                           /\ status[list[g][i]] <= COMPLETE
                           /\ ~ Signalling(list[g][i], COMPLETE)
    BY <1>0 DEF HostInv, Signalling, eventVars
  <2>1. CASE g = h
    <3>1. pc'[h] \in {"check", "blocked"} => idx'[h] \in 1 .. Len(list[h])
      BY <1>2, <1>4, <1>4a
    <3>2. ASSUME NEW i \in 1 .. Len(list[h]), i < idx'[h]
          PROVE  /\ status[list[h][i]] <= COMPLETE
                 /\ ~ Signalling(list[h][i], COMPLETE)
      <4>1. CASE i = idx[h]
        BY <4>1, <1>3 DEF Signalling
      <4>2. CASE i # idx[h]
        <5>1. i < idx[h]
          BY <4>2, <3>2, <1>2
        <5> QED
          BY <5>1 DEF HostInv
      <4> QED
        BY <4>1, <4>2
    <3> QED
      BY <2>1, <3>1, <3>2, <1>2
  <2>2. CASE g # h
    <3>1. pc'[g] = pc[g] /\ idx'[g] = idx[g]
      BY <2>2 DEF WaitNext, TypeOK
    <3> QED
      BY <3>1 DEF HostInv
  <2> QED
    BY <2>1, <2>2
<1> QED
  BY <1>0, <1>1, <1>5, HostFrame DEF Inv

-----------------------------------------------------------------------------
LEMMA NextInv == Inv /\ [Next]_vars => Inv'
<1> SUFFICES ASSUME Inv, [Next]_vars PROVE Inv'
  OBVIOUS
<1>1. ASSUME NEW e \in Internal, Device(e) PROVE Inv'
  BY <1>1, MarkSubmittedInv, MarkRunningInv, MarkCompletedInv DEF Device
<1>2. ASSUME NEW e \in Events, SignalNotify(e) PROVE Inv'
  BY <1>2, SignalNotifyInv
<1>3. ASSUME NEW h \in Hosts, HostCall(h) PROVE Inv'
  BY <1>3, SetStatusInv, AddEventCallbackInv, WaitForEventsInv DEF HostCall
<1>4. ASSUME NEW h \in Hosts, HostStep(h) \/ WakeSpuriously(h) PROVE Inv'
  BY <1>4, WaitPcInv, WaitNextInv DEF HostStep
<1>5. CASE UNCHANGED vars
  <2>1. TypeOK' /\ HostInv' /\ UNCHANGED <<eventVars, callVars>>
    BY <1>5 DEF Inv, TypeOK, HostInv, Signalling, vars, eventVars, callVars, hostVars
  <2> QED
    BY <2>1, HostFrame
<1> QED
  BY <1>1, <1>2, <1>3, <1>4, <1>5 DEF Next

LEMMA Invariance == Spec => []Inv
BY InitInv, NextInv, PTL DEF Spec

(* Every variable of an event, of the callbacks and of the hosts keeps its *)
(* type.                                                                   *)
THEOREM Type_Correct == Spec => []TypeOK
<1>1. Inv => TypeOK
  BY DEF Inv
<1> QED
  BY <1>1, Invariance, PTL

(* A callback is called at most once, and only when its event has reached  *)
(* its status (Event::Signal, Event::AddEventCallback).                    *)
THEOREM Called_Once_Reached == Spec => []CalledOnceReached
<1>1. Inv => CalledOnceReached
  <2> SUFFICES ASSUME Inv, NEW c \in Callbacks
               PROVE  calls[c] <= 1 /\ (calls[c] > 0 => status[reg[c][1]] <= reg[c][2])
    BY DEF CalledOnceReached
  <2>1. calls[c] \in {0, 1}
    BY DEF Inv, RegInv
  <2>2. ASSUME calls[c] = 1 PROVE status[reg[c][1]] <= reg[c][2]
    <3>1. reg[c] \in Events \X CallbackTypes
      BY <2>2 DEF Inv, RegInv, TypeOK
    <3>2. PICK e \in Events, t \in CallbackTypes : reg[c] = <<e, t>>
      BY <3>1
    <3> QED
      BY <3>2, <2>2 DEF Inv, CallInv
  <2> QED
    BY <2>1, <2>2
<1> QED
  BY <1>1, Invariance, PTL

(* A thread that clWaitForEvents has taken past a completed event finds    *)
(* the callbacks of the completion called (Event::Wait).                   *)
THEOREM Callbacks_Before_Wait == Spec => []CallbacksBeforeWait
<1>1. Inv => CallbacksBeforeWait
  <2> SUFFICES ASSUME Inv, NEW h \in Hosts, NEW i \in 1 .. Len(list[h]), i < idx[h],
                      status[list[h][i]] = COMPLETE, NEW c \in Callbacks,
                      reg[c] = <<list[h][i], COMPLETE>>
               PROVE  calls[c] = 1
    BY DEF CallbacksBeforeWait
  <2>1. list[h][i] \in Events /\ ~ Signalling(list[h][i], COMPLETE)
    BY ListEvents DEF Inv, HostInv
  <2> QED
    BY <2>1 DEF Inv, CallInv
<1> QED
  BY <1>1, Invariance, PTL
=============================================================================
