-------------------------- MODULE CaliClient_proofs --------------------------
(***************************************************************************)
(* The theorems about CaliClient, for any number of workers, datagrams and *)
(* runs.  They rest on the conjunction IInv of invariants each of which is *)
(* inductive with the ones before it: TypeOK and Places, the labels of     *)
(* each kind of thread; Singleton, who has constructed what when a thread  *)
(* is where; Inbound, what can be in a socket; Locking, the mutex and the  *)
(* wholeness of what it guards; Settling, which says that by the time      *)
(* anything has been received the static pointer no longer changes.        *)
(***************************************************************************)
EXTENDS CaliClient, TLAPS

Getting   == {"new", "assign", "ret"}
Holding   == {"recvfrom", "send", "lock", "copy", "copy2", "unlock"}

(* The places each kind of thread can be at. *)
Places ==
  /\ pc["recv"] \in {"dead", "get", "recvfrom"} \cup Getting \cup {"lock", "copy", "copy2", "unlock"}
  /\ pc["main"] \in {"idle", "get", "send"} \cup Getting
  /\ \A w \in Worker : pc[w] \in {"idle", "get", "lock", "copy", "copy2", "unlock", "apply", "finished"}

(* While the pointer is NULL nothing has begun; who uses an object has one *)
(* that was constructed, and who constructs has not done so before.        *)
Singleton ==
  /\ made \subseteq {"recv", "main"}
  /\ instance # "null" => instance \in made
  /\ portOwner # "null" => portOwner \in made
  /\ \A t \in Thread :
       /\ pc[t] = "new" => t \notin made
       /\ t \in made => pc[t] = "assign" \/ instance # "null"
       /\ pc[t] \in {"assign", "ret"} => t \in made
       /\ pc[t] \in Holding => this[t] \in made
       /\ pc[t] \in Holding \cup {"ret"} => instance # "null"
  /\ \A w \in Worker : pc[w] # "idle" => instance # "null"
  /\ Configured => instance # "null"
  /\ \A o \in Thread : o \notin made => caliResult[o] = Blank

(* The result a datagram to the object o carries. *)
Posted(o, r) == [to |-> o, data |-> r] \in posted

IsWhole(r) == r.pos = r.gain

(* Only what was sent to a socket is in it, or taken out of it. *)
Inbound ==
  /\ \A o \in Thread : \A i \in 1..Len(sockbuf[o]) : Posted(o, sockbuf[o][i])
  /\ pc["recv"] \in {"lock", "copy", "copy2"} => Posted(this["recv"], buf["recv"])

(* Who is in a critical section has the mutex of its object, and a struct  *)
(* is whole unless it is being written.                                    *)
Locking ==
  /\ \A t \in Thread : Critical(t) => mux[this[t]] = t
  /\ \A o \in Thread : (pc["recv"] = "copy2" /\ this["recv"] = o) \/ IsWhole(caliResult[o])
  /\ pc["recv"] = "copy2" => caliResult[this["recv"]].pos = buf["recv"].pos
  /\ \A w \in Worker :
       /\ pc[w] = "copy2" \/ IsWhole(buf[w])
       /\ pc[w] = "copy2" => buf[w].pos = caliResult[this[w]].pos
       /\ IsWhole(applied[w])

(* The worker w has seen a result: of the object the pointer stays at. *)
Seen(w) ==
  /\ instance # "null" /\ caliResult[instance] # Blank
  /\ pc[w] \in Holding \cup {"apply"} => this[w] = instance

Settling ==
  /\ nRun = 0 => \A t \in Thread \ {"recv"} : pc[t] = "idle"
  /\ pc["main"] \in Getting => job = "INIT"
  /\ instance = "null" \/ pc["main"] \in Getting =>
       \A w \in Worker : pc[w] = "idle" /\ applied[w] = Blank
  /\ instance = "null" \/ pc["recv"] \in Getting =>
       \A o \in Thread : caliResult[o] = Blank
  /\ instance = "recv" => /\ caliResult["main"] = Blank
                          /\ pc["recv"] \in Holding => this["recv"] = "recv"
  /\ \A w \in Worker :
       /\ pc[w] \in Holding \cup {"apply"} =>
            this[w] = instance \/ (instance = "recv" /\ this[w] = "main")
       /\ applied[w] # Blank => Seen(w) /\ (pc[w] \in {"unlock", "apply"} => buf[w] # Blank)
       /\ pc[w] \in {"unlock", "apply"} /\ buf[w] # Blank => Seen(w)

IInv == TypeOK /\ Places /\ Singleton /\ Inbound /\ Locking /\ Settling

------------------------------------------------------------------------------
(* The kinds of threads are told apart by their names. *)
LEMMA Kinds ==
  /\ "recv" \in Thread /\ "main" \in Thread /\ "null" \notin Thread
  /\ Worker \subseteq Thread
  /\ \A w \in Worker : w # "recv" /\ w # "main" /\ w # "null"
  /\ \A t \in Thread : t = "recv" \/ t = "main" \/ t \in Worker
BY ClientAssumption DEF Thread

(* What results and datagrams are made of. *)
LEMMA BlankType == Blank \in Result /\ IsWhole(Blank)
BY ClientAssumption DEF Blank, Result, IsWhole

LEMMA WholeType ==
  ASSUME NEW n \in 1..MaxSent, NEW o \in Thread
  PROVE  /\ Whole(n) \in Result /\ Whole(n) # Blank /\ IsWhole(Whole(n))
         /\ [to |-> o, data |-> Whole(n)] \in Datagram
BY ClientAssumption DEF Whole, Result, Blank, IsWhole, Datagram

LEMMA PostedType ==
  ASSUME posted \subseteq Datagram, NEW d \in posted
  PROVE  /\ d = [to |-> d.to, data |-> d.data]
         /\ d.to \in Thread /\ d.data \in Result /\ d.data # Blank
         /\ IsWhole(d.data)
BY ClientAssumption DEF Datagram, Result, Whole, Blank, IsWhole

(* Copying one member keeps a result a result. *)
LEMMA MemberType ==
  ASSUME NEW r \in Result, NEW s \in Result
  PROVE  WithPos(r, s) \in Result /\ WithGain(r, s) \in Result
BY DEF Result, WithPos, WithGain

(* A step keeps every variable to its values. *)
LEMMA TypeStep ==
  ASSUME TypeOK, Places, Singleton, [Next]_vars PROVE TypeOK'
<1>1. ASSUME NEW t \in Thread, Check(t) PROVE TypeOK'
  <2>1. pc' \in [Thread -> Labels]
    BY <1>1 DEF Check, Goto, Entry, TypeOK, Labels
  <2>2. this' \in [Thread -> Thread \cup {"null"}]
    BY <1>1 DEF Check, TypeOK
  <2>3. QED
    BY <1>1, <2>1, <2>2 DEF Check, object, server, TypeOK
<1>2. ASSUME NEW t \in Thread, Construct(t) PROVE TypeOK'
  BY <1>2, Kinds, BlankType DEF Construct, Goto, object, thread, server, TypeOK, Labels
<1>3. ASSUME NEW t \in Thread, Assign(t) PROVE TypeOK'
  BY <1>3, Kinds, BlankType DEF Assign, Goto, object, thread, server, TypeOK, Labels
<1>4. ASSUME NEW t \in Thread, Return(t) PROVE TypeOK'
  BY <1>4, Kinds, BlankType DEF Return, Goto, Entry, object, thread, server, TypeOK, Labels
<1>5. CASE SendConfig
  BY <1>5, Kinds, BlankType DEF SendConfig, Goto, object, thread, server, TypeOK, Labels
<1>6. CASE SendInitRequest
  <2>1. this["main"] \in Thread
    BY <1>6, Kinds DEF SendInitRequest, TypeOK, Singleton, Holding
  <2>2. QED
    BY <1>6, <2>1, Kinds DEF SendInitRequest, Goto, object, thread, server, TypeOK, Labels
<1>7. ASSUME NEW w \in Worker, Decide(w) PROVE TypeOK'
  BY <1>7, Kinds, BlankType DEF Decide, object, thread, server, TypeOK, Labels
<1>8. CASE SendCaliData
  BY <1>8, Kinds, BlankType DEF SendCaliData, Goto, object, thread, server, TypeOK, Labels
<1>9. ASSUME NEW w \in Worker, Process(w) PROVE TypeOK'
  BY <1>9, Kinds, BlankType DEF Process, Goto, Configured, object, thread, server, TypeOK,
         Labels
<1>10. CASE RecvFrom
  <2>1. this["recv"] \in Thread /\ sockbuf[this["recv"]] \in Seq(Result)
    BY <1>10, Kinds DEF RecvFrom, TypeOK, Singleton, Holding
  <2>2. Head(sockbuf[this["recv"]]) \in Result /\ Tail(sockbuf[this["recv"]]) \in Seq(Result)
    BY <1>10, <2>1 DEF RecvFrom
  <2>3. QED
    BY <1>10, <2>1, <2>2, Kinds DEF RecvFrom, Goto, TypeOK, Labels, object, thread, server
<1>11. CASE RecvFails
  BY <1>11, Kinds, BlankType DEF RecvFails, Goto, object, thread, server, TypeOK, Labels
<1>12. ASSUME NEW t \in Thread, TakeMux(t) PROVE TypeOK'
  BY <1>12, Kinds, BlankType DEF TakeMux, Goto, Free, object, thread, server, TypeOK, Labels
<1>13. ASSUME NEW t \in Thread, CopyPos(t) PROVE TypeOK'
  <2>1. this[t] \in Thread /\ buf[t] \in Result /\ caliResult[this[t]] \in Result
    BY <1>13 DEF CopyPos, TypeOK, Singleton, Holding
  <2>2. caliResult' \in [Thread -> Result] /\ buf' \in [Thread -> Result]
    <3> DEFINE new == WithPos(caliResult[this[t]], buf[t])
               got == WithPos(buf[t], caliResult[this[t]])
    <3>1. new \in Result /\ got \in Result
      BY <2>1, MemberType
    <3>2. CASE t = "recv"
      <4>1. caliResult' = [caliResult EXCEPT ![this[t]] = new] /\ buf' = buf
        BY <1>13, <3>2 DEF CopyPos, CopyMember, Assigned, Assigning
      <4>2. QED
        BY <2>1, <3>1, <4>1 DEF TypeOK
    <3>3. CASE t # "recv"
      <4>1. buf' = [buf EXCEPT ![t] = got] /\ caliResult' = caliResult
        BY <1>13, <3>3 DEF CopyPos, CopyMember, Assigned, Assigning
      <4>2. QED
        BY <2>1, <3>1, <4>1 DEF TypeOK
    <3>4. QED
      BY <3>2, <3>3
  <2>3. pc' \in [Thread -> Labels]
    BY <1>13 DEF CopyPos, Goto, TypeOK, Labels
  <2>4. QED
    BY <1>13, <2>2, <2>3 DEF CopyPos, CopyMember, Assigned, Assigning, TypeOK, object, thread, server
<1>14. ASSUME NEW t \in Thread, CopyGain(t) PROVE TypeOK'
  <2>1. this[t] \in Thread /\ buf[t] \in Result /\ caliResult[this[t]] \in Result
    BY <1>14 DEF CopyGain, TypeOK, Singleton, Holding
  <2>2. caliResult' \in [Thread -> Result] /\ buf' \in [Thread -> Result]
    <3> DEFINE new == WithGain(caliResult[this[t]], buf[t])
               got == WithGain(buf[t], caliResult[this[t]])
    <3>1. new \in Result /\ got \in Result
      BY <2>1, MemberType
    <3>2. CASE t = "recv"
      <4>1. caliResult' = [caliResult EXCEPT ![this[t]] = new] /\ buf' = buf
        BY <1>14, <3>2 DEF CopyGain, CopyMember, Assigned, Assigning
      <4>2. QED
        BY <2>1, <3>1, <4>1 DEF TypeOK
    <3>3. CASE t # "recv"
      <4>1. buf' = [buf EXCEPT ![t] = got] /\ caliResult' = caliResult
        BY <1>14, <3>3 DEF CopyGain, CopyMember, Assigned, Assigning
      <4>2. QED
        BY <2>1, <3>1, <4>1 DEF TypeOK
    <3>4. QED
      BY <3>2, <3>3
  <2>3. pc' \in [Thread -> Labels]
    BY <1>14 DEF CopyGain, Goto, TypeOK, Labels
  <2>4. QED
    BY <1>14, <2>2, <2>3 DEF CopyGain, CopyMember, Assigned, Assigning, TypeOK, object, thread, server
<1>15. ASSUME NEW t \in Thread, GiveMux(t) PROVE TypeOK'
  BY <1>15, Kinds, BlankType DEF GiveMux, Goto, Released, object, thread, server, TypeOK,
         Labels
<1>16. ASSUME NEW w \in Worker, Apply(w) PROVE TypeOK'
  BY <1>16, Kinds, BlankType DEF Apply, Goto, object, thread, server, TypeOK, Labels
<1>17. CASE Reply
  <2>1. nSent + 1 \in 1..MaxSent /\ nSent' \in 0..MaxSent
    BY <1>17, ClientAssumption DEF Reply, Post, TypeOK
  <2>2. posted' \subseteq Datagram
    BY <1>17, <2>1, WholeType, Kinds DEF Reply, Post, TypeOK
  <2>3. QED
    BY <1>17, <2>1, <2>2 DEF Reply, Post, TypeOK, object, thread
<1>18. CASE Broadcast
  <2>1. nSent + 1 \in 1..MaxSent /\ nSent' \in 0..MaxSent
    BY <1>18, ClientAssumption DEF Broadcast, Post, TypeOK
  <2>2. posted' \subseteq Datagram
    BY <1>18, <2>1, WholeType, Kinds DEF Broadcast, Post, TypeOK
  <2>3. QED
    BY <1>18, <2>1, <2>2 DEF Broadcast, Post, TypeOK, object, thread
<1>19. ASSUME NEW d \in posted, Deliver(d) PROVE TypeOK'
  <2>1. d.to \in Thread /\ d.data \in Result
    BY PostedType DEF TypeOK
  <2>2. sockbuf' \in [Thread -> Seq(Result)]
    BY <1>19, <2>1 DEF Deliver, TypeOK
  <2>3. QED
    BY <1>19, <2>2 DEF Deliver, TypeOK, object, thread, server
<1>20. CASE UNCHANGED vars
  BY <1>20, Kinds, BlankType DEF vars, object, thread, server, TypeOK, Labels
<1>21. QED
  BY <1>1, <1>2, <1>3, <1>4, <1>5, <1>6, <1>7, <1>8, <1>9, <1>10, <1>11, <1>12, <1>13, <1>14, <1>15, <1>16, <1>17, <1>18, <1>19, <1>20, Kinds
     DEF Next, threadFuncCaliReceive, Decider, EventTask, Network, Copying, GetInstance

(* What the two halves of a struct assignment do. *)
LEMMA Member ==
  ASSUME NEW t \in Thread
  PROVE  /\ CopyPos(t) /\ t = "recv" =>
              /\ caliResult' = [caliResult EXCEPT ![this[t]] = WithPos(caliResult[this[t]], buf[t])]
              /\ buf' = buf
         /\ CopyPos(t) /\ t # "recv" =>
              /\ buf' = [buf EXCEPT ![t] = WithPos(buf[t], caliResult[this[t]])]
              /\ caliResult' = caliResult
         /\ CopyGain(t) /\ t = "recv" =>
              /\ caliResult' = [caliResult EXCEPT ![this[t]] = WithGain(caliResult[this[t]], buf[t])]
              /\ buf' = buf
         /\ CopyGain(t) /\ t # "recv" =>
              /\ buf' = [buf EXCEPT ![t] = WithGain(buf[t], caliResult[this[t]])]
              /\ caliResult' = caliResult
BY DEF CopyPos, CopyGain, CopyMember, Assigned, Assigning

(* The mutex keeps two threads out of the same object. *)
LEMMA Exclusion ==
  ASSUME Locking, NEW s \in Thread, NEW t \in Thread, s # t, Critical(s), Critical(t)
  PROVE  this[s] # this[t]
BY DEF Locking

(* What recvbuf holds once a datagram was received. *)
LEMMA Received ==
  ASSUME TypeOK, Inbound, pc["recv"] \in {"lock", "copy", "copy2"}
  PROVE  /\ this["recv"] \in Thread /\ buf["recv"] \in Result
         /\ IsWhole(buf["recv"]) /\ buf["recv"] # Blank
<1>1. [to |-> this["recv"], data |-> buf["recv"]] \in posted
  BY DEF Inbound, Posted
<1>2. QED
  BY <1>1, PostedType DEF TypeOK

(* A received result stays one while it is written, member by member. *)
LEMMA NotBlank ==
  ASSUME NEW r \in Result, NEW s \in Result, s # Blank, IsWhole(s)
  PROVE  WithPos(r, s) # Blank /\ WithGain(r, s) # Blank
<1>1. s.pos # 0 /\ s.gain # 0
  BY DEF Result, Blank, IsWhole
<1>2. QED
  BY <1>1 DEF WithPos, WithGain, Blank

(* A step keeps every thread where its kind of thread can be. *)
LEMMA PlacesStep ==
  ASSUME TypeOK, Places, Singleton, [Next]_vars PROVE Places'
<1>1. ASSUME NEW t \in Thread, Check(t) PROVE Places'
  <2>1. CASE t \in Worker
    <3>1. pc' = [pc EXCEPT ![t] = "lock"]
      BY <1>1, <2>1, Kinds DEF Check, Goto, Unmade, Entry, Singleton
    <3>2. QED
      BY <2>1, <3>1, Kinds DEF Places, Getting, TypeOK
  <2>2. CASE t = "recv"
    <3>1. pc' = [pc EXCEPT !["recv"] = "new"] \/ pc' = [pc EXCEPT !["recv"] = "recvfrom"]
      BY <1>1, <2>2 DEF Check, Goto, Entry
    <3>2. QED
      BY <3>1, Kinds DEF Places, Getting, TypeOK
  <2>3. CASE t = "main"
    <3>1. pc' = [pc EXCEPT !["main"] = "new"] \/ pc' = [pc EXCEPT !["main"] = "send"]
      BY <1>1, <2>3 DEF Check, Goto, Entry
    <3>2. QED
      BY <3>1, Kinds DEF Places, Getting, TypeOK
  <2>4. QED
    BY <2>1, <2>2, <2>3, Kinds
<1>2. ASSUME NEW t \in Thread, Construct(t) PROVE Places'
  BY <1>2, Kinds DEF Construct, Goto, object, thread, server, Places, Getting, TypeOK,
         Labels
<1>3. ASSUME NEW t \in Thread, Assign(t) PROVE Places'
  BY <1>3, Kinds DEF Assign, Goto, object, thread, server, Places, Getting, TypeOK, Labels
<1>4. ASSUME NEW t \in Thread, Return(t) PROVE Places'
  BY <1>4, Kinds DEF Return, Goto, Entry, object, thread, server, Places, Getting, TypeOK,
         Labels
<1>5. CASE SendConfig
  BY <1>5, Kinds DEF SendConfig, Goto, object, thread, server, Places, Getting, TypeOK,
         Labels
<1>6. CASE SendInitRequest
  BY <1>6, Kinds DEF SendInitRequest, Goto, object, thread, server, Places, Getting,
         TypeOK, Labels
<1>7. ASSUME NEW w \in Worker, Decide(w) PROVE Places'
  BY <1>7, Kinds DEF Decide, object, thread, server, Places, Getting, TypeOK, Labels
<1>8. CASE SendCaliData
  BY <1>8, Kinds DEF SendCaliData, Goto, object, thread, server, Places, Getting, TypeOK,
         Labels
<1>9. ASSUME NEW w \in Worker, Process(w) PROVE Places'
  BY <1>9, Kinds DEF Process, Goto, Configured, object, thread, server, Places, Getting,
         TypeOK, Labels
<1>10. CASE RecvFrom
  BY <1>10, Kinds DEF RecvFrom, Goto, object, thread, server, Places, Getting, TypeOK,
         Labels
<1>11. CASE RecvFails
  BY <1>11, Kinds DEF RecvFails, Goto, object, thread, server, Places, Getting, TypeOK,
         Labels
<1>12. ASSUME NEW t \in Thread, TakeMux(t) PROVE Places'
  BY <1>12, Kinds DEF TakeMux, Goto, Free, object, thread, server, Places, Getting,
         TypeOK, Labels
<1>13. ASSUME NEW t \in Thread, CopyPos(t) PROVE Places'
  BY <1>13, Kinds DEF CopyPos, Goto, CopyMember, Assigned, Assigning, object, thread, server, Places, Getting,
         TypeOK, Labels
<1>14. ASSUME NEW t \in Thread, CopyGain(t) PROVE Places'
  BY <1>14, Kinds DEF CopyGain, Goto, CopyMember, Assigned, Assigning, object, thread, server, Places, Getting,
         TypeOK, Labels
<1>15. ASSUME NEW t \in Thread, GiveMux(t) PROVE Places'
  BY <1>15, Kinds DEF GiveMux, Goto, Released, object, thread, server, Places, Getting,
         TypeOK, Labels
<1>16. ASSUME NEW w \in Worker, Apply(w) PROVE Places'
  BY <1>16, Kinds DEF Apply, Goto, object, thread, server, Places, Getting, TypeOK, Labels
<1>17. CASE Reply
  BY <1>17, Kinds DEF Reply, Post, object, thread, server, Places, Getting, TypeOK, Labels
<1>18. CASE Broadcast
  BY <1>18, Kinds DEF Broadcast, Post, object, thread, server, Places, Getting, TypeOK,
         Labels
<1>19. ASSUME NEW d \in posted, Deliver(d) PROVE Places'
  BY <1>19, Kinds DEF Deliver, object, thread, server, Places, Getting, TypeOK, Labels
<1>20. CASE UNCHANGED vars
  BY <1>20, Kinds DEF vars, object, thread, server, Places, Getting, TypeOK, Labels
<1>21. QED
  BY <1>1, <1>2, <1>3, <1>4, <1>5, <1>6, <1>7, <1>8, <1>9, <1>10, <1>11, <1>12, <1>13, <1>14, <1>15, <1>16, <1>17, <1>18, <1>19, <1>20, Kinds
     DEF Next, threadFuncCaliReceive, Decider, EventTask, Network, Copying, GetInstance

(* A step respects the order of construction. *)
LEMMA SingletonStep ==
  ASSUME TypeOK, TypeOK', Places, Places', Singleton, [Next]_vars PROVE Singleton'
<1>1. ASSUME NEW t \in Thread, Check(t) PROVE Singleton'
  BY <1>1, Kinds DEF Check, Goto, Unmade, Entry, object, thread, server, Places,
         Singleton, Getting, Holding, Configured, TypeOK, Labels
<1>2. ASSUME NEW t \in Thread, Construct(t) PROVE Singleton'
  BY <1>2, Kinds DEF Construct, Goto, object, thread, server, Places, Singleton, Getting,
         Holding, Configured, TypeOK, Labels
<1>3. ASSUME NEW t \in Thread, Assign(t) PROVE Singleton'
  BY <1>3, Kinds DEF Assign, Goto, object, thread, server, Places, Singleton, Getting,
         Holding, Configured, TypeOK, Labels
<1>4. ASSUME NEW t \in Thread, Return(t) PROVE Singleton'
  BY <1>4, Kinds DEF Return, Goto, Entry, object, thread, server, Places, Singleton,
         Getting, Holding, Configured, TypeOK, Labels
<1>5. CASE SendConfig
  BY <1>5, Kinds DEF SendConfig, Goto, object, thread, server, Places, Singleton, Getting,
         Holding, Configured, TypeOK, Labels
<1>6. CASE SendInitRequest
  BY <1>6, Kinds DEF SendInitRequest, Goto, object, thread, server, Places, Singleton,
         Getting, Holding, Configured, TypeOK, Labels
<1>7. ASSUME NEW w \in Worker, Decide(w) PROVE Singleton'
  BY <1>7, Kinds DEF Decide, object, thread, server, Places, Singleton, Getting, Holding,
         Configured, TypeOK, Labels
<1>8. CASE SendCaliData
  BY <1>8, Kinds DEF SendCaliData, Goto, object, thread, server, Places, Singleton,
         Getting, Holding, Configured, TypeOK, Labels
<1>9. ASSUME NEW w \in Worker, Process(w) PROVE Singleton'
  BY <1>9, Kinds DEF Process, Goto, Configured, object, thread, server, Places, Singleton,
         Getting, Holding, Configured, TypeOK, Labels
<1>10. CASE RecvFrom
  BY <1>10, Kinds DEF RecvFrom, Goto, object, thread, server, Places, Singleton, Getting,
         Holding, Configured, TypeOK, Labels
<1>11. CASE RecvFails
  BY <1>11, Kinds DEF RecvFails, Goto, object, thread, server, Places, Singleton, Getting,
         Holding, Configured, TypeOK, Labels
<1>12. ASSUME NEW t \in Thread, TakeMux(t) PROVE Singleton'
  BY <1>12, Kinds DEF TakeMux, Goto, Free, object, thread, server, Places, Singleton,
         Getting, Holding, Configured, TypeOK, Labels
<1>13. ASSUME NEW t \in Thread, CopyPos(t) PROVE Singleton'
  BY <1>13, Kinds DEF CopyPos, Goto, CopyMember, Assigned, Assigning, object, thread, server, Places,
         Singleton, Getting, Holding, Configured, TypeOK, Labels
<1>14. ASSUME NEW t \in Thread, CopyGain(t) PROVE Singleton'
  BY <1>14, Kinds DEF CopyGain, Goto, CopyMember, Assigned, Assigning, object, thread, server, Places,
         Singleton, Getting, Holding, Configured, TypeOK, Labels
<1>15. ASSUME NEW t \in Thread, GiveMux(t) PROVE Singleton'
  BY <1>15, Kinds DEF GiveMux, Goto, Released, object, thread, server, Places, Singleton,
         Getting, Holding, Configured, TypeOK, Labels
<1>16. ASSUME NEW w \in Worker, Apply(w) PROVE Singleton'
  BY <1>16, Kinds DEF Apply, Goto, object, thread, server, Places, Singleton, Getting,
         Holding, Configured, TypeOK, Labels
<1>17. CASE Reply
  BY <1>17, Kinds DEF Reply, Post, object, thread, server, Places, Singleton, Getting,
         Holding, Configured, TypeOK, Labels
<1>18. CASE Broadcast
  BY <1>18, Kinds DEF Broadcast, Post, object, thread, server, Places, Singleton, Getting,
         Holding, Configured, TypeOK, Labels
<1>19. ASSUME NEW d \in posted, Deliver(d) PROVE Singleton'
  BY <1>19, Kinds DEF Deliver, object, thread, server, Places, Singleton, Getting,
         Holding, Configured, TypeOK, Labels
<1>20. CASE UNCHANGED vars
  BY <1>20, Kinds DEF vars, object, thread, server, Places, Singleton, Getting, Holding,
         Configured, TypeOK, Labels
<1>21. QED
  BY <1>1, <1>2, <1>3, <1>4, <1>5, <1>6, <1>7, <1>8, <1>9, <1>10, <1>11, <1>12, <1>13, <1>14, <1>15, <1>16, <1>17, <1>18, <1>19, <1>20, Kinds
     DEF Next, threadFuncCaliReceive, Decider, EventTask, Network, Copying, GetInstance

(* A step keeps sockets and recvbuf to what was sent. *)
LEMMA InboundStep ==
  ASSUME TypeOK, TypeOK', Places, Singleton, Singleton', Inbound, [Next]_vars PROVE Inbound'
<1>1. ASSUME NEW t \in Thread, Check(t) PROVE Inbound'
  BY <1>1, Kinds DEF Check, Goto, Unmade, Entry, object, thread, server, Inbound, Posted,
         Places, Singleton, Getting, Holding, TypeOK, Labels
<1>2. ASSUME NEW t \in Thread, Construct(t) PROVE Inbound'
  BY <1>2, Kinds DEF Construct, Goto, object, thread, server, Inbound, Posted, Places,
         Singleton, Getting, Holding, TypeOK, Labels
<1>3. ASSUME NEW t \in Thread, Assign(t) PROVE Inbound'
  BY <1>3, Kinds DEF Assign, Goto, object, thread, server, Inbound, Posted, Places,
         Singleton, Getting, Holding, TypeOK, Labels
<1>4. ASSUME NEW t \in Thread, Return(t) PROVE Inbound'
  BY <1>4, Kinds DEF Return, Goto, Entry, object, thread, server, Inbound, Posted, Places,
         Singleton, Getting, Holding, TypeOK, Labels
<1>5. CASE SendConfig
  BY <1>5, Kinds DEF SendConfig, Goto, object, thread, server, Inbound, Posted, Places,
         Singleton, Getting, Holding, TypeOK, Labels
<1>6. CASE SendInitRequest
  BY <1>6, Kinds DEF SendInitRequest, Goto, object, thread, server, Inbound, Posted,
         Places, Singleton, Getting, Holding, TypeOK, Labels
<1>7. ASSUME NEW w \in Worker, Decide(w) PROVE Inbound'
  BY <1>7, Kinds DEF Decide, object, thread, server, Inbound, Posted, Places, Singleton,
         Getting, Holding, TypeOK, Labels
<1>8. CASE SendCaliData
  BY <1>8, Kinds DEF SendCaliData, Goto, object, thread, server, Inbound, Posted, Places,
         Singleton, Getting, Holding, TypeOK, Labels
<1>9. ASSUME NEW w \in Worker, Process(w) PROVE Inbound'
  BY <1>9, Kinds DEF Process, Goto, Configured, object, thread, server, Inbound, Posted,
         Places, Singleton, Getting, Holding, TypeOK, Labels
<1>10. CASE RecvFrom
  <2> DEFINE o == this["recv"]
             q == sockbuf[o]
  <2>1. o \in Thread /\ q \in Seq(Result) /\ q # <<>>
    BY <1>10, Kinds DEF RecvFrom, TypeOK, Singleton, Holding
  <2>2. Posted(o, Head(q))
    <3>1. 1 \in 1..Len(q) /\ Head(q) = q[1]
      BY <2>1
    <3>2. QED
      BY <2>1, <3>1 DEF Inbound
  <2>3. \A i \in 1..Len(Tail(q)) : Posted(o, Tail(q)[i])
    <3> SUFFICES ASSUME NEW i \in 1..Len(Tail(q)) PROVE Posted(o, Tail(q)[i])
      OBVIOUS
    <3>1. i + 1 \in 1..Len(q) /\ Tail(q)[i] = q[i + 1]
      BY <2>1
    <3>2. QED
      BY <2>1, <3>1 DEF Inbound
  <2>4. /\ sockbuf' = [sockbuf EXCEPT ![o] = Tail(q)]
        /\ buf' = [buf EXCEPT !["recv"] = Head(q)]
        /\ UNCHANGED <<posted, this>>
    BY <1>10 DEF RecvFrom, server
  <2>5. \A p \in Thread : \A i \in 1..Len(sockbuf'[p]) : Posted(p, sockbuf'[p][i])
    <3>1. \A p \in Thread : p # o => sockbuf'[p] = sockbuf[p]
      BY <2>1, <2>4 DEF TypeOK
    <3>2. sockbuf'[o] = Tail(q)
      BY <2>1, <2>4 DEF TypeOK
    <3>3. QED
      BY <2>3, <3>1, <3>2 DEF Inbound
  <2>6. this'["recv"] = o /\ buf'["recv"] = Head(q)
    BY <2>4, Kinds DEF TypeOK
  <2>7. QED
    BY <2>2, <2>4, <2>5, <2>6 DEF Inbound, Posted
<1>11. CASE RecvFails
  BY <1>11, Kinds DEF RecvFails, Goto, object, thread, server, Inbound, Posted, Places,
         Singleton, Getting, Holding, TypeOK, Labels
<1>12. ASSUME NEW t \in Thread, TakeMux(t) PROVE Inbound'
  BY <1>12, Kinds DEF TakeMux, Goto, Free, object, thread, server, Inbound, Posted,
         Places, Singleton, Getting, Holding, TypeOK, Labels
<1>13. ASSUME NEW t \in Thread, CopyPos(t) PROVE Inbound'
  BY <1>13, Kinds DEF CopyPos, Goto, CopyMember, Assigned, Assigning, object, thread, server, Inbound, Posted,
         Places, Singleton, Getting, Holding, TypeOK, Labels
<1>14. ASSUME NEW t \in Thread, CopyGain(t) PROVE Inbound'
  BY <1>14, Kinds DEF CopyGain, Goto, CopyMember, Assigned, Assigning, object, thread, server, Inbound, Posted,
         Places, Singleton, Getting, Holding, TypeOK, Labels
<1>15. ASSUME NEW t \in Thread, GiveMux(t) PROVE Inbound'
  BY <1>15, Kinds DEF GiveMux, Goto, Released, object, thread, server, Inbound, Posted,
         Places, Singleton, Getting, Holding, TypeOK, Labels
<1>16. ASSUME NEW w \in Worker, Apply(w) PROVE Inbound'
  BY <1>16, Kinds DEF Apply, Goto, object, thread, server, Inbound, Posted, Places,
         Singleton, Getting, Holding, TypeOK, Labels
<1>17. CASE Reply
  BY <1>17, Kinds DEF Reply, Post, object, thread, server, Inbound, Posted, Places,
         Singleton, Getting, Holding, TypeOK, Labels
<1>18. CASE Broadcast
  BY <1>18, Kinds DEF Broadcast, Post, object, thread, server, Inbound, Posted, Places,
         Singleton, Getting, Holding, TypeOK, Labels
<1>19. ASSUME NEW d \in posted, Deliver(d) PROVE Inbound'
  <2>1. /\ d.to \in Thread /\ d.data \in Result /\ Posted(d.to, d.data)
        /\ sockbuf[d.to] \in Seq(Result)
    BY PostedType DEF TypeOK, Posted
  <2>2. \A i \in 1..Len(Append(sockbuf[d.to], d.data)) : Posted(d.to, Append(sockbuf[d.to], d.data)[i])
    BY <2>1 DEF Inbound
  <2>3. /\ sockbuf' = [sockbuf EXCEPT ![d.to] = Append(sockbuf[d.to], d.data)]
        /\ UNCHANGED <<posted, this, buf, pc>>
    BY <1>19 DEF Deliver, thread, server
  <2>4. \A p \in Thread : \A i \in 1..Len(sockbuf'[p]) : Posted(p, sockbuf'[p][i])
    <3>1. \A p \in Thread : p # d.to => sockbuf'[p] = sockbuf[p]
      BY <2>1, <2>3 DEF TypeOK
    <3>2. sockbuf'[d.to] = Append(sockbuf[d.to], d.data)
      BY <2>1, <2>3 DEF TypeOK
    <3>3. QED
      BY <2>2, <3>1, <3>2 DEF Inbound
  <2>5. QED
    BY <2>3, <2>4 DEF Inbound, Posted
<1>20. CASE UNCHANGED vars
  BY <1>20, Kinds DEF vars, object, thread, server, Inbound, Posted, Places, Singleton,
         Getting, Holding, TypeOK, Labels
<1>21. QED
  BY <1>1, <1>2, <1>3, <1>4, <1>5, <1>6, <1>7, <1>8, <1>9, <1>10, <1>11, <1>12, <1>13, <1>14, <1>15, <1>16, <1>17, <1>18, <1>19, <1>20, Kinds
     DEF Next, threadFuncCaliReceive, Decider, EventTask, Network, Copying, GetInstance

(* A step keeps the mutex and what it guards in order. *)
LEMMA LockingStep ==
  ASSUME TypeOK, TypeOK', Places, Places', Singleton, Singleton', Inbound, Locking, [Next]_vars PROVE Locking'
<1>1. ASSUME NEW t \in Thread, Check(t) PROVE Locking'
  <2>1. \A s \in Thread :
          /\ pc'[s] \in {"copy", "copy2", "unlock"} => Critical(s)
          /\ pc'[s] = "copy2" <=> pc[s] = "copy2"
    BY <1>1, Kinds DEF Check, Goto, Critical, Places, TypeOK, Unmade, Entry, Getting
  <2>2. UNCHANGED <<mux, caliResult, buf, applied>>
    BY <1>1 DEF Check, object, thread
  <2>3. \A s \in Thread : Critical(s) => this'[s] = this[s]
    BY <1>1, Kinds DEF Check, Critical, TypeOK, thread
  <2>4. \A s \in Thread : Critical(s)' => mux'[this'[s]] = s
    BY <2>1, <2>2, <2>3 DEF Locking, Critical
  <2>5. QED
    BY <2>1, <2>2, <2>3, <2>4, Kinds DEF Locking, IsWhole, Critical
<1>2. ASSUME NEW t \in Thread, Construct(t) PROVE Locking'
  <2>1. \A s \in Thread :
          /\ pc'[s] \in {"copy", "copy2", "unlock"} => Critical(s)
          /\ pc'[s] = "copy2" <=> pc[s] = "copy2"
    BY <1>2, Kinds DEF Construct, Goto, Critical, TypeOK
  <2>2. t \notin made /\ caliResult' = caliResult
    BY <1>2 DEF Construct, Singleton, TypeOK
  <2>3. \A s \in Thread : Critical(s) => this[s] # t
    BY <2>2 DEF Critical, Singleton, Holding
  <2>4. mux' = [mux EXCEPT ![t] = "null"] /\ UNCHANGED <<this, buf, applied>>
    BY <1>2 DEF Construct
  <2>5. \A s \in Thread : Critical(s)' => mux'[this'[s]] = s
    BY <2>1, <2>3, <2>4 DEF Locking, TypeOK, Critical
  <2>6. QED
    BY <2>1, <2>2, <2>4, <2>5, Kinds DEF Locking, IsWhole, Critical
<1>3. ASSUME NEW t \in Thread, Assign(t) PROVE Locking'
  <2>1. \A s \in Thread :
          /\ pc'[s] \in {"copy", "copy2", "unlock"} => Critical(s)
          /\ pc'[s] = "copy2" <=> pc[s] = "copy2"
    BY <1>3, Kinds DEF Assign, Goto, Critical, Places, TypeOK, Getting
  <2>2. UNCHANGED <<mux, caliResult, buf, applied>>
    BY <1>3 DEF Assign, object, thread
  <2>3. \A s \in Thread : Critical(s) => this'[s] = this[s]
    BY <1>3, Kinds DEF Assign, Critical, TypeOK, thread
  <2>4. \A s \in Thread : Critical(s)' => mux'[this'[s]] = s
    BY <2>1, <2>2, <2>3 DEF Locking, Critical
  <2>5. QED
    BY <2>1, <2>2, <2>3, <2>4, Kinds DEF Locking, IsWhole, Critical
<1>4. ASSUME NEW t \in Thread, Return(t) PROVE Locking'
  <2>1. \A s \in Thread :
          /\ pc'[s] \in {"copy", "copy2", "unlock"} => Critical(s)
          /\ pc'[s] = "copy2" <=> pc[s] = "copy2"
    BY <1>4, Kinds DEF Return, Goto, Critical, Places, TypeOK, Entry, Getting
  <2>2. UNCHANGED <<mux, caliResult, buf, applied>>
    BY <1>4 DEF Return, object, thread
  <2>3. \A s \in Thread : Critical(s) => this'[s] = this[s]
    BY <1>4, Kinds DEF Return, Critical, TypeOK, thread
  <2>4. \A s \in Thread : Critical(s)' => mux'[this'[s]] = s
    BY <2>1, <2>2, <2>3 DEF Locking, Critical
  <2>5. QED
    BY <2>1, <2>2, <2>3, <2>4, Kinds DEF Locking, IsWhole, Critical
<1>5. CASE SendConfig
  <2>1. \A s \in Thread :
          /\ pc'[s] \in {"copy", "copy2", "unlock"} => Critical(s)
          /\ pc'[s] = "copy2" <=> pc[s] = "copy2"
    BY <1>5, Kinds DEF SendConfig, Goto, Critical, Places, TypeOK
  <2>2. UNCHANGED <<mux, caliResult, this>> /\ buf'["recv"] = buf["recv"]
    BY <1>5, Kinds DEF SendConfig, object
  <2>3. \A w \in Worker : pc[w] # "copy2" /\ buf'[w] = Blank /\ applied'[w] = Blank
    BY <1>5, Kinds DEF SendConfig
  <2>4. \A s \in Thread : Critical(s)' => mux'[this'[s]] = s
    BY <2>1, <2>2 DEF Locking, Critical
  <2>5. IsWhole(Blank)
    BY BlankType DEF IsWhole
  <2>6. \A o \in Thread : (pc'["recv"] = "copy2" /\ this'["recv"] = o) \/ IsWhole(caliResult'[o])
    BY <2>1, <2>2, Kinds DEF Locking
  <2>7. pc'["recv"] = "copy2" => caliResult'[this'["recv"]].pos = buf'["recv"].pos
    BY <2>1, <2>2, Kinds DEF Locking
  <2>8. QED
    BY <2>1, <2>3, <2>4, <2>5, <2>6, <2>7, Kinds DEF Locking, IsWhole
<1>6. CASE SendInitRequest
  <2>1. \A s \in Thread :
          /\ pc'[s] \in {"copy", "copy2", "unlock"} => Critical(s)
          /\ pc'[s] = "copy2" <=> pc[s] = "copy2"
    BY <1>6, Kinds DEF SendInitRequest, Goto, Critical, Places, TypeOK
  <2>2. UNCHANGED <<this, mux, caliResult, buf, applied>>
    BY <1>6 DEF SendInitRequest, object, thread
  <2>3. QED
    BY <2>1, <2>2, Kinds DEF Locking, IsWhole, Critical
<1>7. ASSUME NEW w \in Worker, Decide(w) PROVE Locking'
  <2>1. \A s \in Thread :
          /\ pc'[s] \in {"copy", "copy2", "unlock"} => Critical(s)
          /\ pc'[s] = "copy2" <=> pc[s] = "copy2"
    BY <1>7, Kinds DEF Decide, Goto, Critical, Places, TypeOK
  <2>2. UNCHANGED <<this, mux, caliResult, buf, applied>>
    BY <1>7 DEF Decide, object, thread
  <2>3. QED
    BY <2>1, <2>2, Kinds DEF Locking, IsWhole, Critical
<1>8. CASE SendCaliData
  <2>1. \A s \in Thread :
          /\ pc'[s] \in {"copy", "copy2", "unlock"} => Critical(s)
          /\ pc'[s] = "copy2" <=> pc[s] = "copy2"
    BY <1>8, Kinds DEF SendCaliData, Goto, Critical, Places, TypeOK
  <2>2. UNCHANGED <<mux, caliResult, buf, applied>>
    BY <1>8 DEF SendCaliData, object, thread
  <2>3. \A s \in Thread : Critical(s) => this'[s] = this[s]
    BY <1>8, Kinds DEF SendCaliData, Critical, TypeOK, thread
  <2>4. \A s \in Thread : Critical(s)' => mux'[this'[s]] = s
    BY <2>1, <2>2, <2>3 DEF Locking, Critical
  <2>5. QED
    BY <2>1, <2>2, <2>3, <2>4, Kinds DEF Locking, IsWhole, Critical
<1>9. ASSUME NEW w \in Worker, Process(w) PROVE Locking'
  <2>1. \A s \in Thread :
          /\ pc'[s] \in {"copy", "copy2", "unlock"} => Critical(s)
          /\ pc'[s] = "copy2" <=> pc[s] = "copy2"
    BY <1>9, Kinds DEF Process, Goto, Critical, Places, TypeOK, Configured
  <2>2. UNCHANGED <<mux, caliResult, buf, applied>>
    BY <1>9 DEF Process, object, thread
  <2>3. \A s \in Thread : Critical(s) => this'[s] = this[s]
    BY <1>9, Kinds DEF Process, Critical, TypeOK, thread
  <2>4. \A s \in Thread : Critical(s)' => mux'[this'[s]] = s
    BY <2>1, <2>2, <2>3 DEF Locking, Critical
  <2>5. QED
    BY <2>1, <2>2, <2>3, <2>4, Kinds DEF Locking, IsWhole, Critical
<1>10. CASE RecvFrom
  BY <1>10, Kinds, BlankType DEF RecvFrom, Goto, object, thread, server, Locking, IsWhole,
         Critical, Places, Singleton, Getting, Holding, TypeOK, Labels
<1>11. CASE RecvFails
  <2>1. \A s \in Thread :
          /\ pc'[s] \in {"copy", "copy2", "unlock"} => Critical(s)
          /\ pc'[s] = "copy2" <=> pc[s] = "copy2"
    BY <1>11, Kinds DEF RecvFails, Goto, Critical, Places, TypeOK
  <2>2. UNCHANGED <<this, mux, caliResult, buf, applied>>
    BY <1>11 DEF RecvFails, object, thread
  <2>3. QED
    BY <2>1, <2>2, Kinds DEF Locking, IsWhole, Critical
<1>12. ASSUME NEW t \in Thread, TakeMux(t) PROVE Locking'
  BY <1>12, Kinds, BlankType DEF TakeMux, Goto, Free, object, thread, server, Locking,
         IsWhole, Critical, Places, Singleton, Getting, Holding, TypeOK, Labels
<1>13. ASSUME NEW t \in Thread, CopyPos(t) PROVE Locking'
  <2>1. /\ pc' = [pc EXCEPT ![t] = "copy2"] /\ pc[t] = "copy"
        /\ UNCHANGED <<mux, this, applied>>
    BY <1>13 DEF CopyPos, CopyMember, Assigned, Assigning, Goto
  <2>2. \A s \in Thread : Critical(s)' <=> Critical(s)
    BY <2>1 DEF Critical, TypeOK
  <2>3. /\ this[t] \in Thread
        /\ \A s \in Thread : s # t /\ Critical(s) => this[s] # this[t]
    BY <2>1, Exclusion DEF Critical, Singleton, Holding, TypeOK
  <2>4. CASE t = "recv"
    <3>1. /\ caliResult' = [caliResult EXCEPT ![this[t]] = WithPos(caliResult[this[t]], buf[t])]
          /\ buf' = buf
      BY <1>13, <2>4, Member
    <3>2. \A w \in Worker : pc[w] = "copy2" => caliResult'[this[w]] = caliResult[this[w]]
      BY <2>3, <2>4, <3>1, Kinds DEF Critical, Singleton, Holding, TypeOK
    <3>3. caliResult'[this[t]].pos = buf[t].pos
      BY <2>3, <3>1 DEF TypeOK, WithPos
    <3>4. \A o \in Thread : o # this[t] => caliResult'[o] = caliResult[o]
      BY <3>1 DEF TypeOK
    <3>5. pc'["recv"] = "copy2" /\ \A w \in Worker : pc'[w] = pc[w]
      BY <2>1, <2>4, Kinds DEF TypeOK
    <3>6. QED
      BY <2>1, <2>2, <2>4, <3>1, <3>2, <3>3, <3>4, <3>5 DEF Locking, IsWhole
  <2>5. CASE t \in Worker
    <3>1. /\ buf' = [buf EXCEPT ![t] = WithPos(buf[t], caliResult[this[t]])]
          /\ caliResult' = caliResult
      BY <1>13, <2>5, Member, Kinds
    <3>2. buf'[t].pos = caliResult[this[t]].pos /\ \A s \in Thread : s # t => buf'[s] = buf[s]
      BY <3>1 DEF TypeOK, WithPos
    <3>3. pc'[t] = "copy2" /\ \A s \in Thread : s # t => pc'[s] = pc[s]
      BY <2>1 DEF TypeOK
    <3>4. QED
      BY <2>1, <2>2, <2>5, <3>1, <3>2, <3>3, Kinds DEF Locking, IsWhole
  <2>6. QED
    BY <2>1, <2>4, <2>5, Kinds DEF Places, Getting
<1>14. ASSUME NEW t \in Thread, CopyGain(t) PROVE Locking'
  <2>1. /\ pc' = [pc EXCEPT ![t] = "unlock"] /\ pc[t] = "copy2"
        /\ UNCHANGED <<mux, this, applied>>
    BY <1>14 DEF CopyGain, CopyMember, Assigned, Assigning, Goto
  <2>2. \A s \in Thread : Critical(s)' <=> Critical(s)
    BY <2>1 DEF Critical, TypeOK
  <2>3. /\ this[t] \in Thread
        /\ \A s \in Thread : s # t /\ Critical(s) => this[s] # this[t]
    BY <2>1, Exclusion DEF Critical, Singleton, Holding, TypeOK
  <2>4. CASE t = "recv"
    <3>1. /\ caliResult' = [caliResult EXCEPT ![this[t]] = WithGain(caliResult[this[t]], buf[t])]
          /\ buf' = buf
      BY <1>14, <2>4, Member
    <3>2. \A w \in Worker : pc[w] = "copy2" => caliResult'[this[w]] = caliResult[this[w]]
      BY <2>3, <2>4, <3>1, Kinds DEF Critical, Singleton, Holding, TypeOK
    <3>3. IsWhole(caliResult'[this[t]])
      BY <2>1, <2>3, <2>4, <3>1, Received DEF TypeOK, WithGain, IsWhole, Locking
    <3>4. \A o \in Thread : o # this[t] => caliResult'[o] = caliResult[o]
      BY <3>1 DEF TypeOK
    <3>5. pc'["recv"] = "unlock" /\ \A w \in Worker : pc'[w] = pc[w]
      BY <2>1, <2>4, Kinds DEF TypeOK
    <3>6. \A o \in Thread : IsWhole(caliResult'[o])
      BY <2>4, <3>3, <3>4 DEF Locking
    <3>7. QED
      BY <2>1, <2>2, <2>4, <3>1, <3>2, <3>5, <3>6 DEF Locking, IsWhole
  <2>5. CASE t \in Worker
    <3>1. /\ buf' = [buf EXCEPT ![t] = WithGain(buf[t], caliResult[this[t]])]
          /\ caliResult' = caliResult
      BY <1>14, <2>5, Member, Kinds
    <3>2. IsWhole(caliResult[this[t]])
      BY <2>1, <2>3, <2>5, Kinds DEF Locking, Critical
    <3>3. IsWhole(buf'[t]) /\ \A s \in Thread : s # t => buf'[s] = buf[s]
      BY <2>1, <2>5, <3>1, <3>2 DEF TypeOK, WithGain, IsWhole, Locking
    <3>4. pc'[t] = "unlock" /\ \A s \in Thread : s # t => pc'[s] = pc[s]
      BY <2>1 DEF TypeOK
    <3>5. QED
      BY <2>1, <2>2, <2>5, <3>1, <3>3, <3>4, Kinds DEF Locking, IsWhole
  <2>6. QED
    BY <2>1, <2>4, <2>5, Kinds DEF Places, Getting
<1>15. ASSUME NEW t \in Thread, GiveMux(t) PROVE Locking'
  BY <1>15, Kinds, BlankType DEF GiveMux, Goto, Released, object, thread, server, Locking,
         IsWhole, Critical, Places, Singleton, Getting, Holding, TypeOK, Labels
<1>16. ASSUME NEW w \in Worker, Apply(w) PROVE Locking'
  BY <1>16, Kinds, BlankType DEF Apply, Goto, object, thread, server, Locking, IsWhole,
         Critical, Places, Singleton, Getting, Holding, TypeOK, Labels
<1>17. CASE Reply
  BY <1>17, Kinds, BlankType DEF Reply, Post, object, thread, server, Locking, IsWhole,
         Critical, Places, Singleton, Getting, Holding, TypeOK, Labels
<1>18. CASE Broadcast
  BY <1>18, Kinds, BlankType DEF Broadcast, Post, object, thread, server, Locking,
         IsWhole, Critical, Places, Singleton, Getting, Holding, TypeOK, Labels
<1>19. ASSUME NEW d \in posted, Deliver(d) PROVE Locking'
  BY <1>19, Kinds, BlankType DEF Deliver, object, thread, server, Locking, IsWhole,
         Critical, Places, Singleton, Getting, Holding, TypeOK, Labels
<1>20. CASE UNCHANGED vars
  BY <1>20, Kinds, BlankType DEF vars, object, thread, server, Locking, IsWhole, Critical,
         Places, Singleton, Getting, Holding, TypeOK, Labels
<1>21. QED
  BY <1>1, <1>2, <1>3, <1>4, <1>5, <1>6, <1>7, <1>8, <1>9, <1>10, <1>11, <1>12, <1>13, <1>14, <1>15, <1>16, <1>17, <1>18, <1>19, <1>20, Kinds
     DEF Next, threadFuncCaliReceive, Decider, EventTask, Network, Copying, GetInstance

(* A step keeps what has been received in reach. *)
LEMMA SettlingStep ==
  ASSUME TypeOK, TypeOK', Places, Places', Singleton, Inbound, Locking, Settling, [Next]_vars PROVE Settling'
<1>1. ASSUME NEW t \in Thread, Check(t) PROVE Settling'
  <2>1. UNCHANGED <<nRun, job, instance, caliResult, buf, applied>>
    BY <1>1 DEF Check, object
  <2>2. CASE t \in Worker
    <3>1. pc' = [pc EXCEPT ![t] = "lock"] /\ this' = [this EXCEPT ![t] = instance]
      BY <1>1, <2>2, Kinds DEF Check, Goto, Unmade, Entry, Singleton
    <3>2. /\ pc'[t] = "lock" /\ this'[t] = instance /\ instance # "null" /\ pc[t] = "get"
          /\ \A s \in Thread : s # t => pc'[s] = pc[s] /\ this'[s] = this[s]
      BY <1>1, <2>2, <3>1, Kinds DEF TypeOK, Check, Singleton
    <3>3. \A w \in Worker : Seen(w) => Seen(w)'
      BY <2>1, <3>2, Kinds DEF Seen
    <3>4. QED
      BY <2>1, <2>2, <3>2, <3>3, Kinds DEF Settling, Getting, Holding
  <2>3. CASE t \in {"recv", "main"}
    <3>1. /\ \A s \in Thread : s # t => pc'[s] = pc[s] /\ this'[s] = this[s]
          /\ pc[t] = "get"
          /\ \/ instance = "null" /\ pc'[t] = "new"
             \/ instance # "null" /\ this'[t] = instance /\ pc'[t] \notin Getting
      BY <1>1, <2>3, Kinds DEF Check, Goto, Unmade, Entry, Getting, TypeOK
    <3>2. \A w \in Worker : w # t /\ (Seen(w) => Seen(w)')
      BY <2>1, <2>3, <3>1, Kinds DEF Seen
    <3>3. instance = "null" /\ t = "main" => job = "INIT"
      BY <3>1 DEF Singleton, Configured, Settling
    <3>4. QED
      BY <2>1, <2>3, <3>1, <3>2, <3>3, Kinds DEF Settling, Getting, Holding
  <2>4. QED
    BY <2>2, <2>3, Kinds
<1>2. ASSUME NEW t \in Thread, Construct(t) PROVE Settling'
  BY <1>2, Kinds, BlankType DEF Construct, Goto, object, thread, server, Settling, Seen,
         Places, Singleton, Getting, Holding, Configured, TypeOK, Labels
<1>3. ASSUME NEW t \in Thread, Assign(t) PROVE Settling'
  BY <1>3, Kinds, BlankType DEF Assign, Goto, object, thread, server, Settling, Seen,
         Places, Singleton, Getting, Holding, Configured, TypeOK, Labels
<1>4. ASSUME NEW t \in Thread, Return(t) PROVE Settling'
  BY <1>4, Kinds, BlankType DEF Return, Goto, Entry, object, thread, server, Settling,
         Seen, Places, Singleton, Getting, Holding, Configured, TypeOK, Labels
<1>5. CASE SendConfig
  BY <1>5, Kinds, BlankType DEF SendConfig, Goto, object, thread, server, Settling, Seen,
         Places, Singleton, Getting, Holding, Configured, TypeOK, Labels
<1>6. CASE SendInitRequest
  BY <1>6, Kinds, BlankType DEF SendInitRequest, Goto, object, thread, server, Settling,
         Seen, Places, Singleton, Getting, Holding, Configured, TypeOK, Labels
<1>7. ASSUME NEW w \in Worker, Decide(w) PROVE Settling'
  BY <1>7, Kinds, BlankType DEF Decide, object, thread, server, Settling, Seen, Places,
         Singleton, Getting, Holding, Configured, TypeOK, Labels
<1>8. CASE SendCaliData
  BY <1>8, Kinds, BlankType DEF SendCaliData, Goto, object, thread, server, Settling,
         Seen, Places, Singleton, Getting, Holding, Configured, TypeOK, Labels
<1>9. ASSUME NEW w \in Worker, Process(w) PROVE Settling'
  BY <1>9, Kinds, BlankType DEF Process, Goto, Configured, object, thread, server,
         Settling, Seen, Places, Singleton, Getting, Holding, Configured, TypeOK, Labels
<1>10. CASE RecvFrom
  BY <1>10, Kinds, BlankType DEF RecvFrom, Goto, object, thread, server, Settling, Seen,
         Places, Singleton, Getting, Holding, Configured, TypeOK, Labels
<1>11. CASE RecvFails
  BY <1>11, Kinds, BlankType DEF RecvFails, Goto, object, thread, server, Settling, Seen,
         Places, Singleton, Getting, Holding, Configured, TypeOK, Labels
<1>12. ASSUME NEW t \in Thread, TakeMux(t) PROVE Settling'
  BY <1>12, Kinds, BlankType DEF TakeMux, Goto, Free, object, thread, server, Settling,
         Seen, Places, Singleton, Getting, Holding, Configured, TypeOK, Labels
<1>13. ASSUME NEW t \in Thread, CopyPos(t) PROVE Settling'
  <2>1. /\ pc' = [pc EXCEPT ![t] = "copy2"] /\ pc[t] \in {"copy", "copy2"}
        /\ UNCHANGED <<nRun, job, instance, this, applied>>
    BY <1>13 DEF CopyPos, CopyMember, Assigned, Assigning, Goto
  <2>2. this[t] \in Thread
    BY <2>1 DEF Singleton, Holding, TypeOK
  <2>3. CASE t = "recv"
    <3>1. /\ caliResult' = [caliResult EXCEPT ![this[t]] = WithPos(caliResult[this[t]], buf[t])]
          /\ buf' = buf
      BY <1>13, <2>3, Member
    <3>2. WithPos(caliResult[this[t]], buf[t]) # Blank
      BY <2>1, <2>2, <2>3, Received, NotBlank DEF TypeOK
    <3>3. \A o \in Thread : caliResult[o] # Blank => caliResult'[o] # Blank
      BY <3>1, <3>2 DEF TypeOK
    <3>4. instance = "recv" => this[t] = "recv" /\ caliResult'["main"] = caliResult["main"]
      BY <2>1, <2>3, <3>1, Kinds DEF Settling, Holding, TypeOK
    <3>5. /\ pc'["recv"] = "copy2" /\ \A s \in Thread : s # "recv" => pc'[s] = pc[s]
      BY <2>1, <2>3, Kinds DEF TypeOK
    <3>6. \A w \in Worker : Seen(w) => Seen(w)'
      BY <2>1, <3>3, <3>5, Kinds DEF Seen, TypeOK
    <3>7. instance # "null"
      BY <2>1, <2>3 DEF Singleton, Holding
    <3>8. QED
      BY <2>1, <2>3, <3>1, <3>4, <3>5, <3>6, <3>7, Kinds DEF Settling, Getting, Holding
  <2>4. CASE t \in Worker
    <3>1. /\ caliResult' = caliResult /\ \A s \in Thread : s # t => buf'[s] = buf[s]
      BY <1>13, <2>4, Member, Kinds DEF TypeOK
    <3>2. /\ pc'[t] = "copy2" /\ pc[t] = "copy" /\ \A s \in Thread : s # t => pc'[s] = pc[s]
      BY <1>13, <2>1 DEF TypeOK, CopyPos
    <3>3. \A w \in Worker : Seen(w) <=> Seen(w)'
      BY <2>1, <2>4, <3>1, <3>2, Kinds DEF Seen, Holding
    <3>4. QED
      BY <2>1, <2>4, <3>1, <3>2, <3>3, Kinds DEF Settling, Getting, Holding
  <2>5. QED
    BY <2>1, <2>3, <2>4, Kinds DEF Places, Getting
<1>14. ASSUME NEW t \in Thread, CopyGain(t) PROVE Settling'
  <2>1. /\ pc' = [pc EXCEPT ![t] = "unlock"] /\ pc[t] \in {"copy", "copy2"}
        /\ UNCHANGED <<nRun, job, instance, this, applied>>
    BY <1>14 DEF CopyGain, CopyMember, Assigned, Assigning, Goto
  <2>2. this[t] \in Thread
    BY <2>1 DEF Singleton, Holding, TypeOK
  <2>3. CASE t = "recv"
    <3>1. /\ caliResult' = [caliResult EXCEPT ![this[t]] = WithGain(caliResult[this[t]], buf[t])]
          /\ buf' = buf
      BY <1>14, <2>3, Member
    <3>2. WithGain(caliResult[this[t]], buf[t]) # Blank
      BY <2>1, <2>2, <2>3, Received, NotBlank DEF TypeOK
    <3>3. \A o \in Thread : caliResult[o] # Blank => caliResult'[o] # Blank
      BY <3>1, <3>2 DEF TypeOK
    <3>4. instance = "recv" => this[t] = "recv" /\ caliResult'["main"] = caliResult["main"]
      BY <2>1, <2>3, <3>1, Kinds DEF Settling, Holding, TypeOK
    <3>5. /\ pc'["recv"] = "unlock" /\ \A s \in Thread : s # "recv" => pc'[s] = pc[s]
      BY <2>1, <2>3, Kinds DEF TypeOK
    <3>6. \A w \in Worker : Seen(w) => Seen(w)'
      BY <2>1, <3>3, <3>5, Kinds DEF Seen, TypeOK
    <3>7. instance # "null"
      BY <2>1, <2>3 DEF Singleton, Holding
    <3>8. QED
      BY <2>1, <2>3, <3>1, <3>4, <3>5, <3>6, <3>7, Kinds DEF Settling, Getting, Holding
  <2>4. CASE t \in Worker
    <3>1. /\ caliResult' = caliResult /\ \A s \in Thread : s # t => buf'[s] = buf[s]
          /\ buf'[t] = WithGain(buf[t], caliResult[this[t]])
      BY <1>14, <2>4, Member, Kinds DEF TypeOK
    <3>2. /\ pc'[t] = "unlock" /\ pc[t] = "copy2" /\ \A s \in Thread : s # t => pc'[s] = pc[s]
      BY <1>14, <2>1 DEF TypeOK, CopyGain
    <3>3. \A w \in Worker : Seen(w) <=> Seen(w)'
      BY <2>1, <2>4, <3>1, <3>2, Kinds DEF Seen, Holding
    <3>4. buf'[t] # Blank => caliResult[this[t]] # Blank
      BY <2>2, <2>4, <3>1, <3>2 DEF Locking, WithGain, Blank, TypeOK, Result
    <3>5. caliResult[this[t]] # Blank => Seen(t)
      BY <2>1, <2>2, <2>4, <3>2, Kinds DEF Settling, Seen, Holding, Singleton
    <3>6. applied[t] # Blank => buf'[t] # Blank
      BY <2>1, <2>2, <2>4, <3>1, <3>2 DEF Settling, Seen, Holding, Locking, WithGain,
             Blank, TypeOK, Result
    <3>7. QED
      BY <2>1, <2>4, <3>1, <3>2, <3>3, <3>4, <3>5, <3>6, Kinds
         DEF Settling, Getting, Holding
  <2>5. QED
    BY <2>1, <2>3, <2>4, Kinds DEF Places, Getting
<1>15. ASSUME NEW t \in Thread, GiveMux(t) PROVE Settling'
  BY <1>15, Kinds, BlankType DEF GiveMux, Goto, Released, object, thread, server,
         Settling, Seen, Places, Singleton, Getting, Holding, Configured, TypeOK, Labels
<1>16. ASSUME NEW w \in Worker, Apply(w) PROVE Settling'
  BY <1>16, Kinds, BlankType DEF Apply, Goto, object, thread, server, Settling, Seen,
         Places, Singleton, Getting, Holding, Configured, TypeOK, Labels
<1>17. CASE Reply
  BY <1>17, Kinds, BlankType DEF Reply, Post, object, thread, server, Settling, Seen,
         Places, Singleton, Getting, Holding, Configured, TypeOK, Labels
<1>18. CASE Broadcast
  BY <1>18, Kinds, BlankType DEF Broadcast, Post, object, thread, server, Settling, Seen,
         Places, Singleton, Getting, Holding, Configured, TypeOK, Labels
<1>19. ASSUME NEW d \in posted, Deliver(d) PROVE Settling'
  BY <1>19, Kinds, BlankType DEF Deliver, object, thread, server, Settling, Seen, Places,
         Singleton, Getting, Holding, Configured, TypeOK, Labels
<1>20. CASE UNCHANGED vars
  BY <1>20, Kinds, BlankType DEF vars, object, thread, server, Settling, Seen, Places,
         Singleton, Getting, Holding, Configured, TypeOK, Labels
<1>21. QED
  BY <1>1, <1>2, <1>3, <1>4, <1>5, <1>6, <1>7, <1>8, <1>9, <1>10, <1>11, <1>12, <1>13, <1>14, <1>15, <1>16, <1>17, <1>18, <1>19, <1>20, Kinds
     DEF Next, threadFuncCaliReceive, Decider, EventTask, Network, Copying, GetInstance

(* Every step of the client is a step of the cells, or none. *)
LEMMA CellStep ==
  ASSUME IInv, [Next]_vars PROVE [Cell!CellNext]_(Cell!vars)
<1> USE DEF IInv
<1>1. ASSUME NEW t \in Thread, Check(t) PROVE [Cell!CellNext]_(Cell!vars)
  <2>1. /\ Stored' = Stored /\ Copied' = Copied /\ posted' = posted
    BY <1>1, Kinds DEF Check, Stored, Copied, Places, Singleton, Holding, Getting, TypeOK,
           object, thread, server, Goto, Unmade, Entry
  <2>2. QED
    BY <2>1 DEF Cell!vars
<1>2. ASSUME NEW t \in Thread, Construct(t) PROVE [Cell!CellNext]_(Cell!vars)
  <2>1. caliResult' = caliResult /\ t \notin made
    BY <1>2 DEF Construct, Singleton, TypeOK
  <2>2. Stored' = Stored /\ Copied' = Copied /\ posted' = posted
    BY <1>2, <2>1, Kinds DEF Construct, Goto, Stored, Copied, TypeOK, server
  <2>3. QED
    BY <2>2 DEF Cell!vars
<1>3. ASSUME NEW t \in Thread, Assign(t) PROVE [Cell!CellNext]_(Cell!vars)
  <2>1. /\ Stored' = Stored /\ Copied' = Copied /\ posted' = posted
    BY <1>3, Kinds DEF Assign, Stored, Copied, Places, Singleton, Holding, Getting,
           TypeOK, object, thread, server, Goto
  <2>2. QED
    BY <2>1 DEF Cell!vars
<1>4. ASSUME NEW t \in Thread, Return(t) PROVE [Cell!CellNext]_(Cell!vars)
  <2>1. /\ Stored' = Stored /\ Copied' = Copied /\ posted' = posted
    BY <1>4, Kinds DEF Return, Stored, Copied, Places, Singleton, Holding, Getting,
           TypeOK, object, thread, server, Goto, Entry
  <2>2. QED
    BY <2>1 DEF Cell!vars
<1>5. CASE SendConfig
  <2>1. Stored' = Stored
    BY <1>5, Kinds DEF SendConfig, Goto, Stored, TypeOK, object
  <2>2. Copied' = [w \in Worker |-> Blank]
    BY <1>5, Kinds DEF SendConfig, Goto, Copied, TypeOK
  <2>3. QED
    BY <1>5, <2>1, <2>2 DEF SendConfig, server, Cell!Clear, Cell!CellNext
<1>6. CASE SendInitRequest
  <2>1. /\ Stored' = Stored /\ Copied' = Copied /\ posted' = posted
    BY <1>6, Kinds DEF SendInitRequest, Stored, Copied, Places, Singleton, Holding,
           Getting, TypeOK, object, thread, server, Goto
  <2>2. QED
    BY <2>1 DEF Cell!vars
<1>7. ASSUME NEW w \in Worker, Decide(w) PROVE [Cell!CellNext]_(Cell!vars)
  <2>1. /\ Stored' = Stored /\ Copied' = Copied /\ posted' = posted
    BY <1>7, Kinds DEF Decide, Stored, Copied, Places, Singleton, Holding, Getting,
           TypeOK, object, thread, server
  <2>2. QED
    BY <2>1 DEF Cell!vars
<1>8. CASE SendCaliData
  <2>1. /\ Stored' = Stored /\ Copied' = Copied /\ posted' = posted
    BY <1>8, Kinds DEF SendCaliData, Stored, Copied, Places, Singleton, Holding, Getting,
           TypeOK, object, thread, server, Goto
  <2>2. QED
    BY <2>1 DEF Cell!vars
<1>9. ASSUME NEW w \in Worker, Process(w) PROVE [Cell!CellNext]_(Cell!vars)
  <2>1. /\ Stored' = Stored /\ Copied' = Copied /\ posted' = posted
    BY <1>9, Kinds DEF Process, Stored, Copied, Places, Singleton, Holding, Getting,
           TypeOK, object, thread, server, Goto, Configured
  <2>2. QED
    BY <2>1 DEF Cell!vars
<1>10. CASE RecvFrom
  <2>1. /\ Stored' = Stored /\ Copied' = Copied /\ posted' = posted
    BY <1>10, Kinds DEF RecvFrom, Stored, Copied, Places, Singleton, Holding, Getting,
           TypeOK, object, thread, server, Goto
  <2>2. QED
    BY <2>1 DEF Cell!vars
<1>11. CASE RecvFails
  <2>1. /\ Stored' = Stored /\ Copied' = Copied /\ posted' = posted
    BY <1>11, Kinds DEF RecvFails, Stored, Copied, Places, Singleton, Holding, Getting,
           TypeOK, object, thread, server, Goto
  <2>2. QED
    BY <2>1 DEF Cell!vars
<1>12. ASSUME NEW t \in Thread, TakeMux(t) PROVE [Cell!CellNext]_(Cell!vars)
  <2>1. /\ Stored' = Stored /\ Copied' = Copied /\ posted' = posted
    BY <1>12, Kinds DEF TakeMux, Stored, Copied, Places, Singleton, Holding, Getting,
           TypeOK, object, thread, server, Goto, Free
  <2>2. QED
    BY <2>1 DEF Cell!vars
<1>13. ASSUME NEW t \in Thread, CopyPos(t) PROVE [Cell!CellNext]_(Cell!vars)
  <2>1. /\ pc' = [pc EXCEPT ![t] = "copy2"] /\ pc[t] = "copy"
        /\ UNCHANGED <<mux, this, posted>>
    BY <1>13 DEF CopyPos, CopyMember, Assigned, Assigning, Goto, server
  <2>2. /\ this[t] \in Thread
        /\ \A s \in Thread : s # t /\ Critical(s) => this[s] # this[t]
    BY <2>1, Exclusion DEF Critical, Singleton, Holding, TypeOK
  <2>3. CASE t = "recv"
    <3>1. /\ caliResult' = [caliResult EXCEPT ![this[t]] = WithPos(caliResult[this[t]], buf[t])]
          /\ buf' = buf
      BY <1>13, <2>3, Member
    <3>2. \A w \in Worker : pc'[w] = pc[w] /\ (pc[w] = "copy2" => caliResult'[this[w]] = caliResult[this[w]])
      BY <2>1, <2>2, <2>3, <3>1, Kinds DEF Critical, Singleton, Holding, TypeOK
    <3>3. Copied' = Copied
      BY <2>1, <3>1, <3>2 DEF Copied
    <3>4. pc'["recv"] = "copy2" /\ \A o \in Thread : o # this[t] => caliResult'[o] = caliResult[o]
      BY <2>1, <2>3, <3>1, Kinds DEF TypeOK
    <3>5. Stored' = [Stored EXCEPT ![this[t]] = buf[t]]
      BY <2>1, <2>2, <2>3, <3>1, <3>4 DEF Stored
    <3> DEFINE d == [to |-> this[t], data |-> buf[t]]
    <3>6. d \in posted
      BY <2>1, <2>3 DEF Inbound, Posted
    <3>7. Cell!Store(d)
      BY <2>1, <3>3, <3>5, <3>6 DEF Cell!Store
    <3>8. QED
      BY <3>6, <3>7 DEF Cell!CellNext
  <2>4. CASE t \in Worker
    <3>1. /\ buf' = [buf EXCEPT ![t] = WithPos(buf[t], caliResult[this[t]])]
          /\ caliResult' = caliResult
      BY <1>13, <2>4, Member, Kinds
    <3>2. /\ pc'[t] = "copy2" /\ \A s \in Thread : s # t => pc'[s] = pc[s] /\ buf'[s] = buf[s]
      BY <2>1, <3>1 DEF TypeOK
    <3>3. Stored' = Stored
      BY <2>1, <2>4, <3>1, <3>2, Kinds DEF Stored
    <3>4. Stored[this[t]] = caliResult[this[t]]
      BY <2>1, <2>2, <2>4, Kinds DEF Stored, Critical
    <3>5. Copied' = [Copied EXCEPT ![t] = Stored[this[t]]]
      BY <2>1, <2>4, <3>1, <3>2, <3>4, Kinds DEF Copied
    <3>6. Cell!Copy(t, this[t])
      BY <2>1, <3>3, <3>5 DEF Cell!Copy
    <3>7. QED
      BY <2>2, <2>4, <3>6 DEF Cell!CellNext
  <2>5. QED
    BY <2>1, <2>3, <2>4, Kinds DEF Places, Getting
<1>14. ASSUME NEW t \in Thread, CopyGain(t) PROVE [Cell!CellNext]_(Cell!vars)
  <2>1. /\ pc' = [pc EXCEPT ![t] = "unlock"] /\ pc[t] = "copy2"
        /\ UNCHANGED <<mux, this, posted>>
    BY <1>14 DEF CopyGain, CopyMember, Assigned, Assigning, Goto, server
  <2>2. /\ this[t] \in Thread /\ buf[t] \in Result /\ caliResult[this[t]] \in Result
        /\ \A s \in Thread : s # t /\ Critical(s) => this[s] # this[t]
    BY <2>1, Exclusion DEF Critical, Singleton, Holding, TypeOK
  <2>3. CASE t = "recv"
    <3>1. /\ caliResult' = [caliResult EXCEPT ![this[t]] = WithGain(caliResult[this[t]], buf[t])]
          /\ buf' = buf
      BY <1>14, <2>3, Member
    <3>2. \A w \in Worker : pc'[w] = pc[w] /\ (pc[w] = "copy2" => caliResult'[this[w]] = caliResult[this[w]])
      BY <2>1, <2>2, <2>3, <3>1, Kinds DEF Critical, Singleton, Holding, TypeOK
    <3>3. Copied' = Copied
      BY <2>1, <3>1, <3>2 DEF Copied
    <3>4. WithGain(caliResult[this[t]], buf[t]) = buf[t]
      BY <2>1, <2>2, <2>3 DEF Locking, WithGain, Result
    <3>5. /\ pc'["recv"] = "unlock" /\ caliResult'[this[t]] = buf[t]
          /\ \A o \in Thread : o # this[t] => caliResult'[o] = caliResult[o]
      BY <2>1, <2>2, <2>3, <3>1, <3>4, Kinds DEF TypeOK
    <3>6. Stored' = Stored
      BY <2>1, <2>3, <3>1, <3>5 DEF Stored
    <3>7. QED
      BY <2>1, <3>3, <3>6 DEF Cell!vars
  <2>4. CASE t \in Worker
    <3>1. /\ buf' = [buf EXCEPT ![t] = WithGain(buf[t], caliResult[this[t]])]
          /\ caliResult' = caliResult
      BY <1>14, <2>4, Member, Kinds
    <3>2. WithGain(buf[t], caliResult[this[t]]) = caliResult[this[t]]
      BY <2>1, <2>2, <2>4 DEF Locking, WithGain, Result
    <3>3. /\ pc'[t] = "unlock" /\ buf'[t] = caliResult[this[t]]
          /\ \A s \in Thread : s # t => pc'[s] = pc[s] /\ buf'[s] = buf[s]
      BY <2>1, <3>1, <3>2 DEF TypeOK
    <3>4. Stored' = Stored /\ Copied' = Copied
      BY <2>1, <2>4, <3>1, <3>3, Kinds DEF Stored, Copied
    <3>5. QED
      BY <2>1, <3>4 DEF Cell!vars
  <2>5. QED
    BY <2>1, <2>3, <2>4, Kinds DEF Places, Getting
<1>15. ASSUME NEW t \in Thread, GiveMux(t) PROVE [Cell!CellNext]_(Cell!vars)
  <2>1. /\ Stored' = Stored /\ Copied' = Copied /\ posted' = posted
    BY <1>15, Kinds DEF GiveMux, Stored, Copied, Places, Singleton, Holding, Getting,
           TypeOK, object, thread, server, Goto, Released
  <2>2. QED
    BY <2>1 DEF Cell!vars
<1>16. ASSUME NEW w \in Worker, Apply(w) PROVE [Cell!CellNext]_(Cell!vars)
  <2>1. /\ Stored' = Stored /\ Copied' = Copied /\ posted' = posted
    BY <1>16, Kinds DEF Apply, Stored, Copied, Places, Singleton, Holding, Getting,
           TypeOK, object, thread, server, Goto
  <2>2. QED
    BY <2>1 DEF Cell!vars
<1>17. CASE Reply
  <2>1. PICK o \in Thread : Post(o)
    BY <1>17, Kinds DEF Reply, TypeOK
  <2>2. Stored' = Stored /\ Copied' = Copied
    BY <2>1 DEF Post, Stored, Copied, object, thread
  <2>3. nSent + 1 \in 1..MaxSent
    BY <2>1, ClientAssumption DEF Post, TypeOK
  <2>4. Cell!Post(o, Whole(nSent + 1))
    BY <2>1, <2>2 DEF Post, Cell!Post
  <2>5. QED
    BY <2>3, <2>4, WholeType DEF Cell!CellNext
<1>18. CASE Broadcast
  <2>1. PICK o \in Thread : Post(o)
    BY <1>18, Kinds DEF Broadcast, TypeOK
  <2>2. Stored' = Stored /\ Copied' = Copied
    BY <2>1 DEF Post, Stored, Copied, object, thread
  <2>3. nSent + 1 \in 1..MaxSent
    BY <2>1, ClientAssumption DEF Post, TypeOK
  <2>4. Cell!Post(o, Whole(nSent + 1))
    BY <2>1, <2>2 DEF Post, Cell!Post
  <2>5. QED
    BY <2>3, <2>4, WholeType DEF Cell!CellNext
<1>19. ASSUME NEW d \in posted, Deliver(d) PROVE [Cell!CellNext]_(Cell!vars)
  <2>1. /\ Stored' = Stored /\ Copied' = Copied /\ posted' = posted
    BY <1>19, Kinds DEF Deliver, Stored, Copied, Places, Singleton, Holding, Getting,
           TypeOK, object, thread, server
  <2>2. QED
    BY <2>1 DEF Cell!vars
<1>20. CASE UNCHANGED vars
  BY <1>20, Kinds DEF vars, object, thread, server, Stored, Copied, Cell!vars
<1>21. QED
  BY <1>1, <1>2, <1>3, <1>4, <1>5, <1>6, <1>7, <1>8, <1>9, <1>10, <1>11, <1>12, <1>13, <1>14, <1>15, <1>16, <1>17, <1>18, <1>19, <1>20, Kinds
     DEF Next, threadFuncCaliReceive, Decider, EventTask, Network, Copying, GetInstance

(* Only a configuration takes a received result from a worker. *)
LEMMA KeepStep ==
  ASSUME IInv, [Next]_vars, NEW v \in Worker, applied[v] # Blank, nRun' = nRun
  PROVE  applied'[v] # Blank
<1>1. ASSUME NEW w \in Worker, Apply(w) PROVE applied'[v] # Blank
  BY <1>1 DEF Apply, IInv, Settling, TypeOK
<1>2. CASE SendConfig
  BY <1>2 DEF SendConfig, IInv, TypeOK
<1>3. CASE UNCHANGED applied
  BY <1>3
<1>4. [Next]_vars /\ ~SendConfig /\ (\A w \in Worker : ~Apply(w)) => UNCHANGED applied
  BY DEF Next, threadFuncCaliReceive, Decider, EventTask, Network, Copying, GetInstance,
         Check, Construct,
         Assign, Return, SendInitRequest, Decide, SendCaliData, Process, RecvFrom, RecvFails, TakeMux, CopyPos,
         CopyGain, CopyMember, Assigned, Assigning, GiveMux, Reply, Broadcast, Post, Deliver, vars, thread
<1>5. QED
  BY <1>1, <1>2, <1>3, <1>4

------------------------------------------------------------------------------
(* The invariants hold at the start, and every step keeps them. *)
LEMMA InitInv == Init => IInv
<1> SUFFICES ASSUME Init PROVE IInv
  OBVIOUS
<1> USE ClientAssumption
<1>1. TypeOK
  BY Kinds, BlankType DEF Init, TypeOK, Labels
<1>2. Places
  BY Kinds DEF Init, Places, Getting
<1>3. Singleton
  BY Kinds DEF Init, Singleton, Holding, Configured
<1>4. Inbound /\ Locking
  BY Kinds, BlankType DEF Init, Inbound, Locking, Critical
<1>5. Settling
  BY Kinds DEF Init, Settling, Getting, Holding
<1>6. QED
  BY <1>1, <1>2, <1>3, <1>4, <1>5 DEF IInv

LEMMA StepInv == IInv /\ [Next]_vars => IInv'
<1> SUFFICES ASSUME IInv, [Next]_vars PROVE IInv'
  OBVIOUS
<1>1. TypeOK'
  BY TypeStep DEF IInv
<1>2. Places'
  BY PlacesStep DEF IInv
<1>3. Singleton'
  BY <1>1, <1>2, SingletonStep DEF IInv
<1>4. Inbound'
  BY <1>1, <1>3, InboundStep DEF IInv
<1>5. Locking'
  BY <1>1, <1>2, <1>3, LockingStep DEF IInv
<1>6. Settling'
  BY <1>1, <1>2, SettlingStep DEF IInv
<1>7. QED
  BY <1>1, <1>2, <1>3, <1>4, <1>5, <1>6 DEF IInv

(* The invariant all the others follow from. *)
THEOREM Invariance == Spec => []IInv
BY InitInv, StepInv, PTL DEF Spec

(* Every variable of the client keeps to its values (hltCaliClient,        *)
(* L4HLTTask_decider, L4HLTTask_cpu::process).                             *)
THEOREM TypeCorrect == Spec => []TypeOK
<1>1. IInv => TypeOK
  BY DEF IInv
<1>2. QED
  BY <1>1, Invariance, PTL

(* GetInstance, without a lock, constructs at most the two objects of the  *)
(* decider and of the receive thread, each once.                           *)
THEOREM ConstructedOnce == Spec => []MakesOnce
<1>1. IInv => MakesOnce
  BY DEF IInv, MakesOnce, Singleton
<1>2. QED
  BY <1>1, Invariance, PTL

(* caliResultMux keeps the assignments of RecvCaliResult and               *)
(* CopyCaliResult on one object apart.                                     *)
THEOREM Exclusive == Spec => []MutualExclusion
<1>1. IInv => MutualExclusion
  BY Exclusion DEF IInv, MutualExclusion
<1>2. QED
  BY <1>1, Invariance, PTL

(* However many workers copy while results arrive, none reconstructs with  *)
(* the halves of two results.                                              *)
THEOREM NeverTorn == Spec => []NoTornResult
<1>1. IInv => NoTornResult
  BY DEF IInv, NoTornResult, Locking, IsWhole
<1>2. QED
  BY <1>1, Invariance, PTL

(* The three of them, for any number of workers (GetInstance,              *)
(* RecvCaliResult, CopyCaliResult).                                        *)
THEOREM SafetyHolds == Spec => []Safety
<1>1. MakesOnce /\ MutualExclusion /\ NoTornResult => Safety
  BY DEF Safety
<1>2. QED
  BY <1>1, ConstructedOnce, Exclusive, NeverTorn, PTL

(* A worker that has used a result of the server is not sent back to       *)
(* unwritten memory by the race in GetInstance.                            *)
THEOREM ResultsKept == Spec => NeverForgets
<1>1. IInv /\ [Next]_vars =>
        [\A w \in Worker : applied[w] # Blank /\ nRun' = nRun => applied'[w] # Blank]_vars
  BY KeepStep
<1>2. QED
  BY <1>1, Invariance, PTL DEF Spec, NeverForgets

(* The client implements cells that are stored and copied as a whole.      *)
THEOREM ClientImplementsCell == Spec => ImplementsCell
<1>1. Init => Cell!CellInit
  BY Kinds DEF Init, Cell!CellInit, Stored, Copied
<1>2. QED
  BY <1>1, CellStep, Invariance, PTL DEF Spec, ImplementsCell, Cell!CellSpec

=============================================================================
