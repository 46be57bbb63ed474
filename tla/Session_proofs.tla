--------------------------- MODULE Session_proofs ---------------------------
(***************************************************************************)
(* Proofs about Session, for any number of tokens and requests, any        *)
(* lifetimes, and with or without failing Redis calls.                     *)
(***************************************************************************)
EXTENDS Session, TLAPS

Issuing == {"setValid", "setToken"}
Using == {"loadUser", "ttl", "store", "verify", "update", "delete",
          "delToken", "delValid", "scan", "clear"}

\* A session being issued belongs to one request, and no client has its token.
IssuingOK ==
    \A t \in Task : task[t].pc \in Issuing =>
        /\ task[t].new \in Jti \ held
        /\ exp[task[t].new] # Never
        /\ task[t].ttl = Lifetime
        /\ \A u \in Task \ {t} : task[u].pc \in Issuing => task[u].new # task[t].new

\* Its key has not been written.
NotYetOpen == \A j \in Jti : exp[j] = Never \/ BeingIssued(j) => key["valid"][j] = 0

\* Requests come with tokens that were handed out.
HeldOK ==
    /\ \A j \in held : exp[j] # Never
    /\ \A t \in Task : task[t].pc \in Using => task[t].jti \in held
    /\ ended \subseteq held
    /\ \A j \in Jti : exp[j] <= now + Lifetime

\* A request that came too late waits for a user that is no more.
LateOK ==
    \A t \in Task : task[t].late =>
        /\ task[t].pc = "loadUser" /\ task[t].op = "none"
        /\ user = Deleted

\* What a scan has missed or deleted stays away.
ClearedOK ==
    \A t \in Task : task[t].pc = "clear" /\ task[t].clean /\ Present("valid", task[t].jti)
                    => "valid" \in task[t].keys

Inv ==
    /\ TypeOK /\ IssuingOK /\ NotYetOpen /\ HeldOK /\ LateOK
    /\ ClearedOK /\ EndedStaysEnded

USE SessionAssumption

-----------------------------------------------------------------------------
LEMMA InitInv == Init => Inv
  BY DEF Init, Inv, TypeOK, IssuingOK, NotYetOpen, HeldOK, LateOK, ClearedOK,
         EndedStaysEnded, Issuing, Using, BeingIssued, Present, Idle, TaskType, Pc, Op,
         Time, Expiry, Ttls, Kind, Never

\* The task set after a request moves.
LEMMA TaskMoves ==
    ASSUME TypeOK, NEW t \in Task, NEW rec \in TaskType, TaskStep(t, rec)
    PROVE  /\ task' \in [Task -> TaskType]
           /\ task'[t] = rec
           /\ \A u \in Task \ {t} : task'[u] = task[u]
  BY DEF TypeOK, TaskStep

\* The keys after one is written.
LEMMA KeyWritten ==
    ASSUME TypeOK, NEW k \in Kind, NEW j \in Jti, NEW e \in Expiry, SetKey(k, j, e)
    PROVE  /\ key' \in [Kind -> [Jti -> Expiry]]
           /\ key'[k][j] = e
           /\ \A i \in Jti : i # j => key'[k][i] = key[k][i]
           /\ \A l \in Kind : l # k => key'[l] = key[l]
  BY DEF TypeOK, SetKey

-----------------------------------------------------------------------------
(***************************************************************************)
(* Most steps move one request on and leave the tokens alone.              *)
(***************************************************************************)
\* What the record a request moves to must satisfy.
Harmless(rec) ==
    /\ rec \in TaskType
    /\ rec.pc \notin Issuing
    /\ rec.pc \in Using => rec.jti \in held
    /\ rec.late => rec.pc = "loadUser" /\ rec.op = "none" /\ user = Deleted

\* A scan that has nothing left to delete has deleted the session's key.
Swept(rec) ==
    rec.pc = "clear" /\ rec.clean /\ Present("valid", rec.jti) => "valid" \in rec.keys

LEMMA QuietStep ==
    ASSUME Inv, NEW t \in Task, NEW rec, Harmless(rec), Swept(rec), TaskStep(t, rec),
           UNCHANGED <<now, user, exp, key, held, ended>>
    PROVE  Inv'
  <1>. rec \in TaskType
    BY DEF Harmless
  <1>1. task' \in [Task -> TaskType] /\ task'[t] = rec
        /\ \A u \in Task \ {t} : task'[u] = task[u]
    BY TaskMoves DEF Inv
  <1>2. TypeOK'
    BY <1>1 DEF Inv, TypeOK
  <1>3. IssuingOK'
    BY <1>1 DEF Inv, IssuingOK, Harmless
  <1>4. NotYetOpen'
    BY <1>1 DEF Inv, NotYetOpen, BeingIssued, Harmless, Issuing
  <1>5. HeldOK'
    BY <1>1 DEF Inv, HeldOK, Harmless
  <1>6. LateOK'
    BY <1>1 DEF Inv, LateOK, Harmless
  <1>7. ClearedOK'
    BY <1>1 DEF Inv, ClearedOK, Swept, Present
  <1>8. EndedStaysEnded'
    BY DEF Inv, EndedStaysEnded, Present
  <1>. QED
    BY <1>2, <1>3, <1>4, <1>5, <1>6, <1>7, <1>8 DEF Inv

\* Writing a key other than "valid", or deleting a key, of a session handed out.
LEMMA KeyStep ==
    ASSUME Inv, NEW t \in Task, NEW rec, Harmless(rec), TaskStep(t, rec),
           NEW k \in Kind, NEW j \in held, NEW e \in Expiry, SetKey(k, j, e),
           k = "valid" => e = 0,
           Swept(rec)',
           UNCHANGED <<now, user, exp, held, ended>>
    PROVE  Inv'
  <1>. rec \in TaskType /\ j \in Jti
    BY DEF Harmless, Inv, TypeOK
  <1>1. task' \in [Task -> TaskType] /\ task'[t] = rec
        /\ \A u \in Task \ {t} : task'[u] = task[u]
    BY TaskMoves DEF Inv
  <1>2. /\ key' \in [Kind -> [Jti -> Expiry]]
        /\ key'[k][j] = e
        /\ \A i \in Jti : i # j => key'[k][i] = key[k][i]
        /\ \A l \in Kind : l # k => key'[l] = key[l]
    BY KeyWritten DEF Inv
  <1>3. "valid" \in Kind /\ now \in Nat
    BY DEF Kind, Inv, TypeOK, Time
  <1>4. \A i \in Jti : key'["valid"][i] = key["valid"][i] \/ key'["valid"][i] = 0
    BY <1>2, <1>3
  <1>5. \A i \in Jti : Present("valid", i)' => Present("valid", i)
    BY <1>3, <1>4 DEF Present
  <1>6. TypeOK'
    BY <1>1, <1>2 DEF Inv, TypeOK
  <1>7. IssuingOK'
    BY <1>1 DEF Inv, IssuingOK, Harmless
  <1>8. NotYetOpen'
    BY <1>1, <1>4 DEF Inv, NotYetOpen, BeingIssued, Harmless, Issuing
  <1>9. HeldOK'
    BY <1>1 DEF Inv, HeldOK, Harmless
  <1>10. LateOK'
    BY <1>1 DEF Inv, LateOK, Harmless
  <1>11. \A u \in Task : task[u].pc = "clear" => task[u].jti \in Jti
    BY DEF Inv, HeldOK, Using, TypeOK
  <1>12. ClearedOK'
    BY <1>1, <1>5, <1>11 DEF Inv, ClearedOK, Swept
  <1>13. EndedStaysEnded'
    BY <1>5 DEF Inv, EndedStaysEnded, TypeOK
  <1>. QED
    BY <1>6, <1>7, <1>8, <1>9, <1>10, <1>12, <1>13 DEF Inv

\* A token is generated for a request that issued nothing yet.
LEMMA GenerateStep ==
    ASSUME Inv, NEW t \in Task, NEW j \in FreshJtis, NEW from \in TaskType,
           Generate(t, j, from), task[t].pc \notin Issuing, ~from.late,
           user' \in Password \/ user' = user, user # Deleted,
           UNCHANGED <<now, key, held, ended>>
    PROVE  Inv'
  <1>. DEFINE rec == [from EXCEPT !.pc = "setValid", !.op = "issue",
                                  !.new = j, !.ttl = Ttl]
  <1>0. j \in Jti /\ exp[j] = Never
    BY DEF FreshJtis
  <1>1. rec \in TaskType /\ rec.pc = "setValid" /\ rec.new = j /\ rec.ttl = Lifetime /\ ~rec.late
    <2>1. Ttl = Lifetime /\ Ttl \in Ttls /\ "setValid" \in Pc /\ "issue" \in Op
      BY DEF Ttl, Ttls, Pc, Op
    <2>. QED
      BY <1>0, <2>1 DEF TaskType
  <1>2. task' \in [Task -> TaskType] /\ task'[t] = rec
        /\ \A u \in Task \ {t} : task'[u] = task[u]
    <2>1. TaskStep(t, rec)
      BY DEF Generate
    <2>. QED
      BY <1>1, <2>1, TaskMoves DEF Inv
  <1>3. /\ exp' \in [Jti -> 0..(MaxTime + Lifetime) \cup {Never}]
        /\ exp'[j] = now + Lifetime
        /\ \A i \in Jti \ {j} : exp'[i] = exp[i]
    BY <1>0 DEF Generate, Inv, TypeOK, Time
  <1>4. now \in Nat /\ now + Lifetime # Never
    BY DEF Inv, TypeOK, Time, Never
  <1>5. j \notin held /\ \A u \in Task : task[u].pc \in Issuing => task[u].new # j
    BY <1>0 DEF Inv, HeldOK, IssuingOK
  <1>6. TypeOK'
    BY <1>2, <1>3 DEF Inv, TypeOK
  <1>7. IssuingOK'
    <2>1. \A u \in Task \ {t} : task[u].pc \in Issuing =>
            /\ task[u].new \in Jti \ held /\ task[u].new # j
            /\ exp'[task[u].new] # Never /\ task[u].ttl = Lifetime
            /\ \A v \in Task \ {u} : task[v].pc \in Issuing => task[v].new # task[u].new
      BY <1>3, <1>5 DEF Inv, IssuingOK
    <2>2. exp'[j] # Never
      BY <1>3, <1>4
    <2>. HIDE DEF rec
    <2>. QED
      BY <1>0, <1>1, <1>2, <1>5, <2>1, <2>2 DEF IssuingOK
  <1>8. NotYetOpen'
    <2>. SUFFICES ASSUME NEW i \in Jti, exp'[i] = Never \/ BeingIssued(i)'
                  PROVE  key'["valid"][i] = 0
      BY DEF NotYetOpen
    <2>1. CASE i = j
      BY <1>0, <2>1 DEF Inv, NotYetOpen
    <2>2. CASE i # j
      <3>. HIDE DEF rec
      <3>1. exp[i] = Never \/ BeingIssued(i)
        BY <1>1, <1>2, <1>3, <2>2 DEF BeingIssued
      <3>. QED
        BY <3>1 DEF Inv, NotYetOpen
    <2>. QED
      BY <2>1, <2>2
  <1>9. HeldOK'
    <2>1. \A i \in Jti : exp'[i] <= now' + Lifetime
      BY <1>3, <1>4 DEF Inv, HeldOK
    <2>2. \A i \in held' : exp'[i] # Never
      BY <1>3, <1>5 DEF Inv, HeldOK, TypeOK
    <2>3. \A u \in Task : task'[u].pc \in Using => task'[u].jti \in held'
      BY <1>1, <1>2 DEF Inv, HeldOK, Using
    <2>. QED
      BY <2>1, <2>2, <2>3 DEF Inv, HeldOK
  <1>10. LateOK'
    BY <1>1, <1>2 DEF Inv, LateOK
  <1>11. ClearedOK'
    BY <1>1, <1>2 DEF Inv, ClearedOK, Present
  <1>12. EndedStaysEnded'
    BY DEF Inv, EndedStaysEnded, Present
  <1>. QED
    BY <1>6, <1>7, <1>8, <1>9, <1>10, <1>11, <1>12 DEF Inv

\* The key of a session being issued is written, or its writing fails.
LEMMA SetSessionValidStep ==
    ASSUME Inv, NEW t \in Task, SetSessionValid(t)
    PROVE  Inv'
  <1>a. PICK j \in Jti \ held : j = task[t].new
    BY DEF SetSessionValid, Inv, IssuingOK, Issuing
  <1>0. /\ task[t] \in TaskType /\ task[t].pc = "setValid"
        /\ task[t].new = j /\ task[t].ttl = Lifetime
        /\ now \in Time
    BY <1>a DEF SetSessionValid, Inv, TypeOK, IssuingOK, Issuing
  <1>1. PICK rec \in TaskType : /\ TaskStep(t, rec)
                                /\ rec.pc = "setToken" /\ rec.new = j /\ rec.ttl = Lifetime
                                /\ rec.late = task[t].late
    <2>1. "setToken" \in Pc
      BY DEF Pc
    <2>2. CASE Goto(t, "setToken")
      BY <1>0, <2>1, <2>2 DEF Goto, TaskType
    <2>3. CASE GotoFailed(t, "setToken")
      <3>. DEFINE r == [task[t] EXCEPT !.pc = "setToken", !.clean = FALSE]
      <3>1. r \in TaskType /\ r.pc = "setToken" /\ r.new = j /\ r.ttl = Lifetime
            /\ r.late = task[t].late
        BY <1>0, <2>1 DEF TaskType
      <3>2. TaskStep(t, r)
        BY <2>3 DEF GotoFailed
      <3>. QED
        BY <3>1, <3>2
    <2>. QED
      BY <2>2, <2>3 DEF SetSessionValid
  <1>2. /\ rec.pc = "setToken" /\ rec.new = j /\ rec.ttl = Lifetime
        /\ rec.late = task[t].late
    BY <1>1
  <1>3. task' \in [Task -> TaskType] /\ task'[t] = rec
        /\ \A u \in Task \ {t} : task'[u] = task[u]
    BY <1>1, TaskMoves DEF Inv
  <1>4. /\ key' \in [Kind -> [Jti -> Expiry]]
        /\ \A i \in Jti \ {j} : key'["valid"][i] = key["valid"][i]
    <2>1. "valid" \in Kind /\ now + task[t].ttl \in Expiry
      BY <1>0 DEF Kind, Expiry, Time
    <2>2. CASE SetKey("valid", j, now + task[t].ttl)
      BY <1>0, <2>1, <2>2, KeyWritten DEF Inv
    <2>3. CASE UNCHANGED key
      BY <2>3 DEF Inv, TypeOK
    <2>. QED
      BY <1>a, <2>2, <2>3 DEF SetSessionValid
  <1>5. TypeOK'
    BY <1>3, <1>4 DEF SetSessionValid, Inv, TypeOK
  <1>6. \A u \in Task : task[u].pc \in Issuing <=> task'[u].pc \in Issuing
    BY <1>0, <1>2, <1>3 DEF Issuing
  <1>7. \A u \in Task : task'[u].new = task[u].new /\ (task'[u].ttl = task[u].ttl)
    BY <1>0, <1>2, <1>3
  <1>8. IssuingOK'
    BY <1>6, <1>7 DEF SetSessionValid, Inv, IssuingOK
  <1>9. NotYetOpen'
    <2>. SUFFICES ASSUME NEW i \in Jti, exp'[i] = Never \/ BeingIssued(i)'
                  PROVE  key'["valid"][i] = 0
      BY DEF NotYetOpen
    <2>1. i # j
      <3>1. exp'[j] # Never
        BY <1>0 DEF SetSessionValid, Inv, IssuingOK, Issuing
      <3>2. ~BeingIssued(j)'
        BY <1>0, <1>2, <1>3 DEF BeingIssued, Inv, IssuingOK, Issuing
      <3>. QED
        BY <3>1, <3>2
    <2>2. exp[i] = Never \/ BeingIssued(i)
      BY <1>2, <1>3 DEF BeingIssued, SetSessionValid
    <2>. QED
      BY <1>4, <2>1, <2>2 DEF Inv, NotYetOpen
  <1>10. HeldOK'
    BY <1>2, <1>3 DEF SetSessionValid, Inv, HeldOK, Using
  <1>11. LateOK'
    BY <1>0, <1>2, <1>3 DEF SetSessionValid, Inv, LateOK
  <1>12. ClearedOK'
    <2>. SUFFICES ASSUME NEW u \in Task, task'[u].pc = "clear", task'[u].clean,
                         Present("valid", task[u].jti)'
                  PROVE  "valid" \in task'[u].keys
      BY DEF ClearedOK
    <2>1. u # t /\ task'[u] = task[u]
      BY <1>2, <1>3
    <2>2. task[u].jti \in Jti \ {j}
      BY <1>0, <2>1 DEF Inv, HeldOK, Using, TypeOK
    <2>3. Present("valid", task[u].jti)
      BY <1>4, <2>1, <2>2 DEF SetSessionValid, Present
    <2>. QED
      BY <2>1, <2>3 DEF Inv, ClearedOK
  <1>13. EndedStaysEnded'
    <2>1. \A i \in ended : i \in Jti \ {j}
      BY <1>0 DEF Inv, HeldOK, TypeOK
    <2>. QED
      BY <1>4, <2>1 DEF SetSessionValid, Inv, EndedStaysEnded, Present
  <1>. QED
    BY <1>5, <1>8, <1>9, <1>10, <1>11, <1>12, <1>13 DEF Inv

\* The token is handed out.
LEMMA SetJwtTokenStep ==
    ASSUME Inv, NEW t \in Task, SetJwtToken(t)
    PROVE  Inv'
  <1>. DEFINE j == task[t].new
  <1>0. /\ task[t] \in TaskType /\ task[t].pc = "setToken"
        /\ j \in Jti \ held /\ exp[j] # Never /\ task[t].ttl = Lifetime
        /\ now \in Time
    BY DEF SetJwtToken, Inv, TypeOK, IssuingOK, Issuing
  <1>1. Idle \in TaskType
    BY DEF Idle, TaskType, Pc, Op, Ttls
  <1>2. task' \in [Task -> TaskType] /\ task'[t] = Idle
        /\ \A u \in Task \ {t} : task'[u] = task[u]
    BY <1>1, TaskMoves DEF SetJwtToken, Inv
  <1>3. key' \in [Kind -> [Jti -> Expiry]] /\ key'["valid"] = key["valid"]
    <2>1. {"valid", "token"} \subseteq Kind /\ now + task[t].ttl \in Expiry
      BY <1>0 DEF Kind, Expiry, Time
    <2>2. CASE SetKey("token", j, now + task[t].ttl)
      BY <1>0, <2>1, <2>2, KeyWritten DEF Inv
    <2>3. CASE UNCHANGED key
      BY <2>3 DEF Inv, TypeOK
    <2>. QED
      BY <2>2, <2>3 DEF SetJwtToken
  <1>4. TypeOK'
    BY <1>0, <1>2, <1>3 DEF SetJwtToken, Inv, TypeOK
  <1>5. IssuingOK'
    BY <1>0, <1>2 DEF SetJwtToken, Inv, IssuingOK, Idle, Issuing
  <1>6. NotYetOpen'
    BY <1>2, <1>3 DEF SetJwtToken, Inv, NotYetOpen, BeingIssued, Idle
  <1>7. HeldOK'
    BY <1>0, <1>2 DEF SetJwtToken, Inv, HeldOK, Idle, Using
  <1>8. LateOK'
    BY <1>2 DEF SetJwtToken, Inv, LateOK, Idle
  <1>9. ClearedOK'
    BY <1>2, <1>3 DEF SetJwtToken, Inv, ClearedOK, Present, Idle
  <1>10. EndedStaysEnded'
    BY <1>3 DEF SetJwtToken, Inv, EndedStaysEnded, Present
  <1>. QED
    BY <1>4, <1>5, <1>6, <1>7, <1>8, <1>9, <1>10 DEF Inv

\* Time passes: keys only disappear.
LEMMA TickStep ==
    ASSUME Inv, NextTick
    PROVE  Inv'
  <1>1. now' \in Time /\ now \in Nat /\ now' = now + 1
    BY DEF NextTick, Inv, TypeOK, Time
  <1>2. \A j \in Jti : Present("valid", j)' => Present("valid", j)
    BY <1>1 DEF NextTick, Present, Inv, TypeOK, Kind, Expiry
  <1>3. TypeOK' /\ IssuingOK' /\ NotYetOpen' /\ LateOK'
    BY <1>1 DEF NextTick, Inv, TypeOK, IssuingOK, NotYetOpen, BeingIssued, LateOK
  <1>4. HeldOK'
    BY <1>1 DEF NextTick, Inv, HeldOK, TypeOK, Never
  <1>5. ClearedOK'
    <2>1. \A u \in Task : task[u].pc = "clear" => task[u].jti \in Jti
      BY DEF Inv, HeldOK, Using, TypeOK
    <2>. QED
      BY <1>2, <2>1 DEF NextTick, Inv, ClearedOK
  <1>6. EndedStaysEnded'
    BY <1>2 DEF NextTick, Inv, EndedStaysEnded, TypeOK
  <1>. QED
    BY <1>3, <1>4, <1>5, <1>6 DEF Inv

LEMMA IdleHarmless == Harmless(Idle) /\ Swept(Idle) /\ Swept(Idle)'
  BY DEF Harmless, Swept, Idle, TaskType, Pc, Op, Ttls, Issuing, Using

\* A request that begins with a token.
LEMMA BeginStep ==
    ASSUME Inv, NEW t \in Task, NEW rec \in TaskType, Begin(t, rec),
           rec.pc \in Using \ {"clear"}, rec.jti \in held,
           rec.late => rec.pc = "loadUser" /\ rec.op = "none" /\ user = Deleted,
           UNCHANGED <<now, user, exp, key, held, ended>>
    PROVE  Inv'
  <1>1. Harmless(rec) /\ Swept(rec)
    BY DEF Harmless, Swept, Issuing, Using
  <1>. QED
    BY <1>1, QuietStep DEF Begin, Inv, TypeOK

\* The same for a handler that needs nothing but the session.
LEMMA HandlerBegins ==
    ASSUME Inv, NEW t \in Task, NEW j \in held, NEW pc \in Using \ {"clear"}, NEW op \in Op,
           Begin(t, [Idle EXCEPT !.pc = pc, !.op = op, !.jti = j]),
           UNCHANGED <<now, user, exp, key, held, ended>>
    PROVE  Inv'
  <1>. DEFINE rec == [Idle EXCEPT !.pc = pc, !.op = op, !.jti = j]
  <1>1. 0 \in Ttls /\ pc \in Pc /\ j \in Jti
    BY DEF Ttls, Using, Pc, Inv, TypeOK
  <1>2. rec \in TaskType /\ rec.pc = pc /\ rec.jti = j /\ ~rec.late
    BY <1>1 DEF Idle, TaskType
  <1>. HIDE DEF rec
  <1>. QED
    BY <1>2, BeginStep DEF rec

\* A request that moves on, with a Redis call that failed or not.
LEMMA GotoStep ==
    ASSUME Inv, NEW t \in Task, task[t].pc \in Using \ {"loadUser"},
           NEW pc \in Using \ {"clear"},
           Goto(t, pc) \/ GotoFailed(t, pc),
           UNCHANGED <<now, user, exp, key, held, ended>>
    PROVE  Inv'
  <1>1. task[t] \in TaskType /\ task[t].jti \in held /\ ~task[t].late
    BY DEF Inv, TypeOK, HeldOK, LateOK
  <1>2. PICK rec \in TaskType : TaskStep(t, rec) /\ rec.pc = pc
                                /\ rec.jti = task[t].jti /\ ~rec.late
    <2>1. CASE Goto(t, pc)
      <3>1. [task[t] EXCEPT !.pc = pc] \in TaskType
        BY <1>1 DEF TaskType, Using, Pc
      <3>. QED
        BY <1>1, <2>1, <3>1 DEF Goto, TaskType
    <2>2. CASE GotoFailed(t, pc)
      <3>. DEFINE r == [task[t] EXCEPT !.pc = pc, !.clean = FALSE]
      <3>1. r \in TaskType /\ r.pc = pc /\ r.jti = task[t].jti /\ ~r.late
        BY <1>1 DEF TaskType, Using, Pc
      <3>. QED
        BY <2>2, <3>1 DEF GotoFailed
    <2>. QED
      BY <2>1, <2>2
  <1>3. Harmless(rec) /\ Swept(rec)
    BY <1>1, <1>2 DEF Harmless, Swept, Issuing, Using
  <1>. QED
    BY <1>2, <1>3, QuietStep DEF Inv, TypeOK

\* The same, with a key of the session deleted.
LEMMA DeleteKeyStep ==
    ASSUME Inv, NEW t \in Task, task[t].pc \in Using \ {"loadUser"},
           NEW pc \in Using \ {"clear"}, NEW k \in Kind,
           SetKey(k, task[t].jti, 0), Goto(t, pc),
           UNCHANGED <<now, user, exp, held, ended>>
    PROVE  Inv'
  <1>1. task[t] \in TaskType /\ task[t].jti \in held /\ ~task[t].late
    BY DEF Inv, TypeOK, HeldOK, LateOK
  <1>2. PICK rec \in TaskType : TaskStep(t, rec) /\ rec.pc = pc
                                /\ rec.jti = task[t].jti /\ ~rec.late
    <2>1. [task[t] EXCEPT !.pc = pc] \in TaskType
      BY <1>1 DEF TaskType, Using, Pc
    <2>. QED
      BY <1>1, <2>1 DEF Goto, TaskType
  <1>3. Harmless(rec) /\ Swept(rec)'
    BY <1>1, <1>2 DEF Harmless, Swept, Issuing, Using
  <1>4. 0 \in Expiry
    BY DEF Expiry
  <1>. QED
    BY <1>1, <1>2, <1>3, <1>4, KeyStep

-----------------------------------------------------------------------------
(***************************************************************************)
(* Every step of a request keeps the invariant.                            *)
(***************************************************************************)
LEMMA IssueStep ==
    ASSUME Inv, NEW t \in Task, IssueNext(t)
    PROVE  Inv'
  <1>1. Idle \in TaskType /\ ~Idle.late
    BY DEF Idle, TaskType, Pc, Op, Ttls
  <1>2. ASSUME NEW p \in Password, Register(t, p) PROVE Inv'
    BY <1>1, <1>2, GenerateStep DEF Register, Issuing
  <1>3. ASSUME NEW p \in Password, Login(t, p) PROVE Inv'
    BY <1>1, <1>3, GenerateStep DEF Login, Issuing, UserExists
  <1>4. ASSUME NEW j \in Jti, RefreshBegin(t, j) PROVE Inv'
    <2>. DEFINE late == j \in ended \/ user = Deleted
                rec == [Idle EXCEPT !.pc = "loadUser", !.jti = j, !.late = late]
    <2>1. j \in held /\ Present("valid", j)
      BY <1>4 DEF RefreshBegin, RefreshAllowed, TokenRefreshable
    <2>2. late => user = Deleted
      BY <2>1 DEF Inv, EndedStaysEnded
    <2>3. "loadUser" \in Pc /\ "none" \in Op /\ late \in BOOLEAN /\ 0 \in Ttls
      BY DEF Pc, Op, Ttls
    <2>4. rec \in TaskType /\ rec.pc = "loadUser" /\ rec.op = "none" /\ rec.jti = j
          /\ rec.late = late
      <3>. HIDE DEF late
      <3>. QED
        BY <2>3 DEF Idle, TaskType
    <2>5. Begin(t, rec)
      BY <1>4 DEF RefreshBegin
    <2>6. "loadUser" \in Using \ {"clear"}
      BY DEF Using
    <2>. HIDE DEF late, rec
    <2>. QED
      BY <1>4, <2>1, <2>2, <2>4, <2>5, <2>6, BeginStep DEF RefreshBegin
  <1>5. ASSUME RefreshLoadUser(t) PROVE Inv'
    <2>1. CASE UserExists /\ \E j \in RefreshJtis(t) : Generate(t, j, task[t])
      <3>1. task[t] \in TaskType /\ ~task[t].late /\ task[t].pc = "loadUser" /\ user # Deleted
        BY <1>5, <2>1 DEF RefreshLoadUser, UserExists, Inv, TypeOK, LateOK
      <3>. QED
        BY <1>5, <2>1, <3>1, GenerateStep DEF RefreshLoadUser, RefreshJtis, Issuing
    <2>2. CASE TaskStep(t, Idle) /\ UNCHANGED exp
      BY <1>5, <2>2, IdleHarmless, QuietStep DEF RefreshLoadUser, Inv, TypeOK
    <2>. QED
      BY <1>5, <2>1, <2>2 DEF RefreshLoadUser
  <1>. QED
    BY <1>2, <1>3, <1>4, <1>5, SetSessionValidStep, SetJwtTokenStep DEF IssueNext

LEMMA OverviewStep ==
    ASSUME Inv, NEW t \in Task, OverviewNext(t)
    PROVE  Inv'
  <1>1. ASSUME NEW j \in Jti, OverviewBegin(t, j) PROVE Inv'
    <2>1. j \in held
      BY <1>1 DEF OverviewBegin, Authorized, TokenAccepted
    <2>2. "ttl" \in Using \ {"clear"} /\ "overview" \in Op
      BY DEF Using, Op
    <2>. QED
      BY <1>1, <2>1, <2>2, HandlerBegins DEF OverviewBegin
  <1>2. ASSUME OverviewTtl(t) PROVE Inv'
    <2>1. /\ task[t] \in TaskType /\ task[t].pc = "ttl" /\ task[t].jti \in held
          /\ ~task[t].late /\ held \subseteq Jti /\ now \in Time
          /\ exp[task[t].jti] <= now + Lifetime
          /\ exp[task[t].jti] \in 0..(MaxTime + Lifetime) \cup {Never}
      BY <1>2 DEF OverviewTtl, Inv, TypeOK, HeldOK, LateOK, Using
    <2>2. PICK d \in Ttls : TaskStep(t, [task[t] EXCEPT !.pc = "store", !.ttl = d])
      <3>1. Fallback \in Ttls
        BY DEF Ttls
      <3>2. exp[task[t].jti] > now => exp[task[t].jti] - now \in Ttls
        BY <2>1 DEF Ttls, Time, Never
      <3>. QED
        BY <1>2, <3>1, <3>2 DEF OverviewTtl
    <2>. DEFINE rec == [task[t] EXCEPT !.pc = "store", !.ttl = d]
    <2>3. "store" \in Pc
      BY DEF Pc
    <2>4. rec \in TaskType /\ rec.pc = "store" /\ rec.jti = task[t].jti /\ ~rec.late
      BY <2>1, <2>3 DEF TaskType
    <2>5. Harmless(rec) /\ Swept(rec)
      <3>. HIDE DEF rec
      <3>. QED
        BY <2>1, <2>4 DEF Harmless, Swept, Issuing, Using
    <2>. HIDE DEF rec
    <2>. QED
      BY <1>2, <2>2, <2>5, QuietStep DEF OverviewTtl, rec, Inv, TypeOK
  <1>3. ASSUME OverviewStore(t) PROVE Inv'
    <2>1. CASE SetKey("data", task[t].jti, now + task[t].ttl)
      <3>1. /\ task[t].jti \in held /\ "data" \in Kind
            /\ now + task[t].ttl \in Expiry
        BY <1>3 DEF OverviewStore, Inv, TypeOK, HeldOK, Using, Kind, TaskType,
                    Expiry, Ttls, Time
      <3>. QED
        BY <1>3, <2>1, <3>1, IdleHarmless, KeyStep DEF OverviewStore
    <2>2. CASE UNCHANGED key
      BY <1>3, <2>2, IdleHarmless, QuietStep DEF OverviewStore, Inv, TypeOK
    <2>. QED
      BY <1>3, <2>1, <2>2 DEF OverviewStore
  <1>. QED
    BY <1>1, <1>2, <1>3 DEF OverviewNext

LEMMA EndStep ==
    ASSUME Inv, NEW t \in Task, EndNext(t)
    PROVE  Inv'
  <1>. {"verify", "update", "delete", "delToken", "delValid", "scan", "clear"} \subseteq Using
    BY DEF Using
  <1>. {"password", "delete", "logout"} \subseteq Op /\ {"token", "valid"} \subseteq Kind
    BY DEF Op, Kind
  <1>1. ASSUME NEW j \in Jti, PasswordBegin(t, j) PROVE Inv'
    BY <1>1, HandlerBegins DEF PasswordBegin, Authorized, TokenAccepted
  <1>2. ASSUME NEW j \in Jti, DeleteBegin(t, j) PROVE Inv'
    BY <1>2, HandlerBegins DEF DeleteBegin, Authorized, TokenAccepted
  <1>3. ASSUME NEW j \in Jti, LogoutBegin(t, j) PROVE Inv'
    BY <1>3, HandlerBegins DEF LogoutBegin, TokenAccepted
  <1>4. CASE PasswordVerify(t)
    <2>1. CASE Goto(t, "update")
      BY <1>4, <2>1, GotoStep DEF PasswordVerify
    <2>2. CASE TaskStep(t, Idle)
      BY <1>4, <2>2, IdleHarmless, QuietStep DEF PasswordVerify, Inv, TypeOK
    <2>. QED
      BY <1>4, <2>1, <2>2 DEF PasswordVerify
  <1>5. ASSUME NEW p \in Password, PasswordUpdate(t, p) PROVE Inv'
    <2>1. /\ task[t] \in TaskType /\ task[t].pc = "update" /\ task[t].jti \in held
          /\ ~task[t].late /\ held \subseteq Jti
      BY <1>5 DEF PasswordUpdate, Inv, TypeOK, HeldOK, LateOK
    <2>. DEFINE rec == [task[t] EXCEPT !.pc = "scan"]
    <2>2. rec \in TaskType /\ rec.pc = "scan" /\ rec.jti = task[t].jti /\ ~rec.late
      BY <2>1 DEF TaskType, Pc
    <2>3. TaskStep(t, rec)
      BY <1>5 DEF PasswordUpdate, Goto
    <2>. HIDE DEF rec
    <2>4. task' \in [Task -> TaskType] /\ task'[t] = rec
          /\ \A u \in Task \ {t} : task'[u] = task[u]
      BY <2>2, <2>3, TaskMoves DEF Inv
    <2>5. user' \in Password \/ user' = user
      BY <1>5 DEF PasswordUpdate
    <2>6. user = Deleted => user' = Deleted
      BY <1>5 DEF PasswordUpdate, UserExists
    <2>7. TypeOK'
      BY <1>5, <2>4, <2>5 DEF PasswordUpdate, Inv, TypeOK
    <2>8. IssuingOK' /\ NotYetOpen'
      BY <1>5, <2>1, <2>2, <2>4 DEF PasswordUpdate, Inv, IssuingOK, NotYetOpen, BeingIssued, Issuing
    <2>9. HeldOK'
      BY <1>5, <2>1, <2>2, <2>4 DEF PasswordUpdate, Inv, HeldOK
    <2>10. LateOK'
      BY <2>2, <2>4, <2>6 DEF Inv, LateOK
    <2>11. ClearedOK' /\ EndedStaysEnded'
      BY <1>5, <2>2, <2>4 DEF PasswordUpdate, Inv, ClearedOK, EndedStaysEnded, Present
    <2>. QED
      BY <2>7, <2>8, <2>9, <2>10, <2>11 DEF Inv
  <1>6. CASE DeleteUser(t)
    <2>1. task[t] \in TaskType /\ task[t].pc = "delete" /\ task[t].jti \in held /\ ~task[t].late
      BY <1>6 DEF DeleteUser, Inv, TypeOK, HeldOK, LateOK
    <2>. DEFINE rec == [task[t] EXCEPT !.pc = "scan"]
    <2>2. rec \in TaskType /\ rec.pc = "scan" /\ rec.jti = task[t].jti /\ ~rec.late
      BY <2>1 DEF TaskType, Pc
    <2>3. TaskStep(t, rec)
      BY <1>6 DEF DeleteUser, Goto
    <2>. HIDE DEF rec
    <2>4. task' \in [Task -> TaskType] /\ task'[t] = rec
          /\ \A u \in Task \ {t} : task'[u] = task[u]
      BY <2>2, <2>3, TaskMoves DEF Inv
    <2>5. TypeOK'
      BY <1>6, <2>4 DEF DeleteUser, Inv, TypeOK
    <2>6. IssuingOK' /\ NotYetOpen'
      BY <1>6, <2>1, <2>2, <2>4 DEF DeleteUser, Inv, IssuingOK, NotYetOpen, BeingIssued, Issuing
    <2>7. HeldOK'
      BY <1>6, <2>1, <2>2, <2>4 DEF DeleteUser, Inv, HeldOK
    <2>8. LateOK'
      BY <1>6, <2>2, <2>4 DEF DeleteUser, Inv, LateOK
    <2>9. ClearedOK' /\ EndedStaysEnded'
      BY <1>6, <2>2, <2>4 DEF DeleteUser, Inv, ClearedOK, EndedStaysEnded, Present
    <2>. QED
      BY <2>5, <2>6, <2>7, <2>8, <2>9 DEF Inv
  <1>7. CASE LogoutDelToken(t)
    <2>1. CASE SetKey("token", task[t].jti, 0) /\ Goto(t, "delValid")
      BY <1>7, <2>1, DeleteKeyStep DEF LogoutDelToken
    <2>2. CASE GotoFailed(t, "scan") /\ UNCHANGED key
      BY <1>7, <2>2, GotoStep DEF LogoutDelToken
    <2>. QED
      BY <1>7, <2>1, <2>2 DEF LogoutDelToken
  <1>8. CASE LogoutDelValid(t)
    <2>1. CASE SetKey("valid", task[t].jti, 0) /\ Goto(t, "scan")
      BY <1>8, <2>1, DeleteKeyStep DEF LogoutDelValid
    <2>2. CASE GotoFailed(t, "scan") /\ UNCHANGED key
      BY <1>8, <2>2, GotoStep DEF LogoutDelValid
    <2>. QED
      BY <1>8, <2>1, <2>2 DEF LogoutDelValid
  <1>9. CASE ScanKeys(t)
    <2>1. /\ task[t] \in TaskType /\ task[t].pc = "scan" /\ task[t].jti \in held
          /\ ~task[t].late
      BY <1>9 DEF ScanKeys, Inv, TypeOK, HeldOK, LateOK
    <2>2. CASE TaskStep(t, [task[t] EXCEPT !.pc = "clear", !.keys = Scanned(task[t].jti)])
      <3>. DEFINE rec == [task[t] EXCEPT !.pc = "clear", !.keys = Scanned(task[t].jti)]
      <3>1. Scanned(task[t].jti) \subseteq Kind
            /\ (Present("valid", task[t].jti) => "valid" \in Scanned(task[t].jti))
        BY DEF Scanned
      <3>2. rec \in TaskType /\ rec.pc = "clear" /\ rec.jti = task[t].jti /\ ~rec.late
            /\ rec.keys = Scanned(task[t].jti)
        BY <2>1, <3>1 DEF TaskType, Pc
      <3>. HIDE DEF rec
      <3>3. Harmless(rec) /\ Swept(rec)
        BY <2>1, <3>1, <3>2 DEF Harmless, Swept, Issuing
      <3>. QED
        BY <1>9, <2>2, <3>3, QuietStep DEF ScanKeys, rec, Inv, TypeOK
    <2>3. CASE GotoFailed(t, "clear")
      <3>. DEFINE rec == [task[t] EXCEPT !.pc = "clear", !.clean = FALSE]
      <3>1. rec \in TaskType /\ rec.pc = "clear" /\ rec.jti = task[t].jti /\ ~rec.late
            /\ ~rec.clean
        BY <2>1 DEF TaskType, Pc
      <3>. HIDE DEF rec
      <3>2. Harmless(rec) /\ Swept(rec)
        BY <2>1, <3>1 DEF Harmless, Swept, Issuing
      <3>. QED
        BY <1>9, <2>3, <3>2, QuietStep DEF ScanKeys, GotoFailed, rec, Inv, TypeOK
    <2>. QED
      BY <1>9, <2>2, <2>3 DEF ScanKeys
  <1>10. ASSUME NEW k \in Kind, ClearKey(t, k) PROVE Inv'
    <2>1. /\ task[t] \in TaskType /\ task[t].pc = "clear" /\ task[t].jti \in held
          /\ ~task[t].late /\ held \subseteq Jti
      BY <1>10 DEF ClearKey, Inv, TypeOK, HeldOK, LateOK
    <2>2. CASE SetKey(k, task[t].jti, 0) /\ TaskStep(t, [task[t] EXCEPT !.keys = @ \ {k}])
      <3>0. PICK rec : rec = [task[t] EXCEPT !.keys = @ \ {k}]
        OBVIOUS
      <3>1. rec \in TaskType /\ rec.pc = "clear" /\ rec.jti = task[t].jti /\ ~rec.late
            /\ rec.keys = task[t].keys \ {k} /\ rec.clean = task[t].clean
        BY <2>1, <3>0 DEF TaskType
      <3>2. 0 \in Expiry /\ now \in Nat
        BY DEF Expiry, Inv, TypeOK, Time
      <3>3. /\ key'[k][task[t].jti] = 0
            /\ \A l \in Kind : l # k => key'[l] = key[l]
        BY <2>1, <2>2, <3>2, KeyWritten DEF Inv
      <3>4. Swept(rec)'
        <4>. SUFFICES ASSUME rec.clean, Present("valid", rec.jti)'
                      PROVE  "valid" \in rec.keys
          BY DEF Swept
        <4>1. k # "valid"
          BY <1>10, <3>1, <3>2, <3>3 DEF ClearKey, Present
        <4>2. Present("valid", task[t].jti)
          BY <1>10, <3>1, <3>3, <4>1 DEF ClearKey, Present
        <4>. QED
          BY <2>1, <3>1, <4>1, <4>2 DEF Inv, ClearedOK
      <3>5. Harmless(rec)
        BY <2>1, <3>1 DEF Harmless, Issuing
      <3>6. TaskStep(t, rec)
        BY <2>2, <3>0
      <3>7. UNCHANGED <<now, user, exp, held, ended>>
        BY <1>10 DEF ClearKey
      <3>. QED
        BY <2>1, <2>2, <3>2, <3>4, <3>5, <3>6, <3>7, KeyStep
    <2>3. CASE TaskStep(t, [task[t] EXCEPT !.keys = {}, !.clean = FALSE]) /\ UNCHANGED key
      <3>. DEFINE rec == [task[t] EXCEPT !.keys = {}, !.clean = FALSE]
      <3>1. rec \in TaskType /\ rec.pc = "clear" /\ rec.jti = task[t].jti /\ ~rec.late
            /\ ~rec.clean
        BY <2>1 DEF TaskType
      <3>. HIDE DEF rec
      <3>2. Harmless(rec) /\ Swept(rec)
        BY <2>1, <3>1 DEF Harmless, Swept, Issuing
      <3>. QED
        BY <1>10, <2>3, <3>2, QuietStep DEF ClearKey, rec, Inv, TypeOK
    <2>. QED
      BY <1>10, <2>2, <2>3 DEF ClearKey
  <1>11. CASE Answer(t)
    <2>1. /\ task[t] \in TaskType /\ task[t].pc = "clear" /\ task[t].jti \in held
          /\ task[t].keys = {} /\ held \subseteq Jti
      BY <1>11 DEF Answer, Inv, TypeOK, HeldOK
    <2>2. Idle \in TaskType /\ Idle.pc = "idle" /\ ~Idle.late
      BY DEF Idle, TaskType, Pc, Op, Ttls
    <2>3. task' \in [Task -> TaskType] /\ task'[t] = Idle
          /\ \A u \in Task \ {t} : task'[u] = task[u]
      BY <1>11, <2>2, TaskMoves DEF Answer, Inv
    <2>4. TypeOK'
      BY <1>11, <2>1, <2>3 DEF Answer, Inv, TypeOK, TaskType
    <2>5. IssuingOK' /\ NotYetOpen' /\ LateOK'
      BY <1>11, <2>2, <2>3 DEF Answer, Inv, IssuingOK, NotYetOpen, BeingIssued, Issuing, LateOK
    <2>6. HeldOK'
      BY <1>11, <2>1, <2>2, <2>3 DEF Answer, Inv, HeldOK, Using
    <2>7. ClearedOK'
      BY <1>11, <2>2, <2>3 DEF Answer, Inv, ClearedOK, Present
    <2>8. task[t].clean => ~Present("valid", task[t].jti)
      BY <2>1 DEF Inv, ClearedOK
    <2>9. EndedStaysEnded'
      BY <1>11, <2>8 DEF Answer, Inv, EndedStaysEnded, Present
    <2>. QED
      BY <2>4, <2>5, <2>6, <2>7, <2>9 DEF Inv
  <1>. QED
    BY <1>1, <1>2, <1>3, <1>4, <1>5, <1>6, <1>7, <1>8, <1>9, <1>10, <1>11 DEF EndNext

LEMMA NextInv == Inv /\ [Next]_vars => Inv'
  <1>. SUFFICES ASSUME Inv, [Next]_vars PROVE Inv'
    OBVIOUS
  <1>1. CASE NextTick
    BY <1>1, TickStep
  <1>2. ASSUME NEW t \in Task, Dropped(t) PROVE Inv'
    BY <1>2, IdleHarmless, QuietStep DEF Dropped, Inv, TypeOK
  <1>3. CASE UNCHANGED vars
    BY <1>3 DEF vars, Inv, TypeOK, IssuingOK, NotYetOpen, BeingIssued, HeldOK, LateOK,
               ClearedOK, EndedStaysEnded, Present
  <1>. QED
    BY <1>1, <1>2, <1>3, IssueStep, OverviewStep, EndStep DEF Next

-----------------------------------------------------------------------------
(***************************************************************************)
(* Safety.                                                                 *)
(***************************************************************************)
\* Every variable keeps its type, whatever requests race.
THEOREM SessionTypeCorrect == Spec => []TypeOK
  <1>1. Inv => TypeOK
    BY DEF Inv
  <1>. QED
    BY InitInv, NextInv, <1>1, PTL DEF Spec

\* A session that was ended by a logout, a password change or a deletion is
\* never accepted again.
THEOREM EndedSessionsStayEnded == Spec => []EndedStaysEnded
  <1>1. Inv => EndedStaysEnded
    BY DEF Inv
  <1>. QED
    BY InitInv, NextInv, <1>1, PTL DEF Spec

\* A refresh that comes after the end of its session or account opens none.
THEOREM NothingOpensAfterTheEnd == Spec => []NoSessionAfterTheEnd
  <1>1. Inv => NoSessionAfterTheEnd
    BY DEF Inv, LateOK, NoSessionAfterTheEnd
  <1>. QED
    BY InitInv, NextInv, <1>1, PTL DEF Spec

-----------------------------------------------------------------------------
(***************************************************************************)
(* The handlers implement SessionLifecycle.                                *)
(***************************************************************************)
\* Sessions that change at all become over.
LEMMA OnlyEnds ==
    ASSUME \A j \in Jti : \/ Status'[j] = Status[j]
                          \/ Status[j] # "over" /\ Status'[j] = "over"
    PROVE  [Lifecycle!Next]_Status
  <1>. DEFINE S == {j \in Jti : Status'[j] # Status[j]}
  <1>1. CASE S = {}
    <2>1. \A j \in Jti : Status'[j] = Status[j]
      BY <1>1
    <2>2. Status' = Status
      BY <2>1 DEF Status
    <2>. QED
      BY <2>2
  <1>2. CASE S # {}
    <2>1. \A j \in S : Status[j] # "over"
      OBVIOUS
    <2>2. Status' = [j \in Jti |-> IF j \in S THEN "over" ELSE Status[j]]
      <3>1. \A j \in Jti : Status'[j] = IF j \in S THEN "over" ELSE Status[j]
        OBVIOUS
      <3>. QED
        BY <3>1 DEF Status
    <2>3. Lifecycle!End(S)
      BY <1>2, <2>1, <2>2 DEF Lifecycle!End
    <2>. QED
      BY <2>3 DEF Lifecycle!Next
  <1>. QED
    BY <1>1, <1>2

\* A step that starts no issue and makes no key appear only ends sessions.
LEMMA NothingOpens ==
    ASSUME Inv, UNCHANGED exp,
           \A j \in Jti : BeingIssued(j)' => BeingIssued(j),
           \A j \in Jti : Present("valid", j)' => Present("valid", j)
    PROVE  [Lifecycle!Next]_Status
  <1>1. \A j \in Jti : exp[j] = Never \/ BeingIssued(j) => ~Present("valid", j)
    BY DEF Inv, NotYetOpen, Present, TypeOK, Time
  <1>2. \A j \in Jti : \/ Status'[j] = Status[j]
                       \/ Status[j] # "over" /\ Status'[j] = "over"
    BY <1>1 DEF Status
  <1>. QED
    BY <1>2, OnlyEnds

\* Most steps of a request are such steps.
LEMMA NothingOpensStep ==
    ASSUME Inv, NEW t \in Task, NEW rec, rec.pc # "setValid", TaskStep(t, rec),
           UNCHANGED <<now, exp>>,
           \/ UNCHANGED key
           \/ \E k \in {"token", "data"}, j \in Jti, e \in Expiry : SetKey(k, j, e)
           \/ \E k \in Kind, j \in Jti : SetKey(k, j, 0)
    PROVE  [Lifecycle!Next]_Status
  <1>1. \A j \in Jti : BeingIssued(j)' => BeingIssued(j)
    BY DEF BeingIssued, TaskStep, Inv, TypeOK
  <1>2. "valid" \in Kind /\ {"token", "data"} \subseteq Kind /\ 0 \in Expiry /\ now \in Nat
    BY DEF Kind, Expiry, Inv, TypeOK, Time
  <1>3. \A j \in Jti : Present("valid", j)' => Present("valid", j)
    <2>1. CASE UNCHANGED key
      BY <2>1 DEF Present
    <2>2. ASSUME NEW k \in {"token", "data"}, NEW j \in Jti, NEW e \in Expiry, SetKey(k, j, e)
          PROVE  key'["valid"] = key["valid"]
      BY <1>2, <2>2, KeyWritten DEF Inv
    <2>3. ASSUME NEW k \in Kind, NEW j \in Jti, SetKey(k, j, 0), NEW i \in Jti
          PROVE  key'["valid"][i] = key["valid"][i] \/ key'["valid"][i] = 0
      BY <1>2, <2>3, KeyWritten DEF Inv
    <2>. QED
      BY <1>2, <2>1, <2>2, <2>3 DEF Present
  <1>. QED
    BY <1>1, <1>3, NothingOpens

\* Generating a token shows nothing.
LEMMA GenerateShowsNothing ==
    ASSUME Inv, NEW t \in Task, task[t].pc # "setValid",
           NEW j \in FreshJtis, NEW from \in TaskType, Generate(t, j, from),
           UNCHANGED <<now, key>>
    PROVE  UNCHANGED Status
  <1>. DEFINE rec == [from EXCEPT !.pc = "setValid", !.op = "issue",
                                  !.new = j, !.ttl = Ttl]
  <1>1. rec.pc = "setValid" /\ rec.new = j
    BY DEF TaskType
  <1>2. task' = [task EXCEPT ![t] = rec]
    BY DEF Generate, TaskStep
  <1>. HIDE DEF rec
  <1>3. BeingIssued(j)' /\ j \in Jti /\ exp[j] = Never
    BY <1>1, <1>2 DEF BeingIssued, FreshJtis, Inv, TypeOK
  <1>4. \A i \in Jti \ {j} : BeingIssued(i)' <=> BeingIssued(i)
    BY <1>1, <1>2 DEF BeingIssued, Inv, TypeOK
  <1>5. \A i \in Jti \ {j} : exp'[i] = exp[i]
    BY DEF Generate, Inv, TypeOK
  <1>6. \A i \in Jti : Status'[i] = Status[i]
    BY <1>3, <1>4, <1>5 DEF Status, Present
  <1>. QED
    BY <1>6 DEF Status

\* Writing a session's key opens it.
LEMMA SetSessionValidOpens ==
    ASSUME Inv, NEW t \in Task, SetSessionValid(t)
    PROVE  [Lifecycle!Next]_Status
  <1>1. PICK j \in Jti \ held : j = task[t].new
    BY DEF SetSessionValid, Inv, IssuingOK, Issuing
  <1>2. /\ task[t] \in TaskType /\ task[t].pc = "setValid"
        /\ task[t].ttl = Lifetime /\ exp[j] # Never /\ now \in Time
    BY <1>1 DEF SetSessionValid, Inv, TypeOK, IssuingOK, Issuing
  <1>3. PICK rec : rec.pc = "setToken" /\ TaskStep(t, rec)
    <2>1. CASE Goto(t, "setToken")
      BY <1>2, <2>1 DEF Goto, TaskType
    <2>2. CASE GotoFailed(t, "setToken")
      <3>. DEFINE r == [task[t] EXCEPT !.pc = "setToken", !.clean = FALSE]
      <3>1. r.pc = "setToken"
        BY <1>2 DEF TaskType
      <3>. QED
        BY <2>2, <3>1 DEF GotoFailed
    <2>. QED
      BY <2>1, <2>2 DEF SetSessionValid
  <1>4. CASE UNCHANGED key
    BY <1>3, <1>4, NothingOpensStep DEF SetSessionValid
  <1>5. CASE SetKey("valid", j, now + Lifetime)
    <2>1. "valid" \in Kind /\ now + Lifetime \in Expiry
      BY <1>2 DEF Kind, Expiry, Time
    <2>2. key'["valid"][j] = now + Lifetime
          /\ \A i \in Jti \ {j} : key'["valid"][i] = key["valid"][i]
      BY <1>5, <2>1, KeyWritten DEF Inv
    <2>3. BeingIssued(j) /\ ~BeingIssued(j)'
      BY <1>1, <1>2, <1>3 DEF BeingIssued, TaskStep, Inv, TypeOK, IssuingOK, Issuing
    <2>4. \A i \in Jti \ {j} : BeingIssued(i)' <=> BeingIssued(i)
      BY <1>1, <1>2, <1>3 DEF BeingIssued, TaskStep, Inv, TypeOK
    <2>5. Present("valid", j)' /\ \A i \in Jti \ {j} : Present("valid", i)' <=> Present("valid", i)
      BY <1>2, <2>2 DEF SetSessionValid, Present, Time
    <2>6. Status[j] = "new" /\ Status'[j] = "open"
      BY <1>2, <2>3, <2>5 DEF SetSessionValid, Status
    <2>7. \A i \in Jti \ {j} : Status'[i] = Status[i]
      BY <2>4, <2>5 DEF SetSessionValid, Status
    <2>8. Status' = [Status EXCEPT ![j] = "open"]
      BY <2>6, <2>7 DEF Status
    <2>. QED
      BY <2>6, <2>8 DEF Lifecycle!Next, Lifecycle!Open
  <1>. QED
    BY <1>1, <1>2, <1>4, <1>5 DEF SetSessionValid

LEMMA StepSimulates == Inv /\ [Next]_vars => [Lifecycle!Next]_Status
  <1>. SUFFICES ASSUME Inv, [Next]_vars PROVE [Lifecycle!Next]_Status
    OBVIOUS
  <1>. Idle.pc # "setValid"
    BY DEF Idle
  <1>. {"token", "data", "valid"} = Kind
    BY DEF Kind
  <1>1. CASE NextTick
    <2>1. now' = now + 1 /\ now \in Nat
      BY <1>1 DEF NextTick, Inv, TypeOK, Time
    <2>2. \A j \in Jti : key["valid"][j] \in Nat
      BY DEF Inv, TypeOK, Expiry
    <2>. QED
      BY <1>1, <2>1, <2>2, NothingOpens DEF NextTick, Present, BeingIssued
  <1>2. CASE UNCHANGED vars
    BY <1>2 DEF vars, Status, BeingIssued, Present
  <1>3. ASSUME NEW t \in Task, IssueNext(t) PROVE [Lifecycle!Next]_Status
    <2>0. Idle \in TaskType
      BY DEF Idle, TaskType, Pc, Op, Ttls
    <2>1. ASSUME NEW p \in Password, Register(t, p) \/ Login(t, p)
          PROVE  [Lifecycle!Next]_Status
      BY <2>0, <2>1, GenerateShowsNothing DEF Register, Login
    <2>2. ASSUME NEW j \in Jti, RefreshBegin(t, j) PROVE [Lifecycle!Next]_Status
      <3>. DEFINE rec == [Idle EXCEPT !.pc = "loadUser", !.jti = j,
                                      !.late = (j \in ended \/ user = Deleted)]
      <3>1. rec.pc # "setValid"
        BY DEF Idle
      <3>. QED
        BY <2>2, <3>1, NothingOpensStep DEF RefreshBegin, Begin
    <2>3. CASE RefreshLoadUser(t)
      <3>1. CASE \E j \in RefreshJtis(t) : Generate(t, j, task[t])
        <4>1. task[t].pc = "loadUser" /\ task[t] \in TaskType
          BY <2>3 DEF RefreshLoadUser, Inv, TypeOK
        <4>. QED
          BY <2>3, <3>1, <4>1, GenerateShowsNothing DEF RefreshLoadUser, RefreshJtis
      <3>2. CASE TaskStep(t, Idle) /\ UNCHANGED exp
        BY <2>3, <3>2, NothingOpensStep DEF RefreshLoadUser
      <3>. QED
        BY <2>3, <3>1, <3>2 DEF RefreshLoadUser
    <2>4. CASE SetJwtToken(t)
      <3>1. /\ task[t].new \in Jti /\ now + task[t].ttl \in Expiry
        BY <2>4 DEF SetJwtToken, Inv, TypeOK, IssuingOK, Issuing, Time, Expiry
      <3>. QED
        BY <2>4, <3>1, NothingOpensStep DEF SetJwtToken
    <2>. QED
      BY <1>3, <2>1, <2>2, <2>3, <2>4, SetSessionValidOpens DEF IssueNext
  <1>4. ASSUME NEW t \in Task, OverviewNext(t) \/ EndNext(t) \/ Dropped(t)
        PROVE  [Lifecycle!Next]_Status
    <2>0. task[t] \in TaskType /\ (task[t].pc \in Using => task[t].jti \in Jti)
      BY DEF Inv, TypeOK, HeldOK
    <2>1. CASE Dropped(t)
      BY <2>1, NothingOpensStep DEF Dropped
    <2>2. ASSUME NEW j \in Jti, OverviewBegin(t, j) PROVE [Lifecycle!Next]_Status
      <3>1. [Idle EXCEPT !.pc = "ttl", !.op = "overview", !.jti = j].pc # "setValid"
        BY DEF Idle
      <3>. QED
        BY <2>2, <3>1, NothingOpensStep DEF OverviewBegin, Begin
    <2>3. CASE OverviewTtl(t)
      <3>1. PICK d : TaskStep(t, [task[t] EXCEPT !.pc = "store", !.ttl = d])
        BY <2>3 DEF OverviewTtl
      <3>2. [task[t] EXCEPT !.pc = "store", !.ttl = d].pc # "setValid"
        BY <2>0 DEF TaskType
      <3>. QED
        BY <2>3, <3>1, <3>2, NothingOpensStep DEF OverviewTtl
    <2>4. CASE OverviewStore(t)
      <3>1. task[t].jti \in Jti /\ now + task[t].ttl \in Expiry
        BY <2>0, <2>4 DEF OverviewStore, Using, Inv, TypeOK, TaskType, Time, Ttls, Expiry
      <3>. QED
        BY <2>4, <3>1, NothingOpensStep DEF OverviewStore
    <2>5. ASSUME NEW j \in Jti, PasswordBegin(t, j) \/ DeleteBegin(t, j) \/ LogoutBegin(t, j)
          PROVE  [Lifecycle!Next]_Status
      <3>1. /\ [Idle EXCEPT !.pc = "verify", !.op = "password", !.jti = j].pc # "setValid"
            /\ [Idle EXCEPT !.pc = "delete", !.op = "delete", !.jti = j].pc # "setValid"
            /\ [Idle EXCEPT !.pc = "delToken", !.op = "logout", !.jti = j].pc # "setValid"
        BY DEF Idle
      <3>. QED
        BY <2>5, <3>1, NothingOpensStep DEF PasswordBegin, DeleteBegin, LogoutBegin, Begin
    <2>6. ASSUME NEW pc \in Pc \ {"setValid"}, Goto(t, pc) \/ GotoFailed(t, pc)
          PROVE  \E rec : rec.pc # "setValid" /\ TaskStep(t, rec)
      <3>1. [task[t] EXCEPT !.pc = pc].pc # "setValid"
            /\ [task[t] EXCEPT !.pc = pc, !.clean = FALSE].pc # "setValid"
        BY <2>0 DEF TaskType
      <3>. QED
        BY <2>6, <3>1 DEF Goto, GotoFailed
    <2>7. {"update", "scan", "delValid", "clear"} \subseteq Pc \ {"setValid"}
      BY DEF Pc
    <2>8. CASE PasswordVerify(t)
      BY <2>6, <2>7, <2>8, NothingOpensStep DEF PasswordVerify
    <2>9. ASSUME NEW p \in Password, PasswordUpdate(t, p) PROVE [Lifecycle!Next]_Status
      <3>1. [task[t] EXCEPT !.pc = "scan"].pc # "setValid"
        BY <2>0 DEF TaskType
      <3>. QED
        BY <2>9, <3>1, NothingOpensStep DEF PasswordUpdate, Goto
    <2>10. CASE DeleteUser(t)
      BY <2>6, <2>7, <2>10, NothingOpensStep DEF DeleteUser
    <2>11. CASE LogoutDelToken(t)
      <3>1. task[t].jti \in Jti
        BY <2>0, <2>11 DEF LogoutDelToken, Using
      <3>. QED
        BY <2>6, <2>7, <2>11, <3>1, NothingOpensStep DEF LogoutDelToken
    <2>12. CASE LogoutDelValid(t)
      <3>1. task[t].jti \in Jti
        BY <2>0, <2>12 DEF LogoutDelValid, Using
      <3>. QED
        BY <2>6, <2>7, <2>12, <3>1, NothingOpensStep DEF LogoutDelValid
    <2>13. CASE ScanKeys(t)
      <3>1. [task[t] EXCEPT !.pc = "clear", !.keys = Scanned(task[t].jti)].pc # "setValid"
        BY <2>0 DEF TaskType
      <3>. QED
        BY <2>6, <2>7, <2>13, <3>1, NothingOpensStep DEF ScanKeys
    <2>14. ASSUME NEW k \in Kind, ClearKey(t, k) PROVE [Lifecycle!Next]_Status
      <3>1. /\ [task[t] EXCEPT !.keys = @ \ {k}].pc # "setValid"
            /\ [task[t] EXCEPT !.keys = {}, !.clean = FALSE].pc # "setValid"
            /\ task[t].jti \in Jti
        BY <2>0, <2>14 DEF ClearKey, TaskType, Using
      <3>. QED
        BY <2>14, <3>1, NothingOpensStep DEF ClearKey
    <2>15. CASE Answer(t)
      BY <2>15, NothingOpensStep DEF Answer
    <2>. QED
      BY <1>4, <2>1, <2>2, <2>3, <2>4, <2>5, <2>8, <2>9, <2>10, <2>11, <2>12, <2>13,
         <2>14, <2>15 DEF OverviewNext, EndNext
  <1>. QED
    BY <1>1, <1>2, <1>3, <1>4 DEF Next

\* A JWT id opens one session and never another: the handlers, at the
\* granularity of their awaits, implement SessionLifecycle.
THEOREM SessionsOpenOnce == Spec => LifecycleSpec
  <1>1. Init => Lifecycle!Init
    BY DEF Init, Lifecycle!Init, Status
  <1>. QED
    BY InitInv, NextInv, StepSimulates, <1>1, PTL DEF Spec, LifecycleSpec, Lifecycle!Spec
=============================================================================
