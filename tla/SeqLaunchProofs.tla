--------------------------- MODULE SeqLaunchProofs ----------------------------
(***************************************************************************)
(* Theorems about SeqLaunch for every set of functions, whatever they are  *)
(* declared with and called with, and any number of calls and tasks.       *)
(***************************************************************************)
EXTENDS SeqLaunch, FiniteSetTheorems, SequenceTheorems, WellFoundedInduction, TLAPS

(* Sequences of anything, and the least of some numbers *)

IsSeq(s) == s \in Seq(Range(s))

LEMMA SeqOf ==
    ASSUME NEW S, NEW s \in Seq(S)
    PROVE  IsSeq(s)
<1>1. Len(s) \in Nat /\ DOMAIN s = 1 .. Len(s) /\ \A i \in 1 .. Len(s) : s[i] \in Range(s)
  BY LenProperties DEF Range
<1> QED BY <1>1 DEF IsSeq

LEMMA AppendAny ==
    ASSUME NEW s, IsSeq(s), NEW e
    PROVE  /\ IsSeq(Append(s, e)) /\ Len(s) \in Nat /\ Len(Append(s, e)) = Len(s) + 1
           /\ DOMAIN s = 1 .. Len(s) /\ DOMAIN Append(s, e) = 1 .. Len(s) + 1
           /\ \A i \in DOMAIN s : Append(s, e)[i] = s[i]
           /\ Append(s, e)[Len(s) + 1] = e
<1> DEFINE S == Range(s) \cup {e}
<1>1. s \in Seq(S) /\ e \in S
  <2>1. Seq(Range(s)) \subseteq Seq(S)
    BY SeqMonotonic
  <2> QED BY <2>1 DEF IsSeq
<1> HIDE DEF S
<1>2. /\ Append(s, e) \in Seq(S) /\ Len(Append(s, e)) = Len(s) + 1
      /\ \A i \in 1 .. Len(s) : Append(s, e)[i] = s[i]
      /\ Append(s, e)[Len(s) + 1] = e
  BY ONLY <1>1, AppendProperties
<1>3. /\ Len(s) \in Nat /\ DOMAIN s = 1 .. Len(s)
      /\ DOMAIN Append(s, e) = 1 .. Len(s) + 1
  BY ONLY <1>1, <1>2, LenProperties
<1>4. IsSeq(Append(s, e))
  BY ONLY <1>2, SeqOf
<1> QED BY ONLY <1>2, <1>3, <1>4

LEMMA ExceptAny ==
    ASSUME NEW s, IsSeq(s), NEW i \in DOMAIN s, NEW e
    PROVE  LET r == [s EXCEPT ![i] = e] IN
           /\ IsSeq(r) /\ Len(r) = Len(s) /\ DOMAIN r = DOMAIN s
           /\ \A j \in DOMAIN s \ {i} : r[j] = s[j]
           /\ r[i] = e
<1> DEFINE S == Range(s) \cup {e}  r == [s EXCEPT ![i] = e]
<1>1. s \in Seq(S) /\ e \in S
  <2>1. Seq(Range(s)) \subseteq Seq(S)
    BY SeqMonotonic
  <2> QED BY <2>1 DEF IsSeq
<1> HIDE DEF S
<1>2. i \in 1 .. Len(s) /\ DOMAIN s = 1 .. Len(s)
  BY <1>1, LenProperties
<1>3. r \in Seq(S) /\ Len(r) = Len(s) /\ DOMAIN r = DOMAIN s
      /\ (\A j \in 1 .. Len(s) : r[j] = IF j = i THEN e ELSE s[j])
  BY <1>1, <1>2, ExceptSeq, LenProperties
<1> HIDE DEF r
<1>4. IsSeq(r)
  BY ONLY <1>3, SeqOf
<1> QED BY ONLY <1>2, <1>3, <1>4 DEF r

LEMMA LeastOf ==
    ASSUME NEW S, S \subseteq Nat, S # {}
    PROVE  Min(S) \in S /\ \A y \in S : Min(S) <= y
<1>1. PICK x \in S : \A y \in S : ~ (<<y, x>> \in OpToRel(<, Nat))
  BY NatLessThanWellFounded, WFMin
<1>2. ASSUME NEW y \in S PROVE x <= y
  <2>1. x \in Nat /\ y \in Nat /\ ~ (y < x)
    BY <1>1, <1>2 DEF OpToRel
  <2> QED BY <2>1
<1> QED BY <1>2 DEF Min

-----------------------------------------------------------------------------
(* Types *)

States == {"new", "picking", "running", "failed"}

DeclType ==
    /\ DOMAIN decl = Fn /\ DOMAIN undecorated = Fn
    /\ \A f \in Fn :
          LET decs == Seq(Range(Decorators[f]))
          IN  /\ decl[f] \in [requires : decs, locks : decs, randargs : decs]
              /\ undecorated[f] \in decs
              /\ \A i, j \in DOMAIN decl[f].randargs :
                    decl[f].randargs[i].name = decl[f].randargs[j].name => i = j
              /\ \A i \in DOMAIN decl[f].randargs : decl[f].randargs[i].kind = "randargs"

\* Once there is a call, nothing is declared any more.
CallType ==
    /\ IsSeq(calls) /\ (calls # <<>> => Declared)
    /\ \A c \in DOMAIN calls :
          /\ calls[c] \in [fn : Fn, kwds : {calls[c].kwds}, given : {calls[c].given}]
          /\ DOMAIN calls[c].kwds \subseteq DOMAIN calls[c].given
          /\ \A k \in DOMAIN calls[c].kwds : calls[c].kwds[k] = calls[c].given[k]

Req(c) == decl[calls[c].fn].requires
Rand(c) == decl[calls[c].fn].randargs

TaskType ==
    /\ IsSeq(tasks)
    /\ \A t \in DOMAIN tasks :
          /\ tasks[t] \in [call : DOMAIN calls, state : States, next : Nat \ {0},
                           args : {tasks[t].args}]
          /\ tasks[t].next <= Len(Rand(tasks[t].call)) + 1
          /\ tasks[t].state = "new" => tasks[t].next = 1

\* Tasks start in the order in which they were scheduled, one at a time.
OrderInv ==
    \A t, u \in DOMAIN tasks :
        u < t /\ tasks[t].state # "new" => tasks[u].state \in {"running", "failed"}

LaunchInv == DeclType /\ CallType /\ TaskType /\ OrderInv

LEMMA InitLaunch == LaunchInit => LaunchInv
<1> SUFFICES ASSUME LaunchInit PROVE LaunchInv
  OBVIOUS
<1>1. /\ decl = [f \in Fn |-> NoDecl] /\ undecorated = Decorators
      /\ calls = <<>> /\ tasks = <<>>
  BY DEF LaunchInit
<1>2. DOMAIN <<>> = {} /\ IsSeq(<<>>)
  <2>1. DOMAIN <<>> = {} /\ <<>> \in Seq({})
    BY EmptySeq
  <2> QED BY <2>1, SeqOf
<1>3. DeclType
  <2>1. ASSUME NEW f \in Fn
        PROVE  LET decs == Seq(Range(Decorators[f]))
               IN  /\ decl[f] \in [requires : decs, locks : decs, randargs : decs]
                   /\ undecorated[f] \in decs
                   /\ \A i, j \in DOMAIN decl[f].randargs :
                         decl[f].randargs[i].name = decl[f].randargs[j].name => i = j
                   /\ \A i \in DOMAIN decl[f].randargs : decl[f].randargs[i].kind = "randargs"
    <3>1. decl[f] = NoDecl /\ undecorated[f] = Decorators[f]
      BY <1>1
    <3>2. <<>> \in Seq(Range(Decorators[f])) /\ Decorators[f] \in Seq(Range(Decorators[f]))
      BY DecoratorsAssumption, EmptySeq
    <3> QED BY <1>2, <3>1, <3>2 DEF NoDecl
  <2>2. DOMAIN decl = Fn /\ DOMAIN undecorated = Fn
    BY <1>1, FnAssumption
  <2> QED BY ONLY <2>1, <2>2 DEF DeclType
<1>4. CallType /\ TaskType /\ OrderInv
  BY ONLY <1>1, <1>2 DEF CallType, TaskType, OrderInv
<1> QED BY <1>3, <1>4 DEF LaunchInv

-----------------------------------------------------------------------------
(* Declaring, calling and scheduling *)

\* A decorator adds to one of the three lists, or replaces a random argument.
LEMMA DecorateType ==
    ASSUME LaunchInv, NEW f \in Fn, Decorate(f)
    PROVE  /\ DeclType'
           /\ calls = <<>> /\ calls' = calls /\ tasks = <<>> /\ tasks' = tasks
<1> DEFINE Decs == Seq(Range(Decorators[f]))  n == Len(undecorated[f])
           d == undecorated[f][n]
<1>1. DeclType /\ CallType /\ TaskType
  BY DEF LaunchInv
<1>2. /\ decl[f] \in [requires : Decs, locks : Decs, randargs : Decs]
      /\ undecorated[f] \in Decs
      /\ \A i, j \in DOMAIN decl[f].randargs :
            decl[f].randargs[i].name = decl[f].randargs[j].name => i = j
      /\ \A i \in DOMAIN decl[f].randargs : decl[f].randargs[i].kind = "randargs"
      /\ DOMAIN decl = Fn /\ DOMAIN undecorated = Fn
  BY ONLY <1>1, f \in Fn DEF DeclType
<1>3. calls = <<>> /\ tasks = <<>>
  <2>1. calls = <<>>
    BY ONLY <1>1, Decorate(f), f \in Fn DEF CallType, Decorate, Declared
  <2>2. IsSeq(tasks) /\ \A t \in DOMAIN tasks : tasks[t].call \in DOMAIN calls
    BY ONLY <1>1 DEF TaskType
  <2>3. DOMAIN calls = {}
    BY ONLY <2>1, EmptySeq
  <2>4. DOMAIN tasks = 1 .. Len(tasks) /\ Len(tasks) \in Nat
    BY ONLY <2>2, LenProperties DEF IsSeq
  <2>5. Len(tasks) = 0
    <3>1. 1 \notin DOMAIN tasks
      BY ONLY <2>2, <2>3
    <3> QED BY ONLY <2>4, <3>1
  <2> QED BY ONLY <2>1, <2>2, <2>5, EmptySeq DEF IsSeq
<1>4. calls' = calls /\ tasks' = tasks
  BY ONLY Decorate(f) DEF Decorate
<1>5. n \in 1 .. n /\ n \in Nat /\ DOMAIN undecorated[f] = 1 .. n /\ d \in Range(Decorators[f])
  <2>1. undecorated[f] # <<>>
    BY ONLY Decorate(f) DEF Decorate
  <2>2. n \in Nat /\ DOMAIN undecorated[f] = 1 .. n
    BY ONLY <1>2, LenProperties
  <2>3. n # 0
    BY ONLY <1>2, <2>1, EmptySeq
  <2>4. n \in 1 .. n
    BY ONLY <2>2, <2>3
  <2> QED BY ONLY <1>2, <2>2, <2>4, ElementOfSeq
<1>6. undecorated'[f] \in Decs /\ DOMAIN undecorated' = Fn
      /\ \A g \in Fn \ {f} : undecorated'[g] = undecorated[g]
  <2>1. undecorated' = [undecorated EXCEPT ![f] = SubSeq(@, 1, Len(@) - 1)]
    BY ONLY Decorate(f) DEF Decorate
  <2>2. SubSeq(undecorated[f], 1, n - 1) \in Decs
    <3>1. \A i \in 1 .. n - 1 : undecorated[f][i] \in Range(Decorators[f])
      <4>1. \A i \in 1 .. n - 1 : i \in 1 .. n
        BY ONLY <1>5
      <4> QED BY ONLY <1>2, <1>5, <4>1, ElementOfSeq
    <3> QED BY ONLY <1>5, <3>1, SubSeqProperties
  <2> QED BY ONLY <1>2, <2>1, <2>2
<1>7. PICK e : e = d
  OBVIOUS
<1>8. e.kind \in {"requires", "locks", "randargs"}
  BY ONLY <1>5, <1>7, f \in Fn, DecoratorsAssumption
<1>9. /\ DOMAIN decl' = Fn /\ \A g \in Fn \ {f} : decl'[g] = decl[g]
      /\ decl'[f] = Declaring(decl[f], e)
  <2>1. decl' = [decl EXCEPT ![f] = Declaring(decl[f], d)]
    BY ONLY Decorate(f) DEF Decorate
  <2> HIDE DEF d
  <2> QED BY ONLY <1>2, <1>7, <2>1, f \in Fn
<1> HIDE DEF d, n, Decs
<1>10. /\ decl'[f] \in [requires : Decs, locks : Decs, randargs : Decs]
       /\ \A i, j \in DOMAIN decl'[f].randargs :
             decl'[f].randargs[i].name = decl'[f].randargs[j].name => i = j
       /\ \A i \in DOMAIN decl'[f].randargs : decl'[f].randargs[i].kind = "randargs"
  <2>0. PICK r : r = decl[f]
    OBVIOUS
  <2>1. /\ r.requires \in Decs /\ r.locks \in Decs /\ r.randargs \in Decs
        /\ r = [requires |-> r.requires, locks |-> r.locks, randargs |-> r.randargs]
        /\ \A i, j \in DOMAIN r.randargs : r.randargs[i].name = r.randargs[j].name => i = j
        /\ \A i \in DOMAIN r.randargs : r.randargs[i].kind = "randargs"
        /\ decl'[f] = Declaring(r, e)
    BY ONLY <1>2, <1>9, <2>0
  <2>2. ASSUME NEW s \in Decs
        PROVE  /\ Append(s, e) \in Decs /\ DOMAIN s = 1 .. Len(s) /\ Len(s) \in Nat
               /\ DOMAIN Append(s, e) = 1 .. Len(s) + 1
               /\ \A i \in DOMAIN s : Append(s, e)[i] = s[i]
               /\ Append(s, e)[Len(s) + 1] = e
    <3>1. e \in Range(Decorators[f])
      BY ONLY <1>5, <1>7
    <3>2. s \in Seq(Range(Decorators[f]))
      BY ONLY <2>2 DEF Decs
    <3>3. IsSeq(s)
      BY ONLY <3>2, SeqOf
    <3> QED BY ONLY <3>1, <3>2, <3>3, AppendProperties, AppendAny DEF Decs
  <2>3. CASE e.kind = "requires"
    <3>1. decl'[f] = [requires |-> Append(r.requires, e), locks |-> r.locks, randargs |-> r.randargs]
      BY ONLY <2>1, <2>3 DEF Declaring
    <3> QED BY ONLY <2>1, <2>2, <3>1
  <2>4. CASE e.kind = "locks"
    <3>1. decl'[f] = [requires |-> r.requires, locks |-> Append(r.locks, e), randargs |-> r.randargs]
      BY ONLY <2>1, <2>4 DEF Declaring
    <3> QED BY ONLY <2>1, <2>2, <3>1
  <2>5. CASE e.kind = "randargs" /\ e.name \notin Names(r.randargs)
    <3>1. PICK s : s = r.randargs
      OBVIOUS
    <3>2. decl'[f] = [requires |-> r.requires, locks |-> r.locks, randargs |-> Append(s, e)]
      BY ONLY <2>1, <2>5, <3>1 DEF Declaring
    <3>3. PICK z : z = Append(s, e)
      OBVIOUS
    <3>4. \A i \in DOMAIN s : s[i].name # e.name
      BY ONLY <2>5, <3>1 DEF Names
    <3>5. /\ z \in Decs /\ DOMAIN s = 1 .. Len(s) /\ Len(s) \in Nat
          /\ DOMAIN z = 1 .. Len(s) + 1
          /\ (\A i \in DOMAIN s : z[i] = s[i]) /\ z[Len(s) + 1] = e
      BY ONLY <2>1, <2>2, <3>1, <3>3
    <3>6. \A i \in DOMAIN z : i \in DOMAIN s \/ i = Len(s) + 1
      BY ONLY <3>5
    <3>7. \A i, j \in DOMAIN z : z[i].name = z[j].name => i = j
      BY ONLY <2>1, <3>1, <3>4, <3>5, <3>6
    <3>8. \A i \in DOMAIN z : z[i].kind = "randargs"
      BY ONLY <2>1, <2>5, <3>1, <3>5, <3>6
    <3> QED BY ONLY <2>1, <3>2, <3>3, <3>5, <3>7, <3>8
  <2>6. CASE e.kind = "randargs" /\ e.name \in Names(r.randargs)
    <3>1. PICK s : s = r.randargs
      OBVIOUS
    <3>2. PICK z : z = [i \in DOMAIN s |-> IF s[i].name = e.name THEN e ELSE s[i]]
      OBVIOUS
    <3>3. decl'[f] = [requires |-> r.requires, locks |-> r.locks, randargs |-> z]
      BY ONLY <2>1, <2>6, <3>1, <3>2 DEF Declaring
    <3>4. DOMAIN z = DOMAIN s /\ \A i \in DOMAIN s : z[i].name = s[i].name
      BY ONLY <3>2
    <3>5. z \in Decs
      <4>1. s \in Seq(Range(Decorators[f])) /\ e \in Range(Decorators[f])
        BY ONLY <1>5, <1>7, <2>1, <3>1 DEF Decs
      <4>2. Len(s) \in Nat /\ DOMAIN s = 1 .. Len(s) /\ \A i \in DOMAIN s : s[i] \in Range(Decorators[f])
        BY ONLY <4>1, LenProperties, ElementOfSeq
      <4>3. z = [i \in 1 .. Len(s) |-> z[i]] /\ \A i \in 1 .. Len(s) : z[i] \in Range(Decorators[f])
        BY ONLY <3>2, <4>1, <4>2
      <4> QED BY ONLY <4>2, <4>3 DEF Decs
    <3>6. \A i, j \in DOMAIN z : z[i].name = z[j].name => i = j
      BY ONLY <2>1, <3>1, <3>4
    <3>7. \A i \in DOMAIN z : z[i].kind = "randargs"
      BY ONLY <2>1, <2>6, <3>1, <3>2
    <3> QED BY ONLY <2>1, <3>3, <3>5, <3>6, <3>7
  <2> QED BY ONLY <1>8, <2>0, <2>3, <2>4, <2>5, <2>6
<1>11. DeclType'
  <2>1. ASSUME NEW g \in Fn
        PROVE  LET decs == Seq(Range(Decorators[g]))
               IN  /\ decl'[g] \in [requires : decs, locks : decs, randargs : decs]
                   /\ undecorated'[g] \in decs
                   /\ \A i, j \in DOMAIN decl'[g].randargs :
                         decl'[g].randargs[i].name = decl'[g].randargs[j].name => i = j
                   /\ \A i \in DOMAIN decl'[g].randargs : decl'[g].randargs[i].kind = "randargs"
    <3>1. CASE g = f
      BY ONLY <1>6, <1>10, <3>1 DEF Decs
    <3>2. CASE g # f
      <4>1. decl'[g] = decl[g] /\ undecorated'[g] = undecorated[g]
        BY ONLY <1>6, <1>9, <2>1, <3>2
      <4> QED BY ONLY <1>1, <2>1, <4>1 DEF DeclType
    <3> QED BY ONLY <3>1, <3>2
  <2> QED BY ONLY <1>6, <1>9, <2>1 DEF DeclType
<1> QED BY ONLY <1>3, <1>4, <1>11

\* A call that is made, and nothing else.
LEMMA CallStep ==
    ASSUME LaunchInv, NEW f \in Fn, NEW kwds \in Kwds[f], Call(f, kwds)
    PROVE  /\ LaunchInv' /\ decl' = decl /\ tasks' = tasks
           /\ Len(calls) \in Nat
           /\ DOMAIN calls = 1 .. Len(calls) /\ DOMAIN calls' = 1 .. Len(calls) + 1
           /\ \A c \in DOMAIN calls : calls'[c] = calls[c]
           /\ calls'[Len(calls) + 1].kwds = calls'[Len(calls) + 1].given
           /\ calls'[Len(calls) + 1].given = kwds
<1>1. DeclType /\ CallType /\ TaskType /\ OrderInv
  BY DEF LaunchInv
<1>2. /\ Declared /\ calls' = Append(calls, [fn |-> f, kwds |-> kwds, given |-> kwds])
      /\ decl' = decl /\ undecorated' = undecorated /\ tasks' = tasks
  BY DEF Call
<1>3. PICK e : e = [fn |-> f, kwds |-> kwds, given |-> kwds]
  OBVIOUS
<1>4. /\ IsSeq(calls') /\ Len(calls) \in Nat
      /\ DOMAIN calls = 1 .. Len(calls) /\ DOMAIN calls' = 1 .. Len(calls) + 1
      /\ \A c \in DOMAIN calls : calls'[c] = calls[c]
      /\ calls'[Len(calls) + 1] = e
  BY ONLY <1>1, <1>2, <1>3, AppendAny DEF CallType
<1>5. CallType'
  <2>1. Declared'
    BY ONLY <1>2 DEF Declared
  <2>2. ASSUME NEW c \in DOMAIN calls'
        PROVE  /\ calls'[c] \in [fn : Fn, kwds : {calls'[c].kwds}, given : {calls'[c].given}]
               /\ DOMAIN calls'[c].kwds \subseteq DOMAIN calls'[c].given
               /\ \A k \in DOMAIN calls'[c].kwds : calls'[c].kwds[k] = calls'[c].given[k]
    <3>1. CASE c \in DOMAIN calls
      BY ONLY <1>1, <1>4, <3>1 DEF CallType
    <3>2. CASE c = Len(calls) + 1
      BY ONLY <1>3, <1>4, <3>2, f \in Fn
    <3> QED BY ONLY <1>4, <2>2, <3>1, <3>2
  <2> QED BY ONLY <1>4, <2>1, <2>2 DEF CallType
<1>6. \A c \in DOMAIN calls : c \in DOMAIN calls'
  BY ONLY <1>4
<1>7. TaskType'
  <2> SUFFICES ASSUME NEW t \in DOMAIN tasks
               PROVE  /\ tasks[t] \in [call : DOMAIN calls', state : States, next : Nat \ {0},
                                       args : {tasks[t].args}]
                      /\ tasks[t].next <= Len(Rand(tasks[t].call)') + 1
                      /\ tasks[t].state = "new" => tasks[t].next = 1
    BY <1>1, <1>2 DEF TaskType, Rand
  <2>1. /\ tasks[t] \in [call : DOMAIN calls, state : States, next : Nat \ {0},
                         args : {tasks[t].args}]
        /\ tasks[t].next <= Len(Rand(tasks[t].call)) + 1
        /\ tasks[t].state = "new" => tasks[t].next = 1
    BY <1>1 DEF TaskType
  <2>2. PICK c : c = tasks[t].call
    OBVIOUS
  <2>3. c \in DOMAIN calls /\ calls'[c] = calls[c] /\ c \in DOMAIN calls'
    BY ONLY <1>4, <1>6, <2>1, <2>2
  <2>4. Rand(c)' = Rand(c) /\ Rand(tasks[t].call)' = Rand(c)'
    BY ONLY <1>2, <2>2, <2>3 DEF Rand
  <2> QED BY ONLY <2>1, <2>2, <2>3, <2>4
<1>8. DeclType' /\ OrderInv'
  BY ONLY <1>1, <1>2 DEF DeclType, OrderInv
<1>9. /\ calls'[Len(calls) + 1].kwds = calls'[Len(calls) + 1].given
      /\ calls'[Len(calls) + 1].given = kwds
  BY ONLY <1>3, <1>4
<1> QED BY ONLY <1>2, <1>4, <1>5, <1>7, <1>8, <1>9 DEF LaunchInv

\* A task that is scheduled, and nothing else.
LEMMA ScheduleStep ==
    ASSUME LaunchInv, NEW c \in DOMAIN calls, Schedule(c)
    PROVE  /\ LaunchInv' /\ decl' = decl /\ calls' = calls
           /\ Len(tasks) \in Nat
           /\ DOMAIN tasks = 1 .. Len(tasks) /\ DOMAIN tasks' = 1 .. Len(tasks) + 1
           /\ \A t \in DOMAIN tasks : tasks'[t] = tasks[t]
           /\ tasks'[Len(tasks) + 1].call = c /\ tasks'[Len(tasks) + 1].state = "new"
           /\ tasks'[Len(tasks) + 1].args = <<>>
<1>1. DeclType /\ CallType /\ TaskType /\ OrderInv
  BY DEF LaunchInv
<1>2. /\ tasks' = Append(tasks, [call |-> c, state |-> "new", next |-> 1, args |-> <<>>])
      /\ decl' = decl /\ undecorated' = undecorated /\ calls' = calls
  BY DEF Schedule
<1>3. PICK e : e = [call |-> c, state |-> "new", next |-> 1, args |-> <<>>]
  OBVIOUS
<1>4. /\ IsSeq(tasks') /\ Len(tasks) \in Nat
      /\ DOMAIN tasks = 1 .. Len(tasks) /\ DOMAIN tasks' = 1 .. Len(tasks) + 1
      /\ \A t \in DOMAIN tasks : tasks'[t] = tasks[t]
      /\ tasks'[Len(tasks) + 1] = e
  BY ONLY <1>1, <1>2, <1>3, AppendAny DEF TaskType
<1>5. DeclType' /\ CallType'
  BY ONLY <1>1, <1>2 DEF DeclType, CallType, Declared
<1>6. Len(Rand(c)) \in Nat
  <2>1. calls[c].fn \in Fn
    BY ONLY <1>1, c \in DOMAIN calls DEF CallType
  <2>2. Rand(c) \in Seq(Range(Decorators[calls[c].fn]))
    BY ONLY <1>1, <2>1 DEF DeclType, Rand
  <2> QED BY ONLY <2>2, LenProperties
<1>7. TaskType'
  <2>1. ASSUME NEW t \in DOMAIN tasks'
        PROVE  /\ tasks'[t] \in [call : DOMAIN calls, state : States, next : Nat \ {0},
                                 args : {tasks'[t].args}]
               /\ tasks'[t].next <= Len(Rand(tasks'[t].call)) + 1
               /\ tasks'[t].state = "new" => tasks'[t].next = 1
    <3>1. CASE t \in DOMAIN tasks
      BY ONLY <1>1, <1>4, <3>1 DEF TaskType
    <3>2. CASE t = Len(tasks) + 1
      <4>1. tasks'[t] = e /\ e.call = c /\ e.next = 1
        BY ONLY <1>3, <1>4, <3>2
      <4>2. e \in [call : DOMAIN calls, state : States, next : Nat \ {0}, args : {e.args}]
        BY ONLY <1>3, c \in DOMAIN calls DEF States
      <4> QED BY ONLY <1>6, <4>1, <4>2
    <3> QED BY ONLY <1>4, <2>1, <3>1, <3>2
  <2>2. ASSUME NEW t PROVE Rand(tasks[t].call)' = Rand(tasks'[t].call)
    BY ONLY <1>2 DEF Rand
  <2> QED BY ONLY <1>2, <1>4, <2>1, <2>2 DEF TaskType
<1>8. OrderInv'
  <2> SUFFICES ASSUME NEW t \in DOMAIN tasks', NEW u \in DOMAIN tasks', u < t,
                      tasks'[t].state # "new"
               PROVE  tasks'[u].state \in {"running", "failed"}
    BY DEF OrderInv
  <2>1. t \in DOMAIN tasks
    BY ONLY <1>3, <1>4, t \in DOMAIN tasks', tasks'[t].state # "new"
  <2>2. u \in DOMAIN tasks
    BY ONLY <1>4, <2>1, u \in DOMAIN tasks', u < t
  <2> QED BY ONLY <1>1, <1>4, <2>1, <2>2, u < t, tasks'[t].state # "new" DEF OrderInv
<1>9. /\ tasks'[Len(tasks) + 1].call = c /\ tasks'[Len(tasks) + 1].state = "new"
      /\ tasks'[Len(tasks) + 1].args = <<>>
  BY ONLY <1>3, <1>4
<1> QED BY ONLY <1>2, <1>4, <1>5, <1>7, <1>8, <1>9 DEF LaunchInv

-----------------------------------------------------------------------------
(* The steps of a task *)

\* Task t takes a step, in which the keywords gone leave its call.
TaskStep(t, gone) ==
    /\ decl' = decl /\ undecorated' = undecorated
    /\ IsSeq(calls') /\ DOMAIN calls' = DOMAIN calls
    /\ \A c \in DOMAIN calls \ {tasks[t].call} : calls'[c] = calls[c]
    /\ \A c \in {tasks[t].call} :
          /\ calls'[c] \in [fn : {calls[c].fn}, kwds : {calls'[c].kwds}, given : {calls[c].given}]
          /\ DOMAIN calls'[c].kwds = DOMAIN calls[c].kwds \ gone
          /\ \A k \in DOMAIN calls'[c].kwds : calls'[c].kwds[k] = calls[c].kwds[k]
    /\ IsSeq(tasks') /\ DOMAIN tasks' = DOMAIN tasks
    /\ \A u \in DOMAIN tasks \ {t} : tasks'[u] = tasks[u]
    /\ tasks'[t] \in [call : {tasks[t].call}, state : States \ {"new"}, next : Nat \ {0},
                      args : {tasks'[t].args}]

\* The order of the tasks: those before t are over, those after it are new.
Turn(t) ==
    /\ \A u \in DOMAIN tasks : u < t => tasks[u].state \in {"running", "failed"}
    /\ \A u \in DOMAIN tasks : t < u => tasks[u].state = "new"

\* What the steps of a task have in common keeps the invariant.
LEMMA TaskStepInv ==
    ASSUME LaunchInv, NEW t \in DOMAIN tasks, NEW gone, TaskStep(t, gone), Turn(t),
           tasks'[t].next <= Len(Rand(tasks[t].call)) + 1
    PROVE  LaunchInv'
<1>1. DeclType /\ CallType /\ TaskType /\ OrderInv
  BY DEF LaunchInv
<1>2. PICK c : c = tasks[t].call
  OBVIOUS
<1>3. c \in DOMAIN calls /\ t \in Nat /\ DOMAIN tasks \subseteq Nat
  <2>1. DOMAIN tasks = 1 .. Len(tasks) /\ Len(tasks) \in Nat
    BY ONLY <1>1, LenProperties DEF TaskType, IsSeq
  <2> QED BY ONLY <1>1, <1>2, <2>1, t \in DOMAIN tasks DEF TaskType
<1>4. /\ decl' = decl /\ undecorated' = undecorated
      /\ IsSeq(calls') /\ DOMAIN calls' = DOMAIN calls
      /\ \A b \in DOMAIN calls \ {c} : calls'[b] = calls[b]
      /\ calls'[c] \in [fn : {calls[c].fn}, kwds : {calls'[c].kwds}, given : {calls[c].given}]
      /\ DOMAIN calls'[c].kwds = DOMAIN calls[c].kwds \ gone
      /\ \A k \in DOMAIN calls'[c].kwds : calls'[c].kwds[k] = calls[c].kwds[k]
      /\ IsSeq(tasks') /\ DOMAIN tasks' = DOMAIN tasks
      /\ \A u \in DOMAIN tasks \ {t} : tasks'[u] = tasks[u]
      /\ tasks'[t] \in [call : {c}, state : States \ {"new"}, next : Nat \ {0},
                        args : {tasks'[t].args}]
  BY ONLY TaskStep(t, gone), <1>2 DEF TaskStep
<1>5. DeclType'
  BY ONLY <1>1, <1>4 DEF DeclType
<1>6. CallType'
  <2>1. calls' # <<>> => Declared'
    <3>1. Declared' <=> Declared
      BY ONLY <1>4 DEF Declared
    <3>2. calls # <<>>
      BY ONLY <1>3, EmptySeq
    <3> QED BY ONLY <1>1, <3>1, <3>2 DEF CallType
  <2>2. ASSUME NEW b \in DOMAIN calls
        PROVE  /\ calls'[b] \in [fn : Fn, kwds : {calls'[b].kwds}, given : {calls'[b].given}]
               /\ DOMAIN calls'[b].kwds \subseteq DOMAIN calls'[b].given
               /\ \A k \in DOMAIN calls'[b].kwds : calls'[b].kwds[k] = calls'[b].given[k]
    <3>1. /\ calls[b] \in [fn : Fn, kwds : {calls[b].kwds}, given : {calls[b].given}]
          /\ DOMAIN calls[b].kwds \subseteq DOMAIN calls[b].given
          /\ \A k \in DOMAIN calls[b].kwds : calls[b].kwds[k] = calls[b].given[k]
      BY ONLY <1>1, <2>2 DEF CallType
    <3>2. CASE b = c
      <4>1. calls[b].fn \in Fn /\ calls'[b].fn = calls[b].fn /\ calls'[b].given = calls[b].given
        BY ONLY <1>4, <3>1, <3>2
      <4>2. calls'[b] \in [fn : Fn, kwds : {calls'[b].kwds}, given : {calls'[b].given}]
        BY ONLY <1>4, <3>2, <4>1
      <4> QED BY ONLY <1>4, <3>1, <3>2, <4>1, <4>2
    <3>3. CASE b # c
      <4>1. calls'[b] = calls[b]
        BY ONLY <1>4, <2>2, <3>3
      <4> QED BY ONLY <3>1, <4>1
    <3> QED BY ONLY <3>2, <3>3
  <2> QED BY ONLY <1>4, <2>1, <2>2 DEF CallType
<1>7. ASSUME NEW b \in DOMAIN calls PROVE Rand(b)' = Rand(b)
  <2>1. calls'[b].fn = calls[b].fn
    BY ONLY <1>4, <1>7
  <2> QED BY ONLY <1>4, <2>1 DEF Rand
<1>8. TaskType'
  <2>1. ASSUME NEW u \in DOMAIN tasks
        PROVE  /\ tasks'[u] \in [call : DOMAIN calls, state : States, next : Nat \ {0},
                                 args : {tasks'[u].args}]
               /\ tasks'[u].next <= Len(Rand(tasks'[u].call)) + 1
               /\ tasks'[u].state = "new" => tasks'[u].next = 1
    <3>1. CASE u = t
      <4>1. tasks'[t].call = c /\ tasks'[t].next <= Len(Rand(c)) + 1
        BY ONLY <1>2, <1>4, tasks'[t].next <= Len(Rand(tasks[t].call)) + 1
      <4>2. /\ tasks'[t] \in [call : DOMAIN calls, state : States, next : Nat \ {0},
                              args : {tasks'[t].args}]
            /\ tasks'[t].state # "new"
        BY ONLY <1>3, <1>4
      <4> QED BY ONLY <3>1, <4>1, <4>2
    <3>2. CASE u # t
      <4>1. tasks'[u] = tasks[u]
        BY ONLY <1>4, <2>1, <3>2
      <4> QED BY ONLY <1>1, <2>1, <4>1 DEF TaskType
    <3> QED BY ONLY <3>1, <3>2
  <2>2. ASSUME NEW u \in DOMAIN tasks PROVE Len(Rand(tasks[u].call)') = Len(Rand(tasks'[u].call))
    <3>1. PICK b : b = tasks'[u].call
      OBVIOUS
    <3>2. b \in DOMAIN calls
      BY ONLY <2>1, <2>2, <3>1
    <3>3. Rand(tasks[u].call)' = Rand(b)'
      BY ONLY <3>1 DEF Rand
    <3> QED BY ONLY <1>7, <3>1, <3>2, <3>3
  <2> QED BY ONLY <1>4, <2>1, <2>2 DEF TaskType
<1>9. OrderInv'
  <2>1. ASSUME NEW v \in DOMAIN tasks, NEW u \in DOMAIN tasks, u < v, tasks'[v].state # "new"
        PROVE  tasks'[u].state \in {"running", "failed"}
    <3>1. CASE v = t
      <4>1. u # t /\ u < t
        BY ONLY <1>3, <2>1, <3>1
      <4> QED BY ONLY Turn(t), <1>4, <2>1, <4>1 DEF Turn
    <3>2. CASE v # t
      <4>1. tasks[v].state # "new"
        BY ONLY <1>4, <2>1, <3>2
      <4>2. tasks[u].state \in {"running", "failed"}
        BY ONLY <1>1, <2>1, <4>1 DEF OrderInv
      <4>3. ~ (t < v)
        BY ONLY Turn(t), <2>1, <4>1 DEF Turn
      <4>4. u # t
        BY ONLY <2>1, <4>3
      <4> QED BY ONLY <1>4, <2>1, <4>2, <4>4
    <3> QED BY ONLY <3>1, <3>2
  <2> QED BY ONLY <1>4, <2>1 DEF OrderInv
<1> QED BY ONLY <1>5, <1>6, <1>8, <1>9 DEF LaunchInv

\* The turn of a task that picks its arguments, or may begin to.
LEMMA TurnOf ==
    ASSUME LaunchInv, NEW t \in DOMAIN tasks,
           \/ tasks[t].state = "picking"
           \/ /\ tasks[t].state = "new" /\ ~Picking
              /\ \A u \in 1 .. t - 1 : tasks[u].state # "new"
    PROVE  Turn(t)
<1>1. OrderInv /\ TaskType
  BY DEF LaunchInv
<1>2. DOMAIN tasks = 1 .. Len(tasks) /\ Len(tasks) \in Nat
  BY ONLY <1>1, LenProperties DEF TaskType, IsSeq
<1>3. ASSUME NEW u \in DOMAIN tasks, u < t PROVE tasks[u].state \in {"running", "failed"}
  <2>1. CASE tasks[t].state = "picking"
    BY ONLY <1>1, <1>3, <2>1, t \in DOMAIN tasks DEF OrderInv
  <2>2. CASE ~Picking /\ \A v \in 1 .. t - 1 : tasks[v].state # "new"
    <3>1. u \in 1 .. t - 1
      BY ONLY <1>2, <1>3, t \in DOMAIN tasks
    <3>2. tasks[u].state \in States
      BY ONLY <1>1, <1>3 DEF TaskType
    <3> QED BY ONLY <1>3, <2>2, <3>1, <3>2 DEF Picking, States
  <2> QED BY <2>1, <2>2
<1>4. ASSUME NEW u \in DOMAIN tasks, t < u PROVE tasks[u].state = "new"
  <2>1. tasks[t].state \notin {"running", "failed"}
    OBVIOUS
  <2> QED BY ONLY <1>1, <1>4, <2>1, t \in DOMAIN tasks DEF OrderInv
<1> QED BY ONLY <1>3, <1>4 DEF Turn

\* What leaves the keywords of a call.
LEMMA ForgetCalls ==
    ASSUME LaunchInv, NEW t \in DOMAIN tasks, NEW gone,
           \/ Forget(t, gone)
           \/ calls' = calls /\ gone = {}
    PROVE  /\ IsSeq(calls') /\ DOMAIN calls' = DOMAIN calls
           /\ \A c \in DOMAIN calls \ {tasks[t].call} : calls'[c] = calls[c]
           /\ \A c \in {tasks[t].call} :
                 /\ calls'[c] \in [fn : {calls[c].fn}, kwds : {calls'[c].kwds},
                                   given : {calls[c].given}]
                 /\ DOMAIN calls'[c].kwds = DOMAIN calls[c].kwds \ gone
                 /\ \A k \in DOMAIN calls'[c].kwds : calls'[c].kwds[k] = calls[c].kwds[k]
<1>1. CallType /\ TaskType
  BY DEF LaunchInv
<1>2. PICK c : c = tasks[t].call
  OBVIOUS
<1>3. c \in DOMAIN calls
  BY ONLY <1>1, <1>2, t \in DOMAIN tasks DEF TaskType
<1>4. PICK old : old = calls[c]
  OBVIOUS
<1>5. old \in [fn : Fn, kwds : {old.kwds}, given : {old.given}] /\ IsSeq(calls)
  BY ONLY <1>1, <1>3, <1>4 DEF CallType
<1>6. CASE Forget(t, gone)
  <2>1. PICK x : x = Without(old.kwds, gone)
    OBVIOUS
  <2>2. PICK e : e = [fn |-> old.fn, kwds |-> x, given |-> old.given]
    OBVIOUS
  <2>3. calls' = [calls EXCEPT ![c] = e]
    <3>1. calls' = [calls EXCEPT ![c].kwds = Without(@, gone)]
      BY ONLY <1>2, <1>6 DEF Forget
    <3>2. calls' = [calls EXCEPT ![c] = [calls[c] EXCEPT !.kwds = Without(calls[c].kwds, gone)]]
      BY ONLY <3>1
    <3>3. [calls[c] EXCEPT !.kwds = Without(calls[c].kwds, gone)] = [old EXCEPT !.kwds = x]
      BY ONLY <1>4, <2>1
    <3>4. [old EXCEPT !.kwds = x] = e
      BY ONLY <1>5, <2>2
    <3> QED BY ONLY <3>2, <3>3, <3>4
  <2>4. /\ IsSeq(calls') /\ DOMAIN calls' = DOMAIN calls
        /\ \A b \in DOMAIN calls \ {c} : calls'[b] = calls[b]
        /\ calls'[c] = e
    BY ONLY <1>3, <1>5, <2>3, ExceptAny
  <2>5. DOMAIN x = DOMAIN old.kwds \ gone /\ \A k \in DOMAIN x : x[k] = old.kwds[k]
    BY ONLY <2>1 DEF Without, Restrict
  <2>6. e.kwds = x /\ e \in [fn : {old.fn}, kwds : {e.kwds}, given : {old.given}]
    BY ONLY <2>2
  <2> QED BY ONLY <1>2, <1>4, <2>4, <2>5, <2>6
<1>7. CASE calls' = calls /\ gone = {}
  <2>1. old \in [fn : {old.fn}, kwds : {old.kwds}, given : {old.given}]
    BY ONLY <1>5
  <2> QED BY ONLY <1>2, <1>4, <1>5, <1>7, <2>1
<1> QED BY <1>6, <1>7

\* What changes in the list of tasks.
LEMMA ChangeTasks ==
    ASSUME LaunchInv, NEW t \in DOMAIN tasks, NEW st \in States \ {"new"},
           NEW nx \in Nat \ {0}, NEW ar,
           tasks' = [tasks EXCEPT ![t] =
                       [call |-> tasks[t].call, state |-> st, next |-> nx, args |-> ar]]
    PROVE  /\ IsSeq(tasks') /\ DOMAIN tasks' = DOMAIN tasks
           /\ \A u \in DOMAIN tasks \ {t} : tasks'[u] = tasks[u]
           /\ tasks'[t] \in [call : {tasks[t].call}, state : States \ {"new"},
                             next : Nat \ {0}, args : {tasks'[t].args}]
           /\ tasks'[t].state = st /\ tasks'[t].next = nx /\ tasks'[t].args = ar
<1>1. PICK e : e = [call |-> tasks[t].call, state |-> st, next |-> nx, args |-> ar]
  OBVIOUS
<1>2. IsSeq(tasks)
  BY DEF LaunchInv, TaskType
<1>3. /\ IsSeq(tasks') /\ DOMAIN tasks' = DOMAIN tasks
      /\ \A u \in DOMAIN tasks \ {t} : tasks'[u] = tasks[u]
      /\ tasks'[t] = e
  <2>1. tasks' = [tasks EXCEPT ![t] = e]
    BY ONLY <1>1, tasks' = [tasks EXCEPT ![t] =
                       [call |-> tasks[t].call, state |-> st, next |-> nx, args |-> ar]]
  <2> QED BY ONLY <1>2, <2>1, t \in DOMAIN tasks, ExceptAny
<1>4. /\ e \in [call : {tasks[t].call}, state : States \ {"new"}, next : Nat \ {0}, args : {e.args}]
      /\ e.state = st /\ e.next = nx /\ e.args = ar
  BY ONLY <1>1, st \in States \ {"new"}, nx \in Nat \ {0}
<1> QED BY ONLY <1>3, <1>4

\* The first step: the keywords that name requirements go, up to the first
\* that is missing or names a component of another type.
LEMMA TakeStep ==
    ASSUME LaunchInv, NEW t \in DOMAIN tasks, TakeComponents(t)
    PROVE  LET c == tasks[t].call IN
           /\ Turn(t) /\ tasks[t].state = "new"
           /\ tasks'[t].next = 1 /\ tasks[t].next = 1 /\ tasks'[t].args = tasks[t].args
           /\ \E gone \in SUBSET Names(Req(c)) :
                /\ TaskStep(t, gone)
                /\ Req(c) # <<>> => Req(c)[1].name \in gone
                /\ \/ /\ tasks'[t].state = "picking" /\ gone = Names(Req(c))
                      /\ \A i \in DOMAIN Req(c) : Req(c)[i].name \in DOMAIN calls[c].kwds
                   \/ /\ tasks'[t].state = "failed"
                      /\ \E i \in DOMAIN Req(c) :
                            \/ Req(c)[i].name \notin DOMAIN calls[c].kwds
                            \/ CompType[calls[c].kwds[Req(c)[i].name]] # Req(c)[i].type
<1> DEFINE c == tasks[t].call  req == Req(c)  kwds == calls[c].kwds
           missing == {i \in DOMAIN req : req[i].name \notin DOMAIN kwds}
           wrong == {i \in DOMAIN req \ missing : CompType[kwds[req[i].name]] # req[i].type}
           numbers == {Len(req) + 1} \cup missing \cup wrong
           bad == Min(numbers)
           gone == {req[i].name : i \in DOMAIN req \cap (1 .. bad)}
<1>1. DeclType /\ CallType /\ TaskType
  BY DEF LaunchInv
<1>2. /\ c \in DOMAIN calls /\ tasks[t].state = "new" /\ tasks[t].next = 1
      /\ tasks[t] = [call |-> c, state |-> "new", next |-> 1, args |-> tasks[t].args]
  <2>1. tasks[t].state = "new"
    BY ONLY TakeComponents(t) DEF TakeComponents
  <2>2. /\ tasks[t] \in [call : DOMAIN calls, state : States, next : Nat \ {0},
                         args : {tasks[t].args}]
        /\ tasks[t].next = 1
    BY ONLY <1>1, <2>1, t \in DOMAIN tasks DEF TaskType
  <2> QED BY ONLY <2>1, <2>2
<1>3. Turn(t)
  <2>1. ~Picking /\ \A u \in 1 .. t - 1 : tasks[u].state # "new"
    BY ONLY TakeComponents(t) DEF TakeComponents
  <2> QED BY ONLY LaunchInv, <1>2, <2>1, t \in DOMAIN tasks, TurnOf
<1>4. /\ Forget(t, gone)
      /\ IF bad <= Len(req) THEN Fail(t) ELSE tasks' = [tasks EXCEPT ![t].state = "picking"]
      /\ decl' = decl /\ undecorated' = undecorated
  BY ONLY TakeComponents(t) DEF TakeComponents, Req, FnOf, KwdsOf
<1>5. Len(req) \in Nat /\ DOMAIN req = 1 .. Len(req) /\ (req # <<>> => 1 \in DOMAIN req)
  <2>1. calls[c].fn \in Fn
    BY ONLY <1>1, <1>2 DEF CallType
  <2>2. req \in Seq(Range(Decorators[calls[c].fn]))
    BY ONLY <1>1, <2>1 DEF DeclType, Req
  <2> HIDE DEF req
  <2>3. Len(req) \in Nat /\ DOMAIN req = 1 .. Len(req)
    BY ONLY <2>2, LenProperties
  <2>4. req # <<>> => Len(req) # 0
    BY ONLY <2>2, EmptySeq
  <2> QED BY ONLY <2>3, <2>4
<1>6. missing \subseteq DOMAIN req /\ wrong \subseteq DOMAIN req
  OBVIOUS
<1>7. /\ \A i \in missing : req[i].name \notin DOMAIN kwds
      /\ \A i \in wrong : CompType[kwds[req[i].name]] # req[i].type
      /\ \A i \in DOMAIN req : i \notin missing => req[i].name \in DOMAIN kwds
  OBVIOUS
<1>8. numbers = {Len(req) + 1} \cup missing \cup wrong
  OBVIOUS
<1> HIDE DEF missing, wrong, numbers, req, kwds
<1>9. bad \in numbers /\ (\A i \in numbers : bad <= i) /\ bad \in Nat /\ 1 <= bad
  <2>1. \A i \in numbers : i \in Nat /\ 1 <= i
    BY ONLY <1>5, <1>6, <1>8
  <2>2. numbers \subseteq Nat /\ numbers # {}
    BY ONLY <1>8, <2>1
  <2>3. bad \in numbers /\ \A i \in numbers : bad <= i
    BY ONLY <2>2, LeastOf
  <2> QED BY ONLY <2>1, <2>3
<1>10. gone \in SUBSET Names(req)
  BY ONLY TRUE DEF Names
<1>11. req # <<>> => req[1].name \in gone
  <2>1. ASSUME req # <<>> PROVE 1 \in DOMAIN req \cap (1 .. bad)
    <3> HIDE DEF bad
    <3> QED BY ONLY <1>5, <1>9, <2>1
  <2> QED BY ONLY <2>1
<1> DEFINE st == IF bad <= Len(req) THEN "failed" ELSE "picking"
<1>12. tasks' = [tasks EXCEPT ![t] = [call |-> tasks[t].call, state |-> st, next |-> 1,
                                      args |-> tasks[t].args]]
  <2>1. tasks' = [tasks EXCEPT ![t].state = st]
    BY ONLY <1>4 DEF Fail
  <2>2. PICK x : x = st
    OBVIOUS
  <2>3. [tasks[t] EXCEPT !.state = x] =
          [call |-> c, state |-> x, next |-> 1, args |-> tasks[t].args]
    BY ONLY <1>2
  <2>4. tasks' = [tasks EXCEPT ![t] = [tasks[t] EXCEPT !.state = x]]
    BY ONLY <2>1, <2>2
  <2> QED BY ONLY <2>2, <2>3, <2>4
<1>13. st \in States \ {"new"}
  BY ONLY TRUE DEF States
<1> HIDE DEF st
<1>14. /\ IsSeq(tasks') /\ DOMAIN tasks' = DOMAIN tasks
       /\ \A u \in DOMAIN tasks \ {t} : tasks'[u] = tasks[u]
       /\ tasks'[t] \in [call : {tasks[t].call}, state : States \ {"new"},
                         next : Nat \ {0}, args : {tasks'[t].args}]
       /\ tasks'[t].state = st /\ tasks'[t].next = 1 /\ tasks'[t].args = tasks[t].args
  <2>1. 1 \in Nat \ {0}
    OBVIOUS
  <2> QED BY ONLY LaunchInv, <1>12, <1>13, <2>1, t \in DOMAIN tasks, ChangeTasks
<1> HIDE DEF gone
<1>15. TaskStep(t, gone)
  <2>1. /\ IsSeq(calls') /\ DOMAIN calls' = DOMAIN calls
        /\ \A b \in DOMAIN calls \ {tasks[t].call} : calls'[b] = calls[b]
        /\ \A b \in {tasks[t].call} :
              /\ calls'[b] \in [fn : {calls[b].fn}, kwds : {calls'[b].kwds},
                                given : {calls[b].given}]
              /\ DOMAIN calls'[b].kwds = DOMAIN calls[b].kwds \ gone
              /\ \A k \in DOMAIN calls'[b].kwds : calls'[b].kwds[k] = calls[b].kwds[k]
    BY ONLY LaunchInv, <1>4, t \in DOMAIN tasks, ForgetCalls
  <2> QED BY ONLY <1>4, <1>14, <2>1 DEF TaskStep
<1>16. CASE bad <= Len(req)
  <2>1. tasks'[t].state = "failed"
    BY ONLY <1>14, <1>16 DEF st
  <2>2. bad \in missing \cup wrong
    <3> HIDE DEF bad
    <3> QED BY ONLY <1>5, <1>8, <1>9, <1>16
  <2>3. \E i \in DOMAIN req : \/ req[i].name \notin DOMAIN kwds
                              \/ CompType[kwds[req[i].name]] # req[i].type
    BY ONLY <1>6, <1>7, <2>2
  <2> QED BY ONLY <1>2, <1>3, <1>10, <1>11, <1>14, <1>15, <2>1, <2>3 DEF req, kwds
<1>17. CASE ~ (bad <= Len(req))
  <2>1. tasks'[t].state = "picking"
    BY ONLY <1>14, <1>17 DEF st
  <2>2. ASSUME NEW i \in DOMAIN req PROVE i \notin missing /\ i \in 1 .. bad
    <3> HIDE DEF bad
    <3>1. i <= Len(req) /\ i \in Nat /\ 1 <= i
      BY ONLY <1>5, <2>2
    <3>2. i \in missing => bad <= i
      BY ONLY <1>8, <1>9
    <3> QED BY ONLY <1>5, <1>9, <1>17, <3>1, <3>2
  <2>3. gone = Names(req)
    BY ONLY <2>2 DEF gone, Names
  <2>4. \A i \in DOMAIN req : req[i].name \in DOMAIN kwds
    BY ONLY <1>7, <2>2
  <2> QED BY ONLY <1>2, <1>3, <1>10, <1>11, <1>14, <1>15, <2>1, <2>3, <2>4 DEF req, kwds
<1> QED BY ONLY <1>16, <1>17

\* The values a random argument has overrides for.
Overrides(c, i) == VarNames(Rand(c)[i].name) \cap DOMAIN calls[c].kwds
Values(c, i) == Candidates(Rand(c)[i], Overrides(c, i), calls[c].kwds)

\* The next step: a random argument is drawn and its override goes, or there
\* are too many overrides or no values, and the task fails.
LEMMA PickStep ==
    ASSUME LaunchInv, NEW t \in DOMAIN tasks, PickArgument(t)
    PROVE  LET c == tasks[t].call
               i == tasks[t].next
           IN  /\ Turn(t) /\ tasks[t].state = "picking" /\ i \in DOMAIN Rand(c)
               /\ \/ /\ TaskStep(t, {}) /\ tasks'[t].state = "failed"
                     /\ Cardinality(Overrides(c, i)) > 1 \/ Values(c, i) = {}
                  \/ /\ TaskStep(t, Overrides(c, i)) /\ tasks'[t].state = "picking"
                     /\ ~ (Cardinality(Overrides(c, i)) > 1)
                     /\ tasks'[t].next = i + 1
                     /\ \E v \in Values(c, i) :
                           tasks'[t].args = Over([k \in {Rand(c)[i].name} |-> v], tasks[t].args)
               /\ tasks'[t].next <= Len(Rand(c)) + 1
<1> DEFINE c == tasks[t].call  i == tasks[t].next  ov == Overrides(c, i)  vs == Values(c, i)
           stuck == Cardinality(ov) > 1 \/ vs = {}
<1>1. DeclType /\ CallType /\ TaskType
  BY DEF LaunchInv
<1>2. /\ tasks[t].state = "picking" /\ i \in DOMAIN Rand(c)
      /\ IF stuck
         THEN Fail(t) /\ UNCHANGED calls
         ELSE /\ \E v \in vs : tasks' =
                   [tasks EXCEPT ![t].next = @ + 1, ![t].args = Over([k \in {Rand(c)[i].name} |-> v], @)]
              /\ Forget(t, ov)
      /\ decl' = decl /\ undecorated' = undecorated
  BY ONLY PickArgument(t) DEF PickArgument, Rand, FnOf, KwdsOf, Overrides, Values, Used
<1>3. Turn(t)
  BY ONLY LaunchInv, <1>2, t \in DOMAIN tasks, TurnOf
<1>4. /\ i \in Nat \ {0} /\ i <= Len(Rand(c)) + 1
      /\ tasks[t] = [call |-> c, state |-> "picking", next |-> i, args |-> tasks[t].args]
      /\ c \in DOMAIN calls
  <2>1. /\ tasks[t] \in [call : DOMAIN calls, state : States, next : Nat \ {0},
                         args : {tasks[t].args}]
        /\ tasks[t].next <= Len(Rand(tasks[t].call)) + 1
    BY ONLY <1>1, t \in DOMAIN tasks DEF TaskType
  <2> QED BY ONLY <1>2, <2>1
<1>5. i + 1 <= Len(Rand(c)) + 1 /\ Len(Rand(c)) \in Nat
  <2>1. calls[c].fn \in Fn
    BY ONLY <1>1, <1>4 DEF CallType
  <2>2. Rand(c) \in Seq(Range(Decorators[calls[c].fn]))
    BY ONLY <1>1, <2>1 DEF DeclType, Rand
  <2>3. Len(Rand(c)) \in Nat /\ DOMAIN Rand(c) = 1 .. Len(Rand(c))
    BY ONLY <2>2, LenProperties
  <2>4. i \in DOMAIN Rand(c)
    BY ONLY <1>2
  <2>5. i <= Len(Rand(c))
    BY ONLY <2>3, <2>4
  <2> QED BY ONLY <1>4, <2>3, <2>5
<1> HIDE DEF ov, vs
<1>6. ASSUME stuck
      PROVE  /\ TaskStep(t, {}) /\ tasks'[t].state = "failed"
             /\ tasks'[t].next <= Len(Rand(c)) + 1
  <2>1. tasks' = [tasks EXCEPT ![t] = [call |-> c, state |-> "failed", next |-> i,
                                       args |-> tasks[t].args]]
    <3>1. tasks' = [tasks EXCEPT ![t].state = "failed"]
      BY ONLY <1>2, <1>6 DEF Fail
    <3>2. [tasks[t] EXCEPT !.state = "failed"] =
            [call |-> c, state |-> "failed", next |-> i, args |-> tasks[t].args]
      BY ONLY <1>4
    <3>3. tasks' = [tasks EXCEPT ![t] = [tasks[t] EXCEPT !.state = "failed"]]
      BY ONLY <3>1
    <3> QED BY ONLY <3>2, <3>3
  <2>2. "failed" \in States \ {"new"}
    BY DEF States
  <2>3. /\ IsSeq(tasks') /\ DOMAIN tasks' = DOMAIN tasks
        /\ \A u \in DOMAIN tasks \ {t} : tasks'[u] = tasks[u]
        /\ tasks'[t] \in [call : {tasks[t].call}, state : States \ {"new"},
                          next : Nat \ {0}, args : {tasks'[t].args}]
        /\ tasks'[t].state = "failed" /\ tasks'[t].next = i
    BY ONLY LaunchInv, <1>4, <2>1, <2>2, t \in DOMAIN tasks, ChangeTasks
  <2>4. calls' = calls
    BY ONLY <1>2, <1>6
  <2>5. TaskStep(t, {})
    <3>1. PICK none : none = {}
      OBVIOUS
    <3>2. /\ IsSeq(calls') /\ DOMAIN calls' = DOMAIN calls
          /\ \A b \in DOMAIN calls \ {tasks[t].call} : calls'[b] = calls[b]
          /\ \A b \in {tasks[t].call} :
                /\ calls'[b] \in [fn : {calls[b].fn}, kwds : {calls'[b].kwds},
                                  given : {calls[b].given}]
                /\ DOMAIN calls'[b].kwds = DOMAIN calls[b].kwds \ none
                /\ \A k \in DOMAIN calls'[b].kwds : calls'[b].kwds[k] = calls[b].kwds[k]
      BY ONLY LaunchInv, <2>4, <3>1, t \in DOMAIN tasks, ForgetCalls
    <3> QED BY ONLY <1>2, <2>3, <3>1, <3>2 DEF TaskStep
  <2> QED BY ONLY <1>4, <2>3, <2>5
<1>7. ASSUME ~stuck
      PROVE  /\ TaskStep(t, ov) /\ tasks'[t].state = "picking"
             /\ tasks'[t].next = i + 1
             /\ \E v \in vs : tasks'[t].args = Over([k \in {Rand(c)[i].name} |-> v], tasks[t].args)
  <2>1. PICK v \in vs : tasks' =
          [tasks EXCEPT ![t].next = @ + 1, ![t].args = Over([k \in {Rand(c)[i].name} |-> v], @)]
    BY ONLY <1>2, <1>7
  <2>2. PICK ar : ar = Over([k \in {Rand(c)[i].name} |-> v], tasks[t].args)
    OBVIOUS
  <2>3. tasks' = [tasks EXCEPT ![t] = [call |-> c, state |-> "picking", next |-> i + 1,
                                       args |-> ar]]
    <3>1. PICK old : old = tasks[t]
      OBVIOUS
    <3>2. tasks' = [tasks EXCEPT ![t] =
             [old EXCEPT !.next = old.next + 1, !.args = Over([k \in {Rand(c)[i].name} |-> v], old.args)]]
      <4>1. IsSeq(tasks)
        BY ONLY <1>1 DEF TaskType
      <4> QED BY ONLY <2>1, <3>1, <4>1, t \in DOMAIN tasks
    <3>3. PICK nx : nx = i + 1
      OBVIOUS
    <3>4. old = [call |-> c, state |-> "picking", next |-> i, args |-> old.args] /\ old.next = i
      BY ONLY <1>4, <3>1
    <3>5. [old EXCEPT !.next = nx, !.args = ar] =
            [call |-> c, state |-> "picking", next |-> nx, args |-> ar]
      <4>1. PICK cc, ii, ar0 : cc = c /\ ii = i /\ ar0 = old.args
        OBVIOUS
      <4>2. old = [call |-> cc, state |-> "picking", next |-> ii, args |-> ar0]
        BY ONLY <3>4, <4>1
      <4>3. PICK half : half = [old EXCEPT !.next = nx]
        OBVIOUS
      <4>4. half = [call |-> cc, state |-> "picking", next |-> nx, args |-> ar0]
        BY ONLY <4>2, <4>3
      <4>5. [half EXCEPT !.args = ar] =
              [call |-> cc, state |-> "picking", next |-> nx, args |-> ar]
        BY ONLY <4>4
      <4>6. [old EXCEPT !.next = nx, !.args = ar] = [[old EXCEPT !.next = nx] EXCEPT !.args = ar]
        BY ONLY <4>2
      <4> QED BY ONLY <4>1, <4>3, <4>5, <4>6
    <3>6. tasks' = [tasks EXCEPT ![t] = [old EXCEPT !.next = nx, !.args = ar]]
      BY ONLY <2>2, <3>1, <3>2, <3>3, <3>4
    <3> QED BY ONLY <3>3, <3>5, <3>6
  <2>4. "picking" \in States \ {"new"} /\ i + 1 \in Nat \ {0}
    BY ONLY <1>4 DEF States
  <2>5. PICK nx : nx = i + 1
    OBVIOUS
  <2>6. /\ IsSeq(tasks') /\ DOMAIN tasks' = DOMAIN tasks
        /\ \A u \in DOMAIN tasks \ {t} : tasks'[u] = tasks[u]
        /\ tasks'[t] \in [call : {tasks[t].call}, state : States \ {"new"},
                          next : Nat \ {0}, args : {tasks'[t].args}]
        /\ tasks'[t].state = "picking" /\ tasks'[t].next = nx /\ tasks'[t].args = ar
    BY ONLY LaunchInv, <2>3, <2>4, <2>5, t \in DOMAIN tasks, ChangeTasks
  <2>7. TaskStep(t, ov)
    <3>1. /\ IsSeq(calls') /\ DOMAIN calls' = DOMAIN calls
          /\ \A b \in DOMAIN calls \ {tasks[t].call} : calls'[b] = calls[b]
          /\ \A b \in {tasks[t].call} :
                /\ calls'[b] \in [fn : {calls[b].fn}, kwds : {calls'[b].kwds},
                                  given : {calls[b].given}]
                /\ DOMAIN calls'[b].kwds = DOMAIN calls[b].kwds \ ov
                /\ \A k \in DOMAIN calls'[b].kwds : calls'[b].kwds[k] = calls[b].kwds[k]
      BY ONLY LaunchInv, <1>2, <1>7, t \in DOMAIN tasks, ForgetCalls
    <3> QED BY ONLY <1>2, <2>6, <3>1 DEF TaskStep
  <2> QED BY ONLY <2>2, <2>5, <2>6, <2>7
<1>8. CASE stuck
  BY ONLY <1>2, <1>3, <1>6, <1>8 DEF ov, vs
<1>9. CASE ~stuck
  BY ONLY <1>2, <1>3, <1>5, <1>7, <1>9 DEF ov, vs
<1> QED BY ONLY <1>8, <1>9

Fixed(c) == Names(decl[calls[c].fn].requires) \cup Names(decl[calls[c].fn].locks)
Accepted(c) == (Names(Rand(c)) \cup Plain[calls[c].fn]) \ Fixed(c)

\* The last step: the function is called with the keywords that are left and
\* the arguments picked, if it accepts them.
LEMMA LaunchStep ==
    ASSUME LaunchInv, NEW t \in DOMAIN tasks, Launch(t)
    PROVE  LET c == tasks[t].call
               args == Over(calls[c].kwds, tasks[t].args)
           IN  /\ Turn(t) /\ tasks[t].state = "picking"
               /\ tasks[t].next = Len(Rand(c)) + 1 /\ DOMAIN Rand(c) = 1 .. Len(Rand(c))
               /\ TaskStep(t, {}) /\ calls' = calls /\ tasks'[t].next = tasks[t].next
               /\ \/ /\ tasks'[t].state = "running" /\ tasks'[t].args = args
                     /\ DOMAIN args \subseteq Accepted(c)
                  \/ /\ tasks'[t].state = "failed"
                     /\ ~ (DOMAIN args \subseteq Accepted(c))
<1> DEFINE c == tasks[t].call  i == tasks[t].next  args == Over(calls[c].kwds, tasks[t].args)
           fits == DOMAIN args \subseteq Accepted(c)
<1>1. DeclType /\ CallType /\ TaskType
  BY DEF LaunchInv
<1>2. /\ tasks[t].state = "picking" /\ i \notin DOMAIN Rand(c)
      /\ IF fits THEN tasks' = [tasks EXCEPT ![t].state = "running", ![t].args = args]
         ELSE Fail(t)
      /\ decl' = decl /\ undecorated' = undecorated /\ calls' = calls
  BY ONLY Launch(t) DEF Launch, Rand, FnOf, KwdsOf, Accepted, Fixed
<1>3. Turn(t)
  BY ONLY LaunchInv, <1>2, t \in DOMAIN tasks, TurnOf
<1>4. /\ i \in Nat \ {0} /\ i <= Len(Rand(c)) + 1
      /\ tasks[t] = [call |-> c, state |-> "picking", next |-> i, args |-> tasks[t].args]
      /\ c \in DOMAIN calls
  <2>1. /\ tasks[t] \in [call : DOMAIN calls, state : States, next : Nat \ {0},
                         args : {tasks[t].args}]
        /\ tasks[t].next <= Len(Rand(tasks[t].call)) + 1
    BY ONLY <1>1, t \in DOMAIN tasks DEF TaskType
  <2> QED BY ONLY <1>2, <2>1
<1>5. i = Len(Rand(c)) + 1 /\ DOMAIN Rand(c) = 1 .. Len(Rand(c))
  <2>1. calls[c].fn \in Fn
    BY ONLY <1>1, <1>4 DEF CallType
  <2>2. Rand(c) \in Seq(Range(Decorators[calls[c].fn]))
    BY ONLY <1>1, <2>1 DEF DeclType, Rand
  <2>3. Len(Rand(c)) \in Nat /\ DOMAIN Rand(c) = 1 .. Len(Rand(c))
    BY ONLY <2>2, LenProperties
  <2> QED BY ONLY <1>2, <1>4, <2>3
<1> DEFINE st == IF fits THEN "running" ELSE "failed"
           ar == IF fits THEN args ELSE tasks[t].args
<1>6. tasks' = [tasks EXCEPT ![t] = [call |-> c, state |-> st, next |-> i, args |-> ar]]
  <2>1. PICK old : old = tasks[t]
    OBVIOUS
  <2>2. PICK a : a = args
    OBVIOUS
  <2>3. old = [call |-> c, state |-> "picking", next |-> i, args |-> old.args]
    BY ONLY <1>4, <2>1
  <2>4. CASE fits
    <3>1. tasks' = [tasks EXCEPT ![t].state = "running", ![t].args = a]
      BY ONLY <1>2, <2>2, <2>4
    <3>2. IsSeq(tasks)
      BY ONLY <1>1 DEF TaskType
    <3>3. tasks' = [tasks EXCEPT ![t] = [old EXCEPT !.state = "running", !.args = a]]
      BY ONLY <2>1, <3>1, <3>2, t \in DOMAIN tasks
    <3>4. [old EXCEPT !.state = "running", !.args = a] =
            [call |-> c, state |-> "running", next |-> i, args |-> a]
      <4>1. PICK cc, ii, ar0 : cc = c /\ ii = i /\ ar0 = old.args
        OBVIOUS
      <4>2. old = [call |-> cc, state |-> "picking", next |-> ii, args |-> ar0]
        BY ONLY <2>3, <4>1
      <4>3. PICK half : half = [old EXCEPT !.state = "running"]
        OBVIOUS
      <4>4. half = [call |-> cc, state |-> "running", next |-> ii, args |-> ar0]
        BY ONLY <4>2, <4>3
      <4>5. [half EXCEPT !.args = a] =
              [call |-> cc, state |-> "running", next |-> ii, args |-> a]
        BY ONLY <4>4
      <4>6. [old EXCEPT !.state = "running", !.args = a] = [[old EXCEPT !.state = "running"] EXCEPT !.args = a]
        BY ONLY <4>2
      <4> QED BY ONLY <4>1, <4>3, <4>5, <4>6
    <3> QED BY ONLY <2>2, <2>4, <3>3, <3>4
  <2>5. CASE ~fits
    <3>1. tasks' = [tasks EXCEPT ![t].state = "failed"]
      BY ONLY <1>2, <2>5 DEF Fail
    <3>2. [old EXCEPT !.state = "failed"] =
            [call |-> c, state |-> "failed", next |-> i, args |-> old.args]
      BY ONLY <2>3
    <3>3. tasks' = [tasks EXCEPT ![t] = [old EXCEPT !.state = "failed"]]
      BY ONLY <2>1, <3>1
    <3> QED BY ONLY <2>1, <2>5, <3>2, <3>3
  <2> QED BY ONLY <2>4, <2>5
<1>7. st \in States \ {"new"}
  BY ONLY TRUE DEF States
<1>8. PICK x : x = ar
  OBVIOUS
<1>9. PICK s : s = st
  OBVIOUS
<1>10. /\ IsSeq(tasks') /\ DOMAIN tasks' = DOMAIN tasks
       /\ \A u \in DOMAIN tasks \ {t} : tasks'[u] = tasks[u]
       /\ tasks'[t] \in [call : {tasks[t].call}, state : States \ {"new"},
                         next : Nat \ {0}, args : {tasks'[t].args}]
       /\ tasks'[t].state = s /\ tasks'[t].next = i /\ tasks'[t].args = x
  <2>1. tasks' = [tasks EXCEPT ![t] = [call |-> tasks[t].call, state |-> s, next |-> i, args |-> x]]
    BY ONLY <1>6, <1>8, <1>9
  <2>2. s \in States \ {"new"}
    BY ONLY <1>7, <1>9
  <2> QED BY ONLY LaunchInv, <1>4, <2>1, <2>2, t \in DOMAIN tasks, ChangeTasks
<1>11. TaskStep(t, {})
  <2>1. PICK none : none = {}
    OBVIOUS
  <2>2. /\ IsSeq(calls') /\ DOMAIN calls' = DOMAIN calls
        /\ \A b \in DOMAIN calls \ {tasks[t].call} : calls'[b] = calls[b]
        /\ \A b \in {tasks[t].call} :
              /\ calls'[b] \in [fn : {calls[b].fn}, kwds : {calls'[b].kwds},
                                given : {calls[b].given}]
              /\ DOMAIN calls'[b].kwds = DOMAIN calls[b].kwds \ none
              /\ \A k \in DOMAIN calls'[b].kwds : calls'[b].kwds[k] = calls[b].kwds[k]
    BY ONLY LaunchInv, <1>2, <2>1, t \in DOMAIN tasks, ForgetCalls
  <2> QED BY ONLY <1>2, <1>10, <2>1, <2>2 DEF TaskStep
<1>12. CASE fits
  BY ONLY <1>2, <1>3, <1>5, <1>8, <1>9, <1>10, <1>11, <1>12
<1>13. CASE ~fits
  BY ONLY <1>2, <1>3, <1>5, <1>8, <1>9, <1>10, <1>11, <1>13
<1> QED BY ONLY <1>12, <1>13

-----------------------------------------------------------------------------
(* Any step *)

DeclOf(c) == decl[calls[c].fn]

\* A step of no task: what is there stays, and what is new is untouched.
Quiet ==
    /\ DOMAIN calls # {} => decl' = decl
    /\ \A c \in DOMAIN calls : c \in DOMAIN calls' /\ calls'[c] = calls[c]
    /\ \A c \in DOMAIN calls' \ DOMAIN calls : DOMAIN calls'[c].kwds = DOMAIN calls'[c].given
    /\ \A t \in DOMAIN tasks : t \in DOMAIN tasks' /\ tasks'[t] = tasks[t]
    /\ \A t \in DOMAIN tasks' \ DOMAIN tasks :
          tasks'[t].state = "new" /\ tasks'[t].args = <<>>

LEMMA NextLaunch ==
    ASSUME LaunchInv, [LaunchNext]_launchVars
    PROVE  /\ LaunchInv'
           /\ \/ Quiet
              \/ \E t \in DOMAIN tasks : TakeComponents(t) \/ PickArgument(t) \/ Launch(t)
<1>1. CASE UNCHANGED launchVars
  <2>1. decl' = decl /\ undecorated' = undecorated /\ calls' = calls /\ tasks' = tasks
    BY <1>1 DEF launchVars
  <2>2. LaunchInv'
    BY ONLY LaunchInv, <2>1
       DEF LaunchInv, DeclType, CallType, TaskType, OrderInv, Declared, Rand
  <2> QED BY ONLY <2>1, <2>2 DEF Quiet
<1>2. ASSUME NEW f \in Fn, Decorate(f) PROVE LaunchInv' /\ Quiet
  <2>1. DeclType' /\ calls = <<>> /\ calls' = calls /\ tasks = <<>> /\ tasks' = tasks
    BY ONLY LaunchInv, <1>2, DecorateType
  <2>2. DOMAIN calls = {} /\ DOMAIN tasks = {}
    BY ONLY <2>1, EmptySeq
  <2>3. CallType' /\ TaskType' /\ OrderInv'
    BY ONLY LaunchInv, <2>1, <2>2 DEF LaunchInv, CallType, TaskType, OrderInv
  <2> QED BY ONLY <2>1, <2>2, <2>3 DEF LaunchInv, Quiet
<1>3. ASSUME NEW f \in Fn, NEW kwds \in Kwds[f], Call(f, kwds) PROVE LaunchInv' /\ Quiet
  <2>1. /\ LaunchInv' /\ decl' = decl /\ tasks' = tasks
        /\ Len(calls) \in Nat
        /\ DOMAIN calls = 1 .. Len(calls) /\ DOMAIN calls' = 1 .. Len(calls) + 1
        /\ \A c \in DOMAIN calls : calls'[c] = calls[c]
        /\ calls'[Len(calls) + 1].kwds = calls'[Len(calls) + 1].given
    BY ONLY LaunchInv, <1>3, CallStep
  <2>2. /\ \A c \in DOMAIN calls : c \in DOMAIN calls'
        /\ \A c \in DOMAIN calls' \ DOMAIN calls : c = Len(calls) + 1
    BY ONLY <2>1
  <2> QED BY ONLY <2>1, <2>2 DEF Quiet
<1>4. ASSUME NEW c \in DOMAIN calls, Schedule(c) PROVE LaunchInv' /\ Quiet
  <2>1. /\ LaunchInv' /\ decl' = decl /\ calls' = calls
        /\ Len(tasks) \in Nat
        /\ DOMAIN tasks = 1 .. Len(tasks) /\ DOMAIN tasks' = 1 .. Len(tasks) + 1
        /\ \A t \in DOMAIN tasks : tasks'[t] = tasks[t]
        /\ tasks'[Len(tasks) + 1].state = "new" /\ tasks'[Len(tasks) + 1].args = <<>>
    BY ONLY LaunchInv, <1>4, ScheduleStep
  <2>2. /\ \A t \in DOMAIN tasks : t \in DOMAIN tasks'
        /\ \A t \in DOMAIN tasks' \ DOMAIN tasks : t = Len(tasks) + 1
    BY ONLY <2>1
  <2> QED BY ONLY <2>1, <2>2 DEF Quiet
<1>5. ASSUME NEW t \in DOMAIN tasks, TakeComponents(t) PROVE LaunchInv'
  <2>1. PICK gone : TaskStep(t, gone)
    BY ONLY LaunchInv, <1>5, TakeStep
  <2>2. Turn(t) /\ tasks'[t].next = 1 /\ tasks[t].next = 1
    BY ONLY LaunchInv, <1>5, TakeStep
  <2>3. tasks[t].next <= Len(Rand(tasks[t].call)) + 1
    BY ONLY LaunchInv, <1>5 DEF LaunchInv, TaskType
  <2> QED BY ONLY LaunchInv, <1>5, <2>1, <2>2, <2>3, TaskStepInv
<1>6. ASSUME NEW t \in DOMAIN tasks, PickArgument(t) PROVE LaunchInv'
  <2>1. /\ Turn(t) /\ tasks'[t].next <= Len(Rand(tasks[t].call)) + 1
        /\ TaskStep(t, {}) \/ TaskStep(t, Overrides(tasks[t].call, tasks[t].next))
    BY ONLY LaunchInv, <1>6, PickStep
  <2>2. PICK gone : TaskStep(t, gone)
    BY ONLY <2>1
  <2> QED BY ONLY LaunchInv, <1>6, <2>1, <2>2, TaskStepInv
<1>7. ASSUME NEW t \in DOMAIN tasks, Launch(t) PROVE LaunchInv'
  <2>1. Turn(t) /\ TaskStep(t, {}) /\ tasks'[t].next = tasks[t].next
    BY ONLY LaunchInv, <1>7, LaunchStep
  <2>2. PICK gone : TaskStep(t, gone)
    BY ONLY <2>1
  <2>3. tasks[t].next <= Len(Rand(tasks[t].call)) + 1
    BY ONLY LaunchInv, <1>7 DEF LaunchInv, TaskType
  <2> QED BY ONLY LaunchInv, <1>7, <2>1, <2>2, <2>3, TaskStepInv
<1> QED BY ONLY [LaunchNext]_launchVars, <1>1, <1>2, <1>3, <1>4, <1>5, <1>6, <1>7 DEF LaunchNext

\* Whatever step a task takes, it takes it in its turn.
LEMMA TurnStep ==
    ASSUME LaunchInv, NEW t \in DOMAIN tasks, TakeComponents(t) \/ PickArgument(t) \/ Launch(t)
    PROVE  Turn(t) /\ \E gone : TaskStep(t, gone)
<1>1. CASE TakeComponents(t)
  BY ONLY LaunchInv, <1>1, t \in DOMAIN tasks, TakeStep
<1>2. CASE PickArgument(t)
  <2>1. /\ Turn(t)
        /\ TaskStep(t, {}) \/ TaskStep(t, Overrides(tasks[t].call, tasks[t].next))
    BY ONLY LaunchInv, <1>2, t \in DOMAIN tasks, PickStep
  <2> QED BY ONLY <2>1
<1>3. CASE Launch(t)
  <2>1. Turn(t) /\ TaskStep(t, {})
    BY ONLY LaunchInv, <1>3, t \in DOMAIN tasks, LaunchStep
  <2> QED BY ONLY <2>1
<1> QED BY <1>1, <1>2, <1>3

\* What a step leaves of the tasks and calls that it does not work on.
LEMMA Frame ==
    ASSUME LaunchInv, NEW t \in DOMAIN tasks, NEW gone, TaskStep(t, gone),
           NEW u \in DOMAIN tasks
    PROVE  /\ u \in DOMAIN tasks' /\ tasks'[u].call = tasks[u].call
           /\ First(u)' = First(u) /\ (u # t => tasks'[u] = tasks[u])
           /\ tasks[u].call \in DOMAIN calls
           /\ DeclOf(tasks[u].call)' = DeclOf(tasks[u].call)
<1>1. TaskType
  BY DEF LaunchInv
<1>2. DOMAIN tasks = 1 .. Len(tasks) /\ Len(tasks) \in Nat
  BY ONLY <1>1, LenProperties DEF TaskType, IsSeq
<1>3. \A v \in DOMAIN tasks :
          v \in DOMAIN tasks' /\ tasks'[v].call = tasks[v].call /\ tasks[v].call \in DOMAIN calls
  <2>1. ASSUME NEW v \in DOMAIN tasks PROVE tasks'[v].call = tasks[v].call
    BY ONLY TaskStep(t, gone), t \in DOMAIN tasks, <2>1 DEF TaskStep
  <2> QED BY ONLY <1>1, <2>1, TaskStep(t, gone) DEF TaskType, TaskStep
<1>4. First(u)' = First(u)
  <2>1. \A v \in 1 .. u - 1 : v \in DOMAIN tasks
    BY ONLY <1>2, u \in DOMAIN tasks
  <2>2. First(u)' <=> First(u)
    BY ONLY <1>3, <2>1, u \in DOMAIN tasks DEF First
  <2>3. First(u) \in BOOLEAN /\ First(u)' \in BOOLEAN
    BY ONLY TRUE DEF First
  <2> QED BY ONLY <2>2, <2>3, Zenon
<1>5. PICK b : b = tasks[u].call
  OBVIOUS
<1>6. DeclOf(b)' = DeclOf(b)
  <2>1. decl' = decl /\ calls'[b].fn = calls[b].fn
    BY ONLY TaskStep(t, gone), <1>3, <1>5, u \in DOMAIN tasks, t \in DOMAIN tasks DEF TaskStep
  <2> QED BY ONLY <2>1 DEF DeclOf
<1>7. DeclOf(tasks[u].call)' = DeclOf(b)'
  BY ONLY <1>3, <1>5, u \in DOMAIN tasks DEF DeclOf
<1>8. u # t => tasks'[u] = tasks[u]
  BY ONLY TaskStep(t, gone), u \in DOMAIN tasks DEF TaskStep
<1> QED BY ONLY <1>3, <1>4, <1>5, <1>6, <1>7, <1>8, u \in DOMAIN tasks

LEMMA QuietFrame ==
    ASSUME LaunchInv, LaunchInv', Quiet, NEW u \in DOMAIN tasks'
    PROVE  \/ u \notin DOMAIN tasks /\ tasks'[u].state = "new" /\ tasks'[u].args = <<>>
           \/ /\ u \in DOMAIN tasks /\ tasks'[u] = tasks[u] /\ First(u)' = First(u)
              /\ tasks[u].call \in DOMAIN calls
              /\ calls'[tasks[u].call] = calls[tasks[u].call]
              /\ DeclOf(tasks[u].call)' = DeclOf(tasks[u].call)
<1>1. CASE u \notin DOMAIN tasks
  BY ONLY Quiet, <1>1, u \in DOMAIN tasks' DEF Quiet
<1>2. CASE u \in DOMAIN tasks
  <2>1. TaskType
    BY DEF LaunchInv
  <2>2. DOMAIN tasks = 1 .. Len(tasks) /\ Len(tasks) \in Nat
    BY ONLY <2>1, LenProperties DEF TaskType, IsSeq
  <2>3. /\ \A v \in DOMAIN tasks : tasks'[v] = tasks[v]
        /\ \A v \in DOMAIN tasks : tasks[v].call \in DOMAIN calls
    BY ONLY <2>1, Quiet DEF Quiet, TaskType
  <2>4. First(u)' = First(u)
    <3>1. \A v \in 1 .. u - 1 : v \in DOMAIN tasks
      BY ONLY <2>2, <1>2
    <3>2. First(u)' <=> First(u)
      BY ONLY <1>2, <2>3, <3>1 DEF First
    <3>3. First(u) \in BOOLEAN /\ First(u)' \in BOOLEAN
      BY ONLY TRUE DEF First
    <3> QED BY ONLY <3>2, <3>3, Zenon
  <2>5. PICK b : b = tasks[u].call
    OBVIOUS
  <2>6. b \in DOMAIN calls /\ decl' = decl /\ calls'[b] = calls[b]
    BY ONLY <1>2, <2>3, <2>5, Quiet DEF Quiet
  <2>7. DeclOf(b)' = DeclOf(b) /\ DeclOf(tasks[u].call)' = DeclOf(b)'
    BY ONLY <1>2, <2>3, <2>5, <2>6 DEF DeclOf
  <2> QED BY ONLY <1>2, <2>3, <2>4, <2>5, <2>6, <2>7
<1> QED BY ONLY <1>1, <1>2

-----------------------------------------------------------------------------
(* What the first task of a call has taken from its keywords *)

Seen(rand, n) == UNION {VarNames(rand[i].name) : i \in {j \in DOMAIN rand : j < n}}
Picked(rand, n) == {rand[i].name : i \in {j \in DOMAIN rand : j < n}}

\* The keywords of a call are the given ones until one of its tasks starts.
FreshInv ==
    \A c \in DOMAIN calls : DOMAIN calls[c].kwds # DOMAIN calls[c].given =>
        \E t \in DOMAIN tasks : tasks[t].call = c /\ tasks[t].state # "new"

\* A task that picks has the arguments up to the next one, and its call has
\* lost the requirements and what was used for those arguments.
KeepsInv ==
    \A t \in DOMAIN tasks :
        /\ tasks[t].state = "new" => tasks[t].args = <<>>
        /\ tasks[t].state = "picking" =>
              DOMAIN tasks[t].args = Picked(DeclOf(tasks[t].call).randargs, tasks[t].next)
        /\ First(t) /\ tasks[t].state = "picking" =>
              DOMAIN KwdsOf(t) =
                  DOMAIN calls[tasks[t].call].given
                    \ (Names(DeclOf(tasks[t].call).requires)
                        \cup Seen(DeclOf(tasks[t].call).randargs, tasks[t].next))

LEMMA SeenNext ==
    ASSUME NEW S, NEW rand \in Seq(S)
    PROVE  /\ Seen(rand, 1) = {} /\ Picked(rand, 1) = {}
           /\ Picked(rand, Len(rand) + 1) = Names(rand)
           /\ Seen(rand, Len(rand) + 1) = UNION {VarNames(x) : x \in Names(rand)}
           /\ \A i \in DOMAIN rand :
                 /\ Seen(rand, i + 1) = Seen(rand, i) \cup VarNames(rand[i].name)
                 /\ Picked(rand, i + 1) = Picked(rand, i) \cup {rand[i].name}
<1>1. DOMAIN rand = 1 .. Len(rand) /\ Len(rand) \in Nat
  BY LenProperties
<1>2. {j \in DOMAIN rand : j < 1} = {} /\ {j \in DOMAIN rand : j < Len(rand) + 1} = DOMAIN rand
  BY ONLY <1>1
<1>3. ASSUME NEW i \in DOMAIN rand
      PROVE  {j \in DOMAIN rand : j < i + 1} = {j \in DOMAIN rand : j < i} \cup {i}
  BY ONLY <1>1, <1>3
<1>4. /\ Seen(rand, 1) = {} /\ Picked(rand, 1) = {}
      /\ Picked(rand, Len(rand) + 1) = Names(rand)
  BY ONLY <1>2 DEF Seen, Picked, Names
<1>5. Seen(rand, Len(rand) + 1) = UNION {VarNames(x) : x \in Names(rand)}
  BY ONLY <1>2 DEF Seen, Names
<1>6. ASSUME NEW i \in DOMAIN rand
      PROVE  /\ Seen(rand, i + 1) = Seen(rand, i) \cup VarNames(rand[i].name)
             /\ Picked(rand, i + 1) = Picked(rand, i) \cup {rand[i].name}
  <2>1. PICK A : A = {j \in DOMAIN rand : j < i}
    OBVIOUS
  <2>2. PICK B : B = {j \in DOMAIN rand : j < i + 1}
    OBVIOUS
  <2>3. B = A \cup {i}
    BY ONLY <1>3, <1>6, <2>1, <2>2
  <2>4. UNION {VarNames(rand[j].name) : j \in B} =
          (UNION {VarNames(rand[j].name) : j \in A}) \cup VarNames(rand[i].name)
    BY ONLY <2>3
  <2>5. {rand[j].name : j \in B} = {rand[j].name : j \in A} \cup {rand[i].name}
    BY ONLY <2>3
  <2> QED BY ONLY <2>1, <2>2, <2>4, <2>5 DEF Seen, Picked
<1> QED BY ONLY <1>4, <1>5, <1>6

\* An argument that is added to others.
Adds(more, x, v, args) == more = Over([k \in {x} |-> v], args)

LEMMA AddArgument ==
    ASSUME NEW x, NEW v, NEW args, NEW more, Adds(more, x, v, args)
    PROVE  /\ DOMAIN more = DOMAIN args \cup {x} /\ more[x] = v
           /\ \A y \in DOMAIN args : y # x => more[y] = args[y]
BY DEF Adds, Over

\* The random arguments of a call that was made are a sequence.
LEMMA RandSeq ==
    ASSUME LaunchInv, NEW t \in DOMAIN tasks
    PROVE  /\ tasks[t].call \in DOMAIN calls /\ calls[tasks[t].call].fn \in Fn
           /\ Rand(tasks[t].call) = DeclOf(tasks[t].call).randargs
           /\ Req(tasks[t].call) = DeclOf(tasks[t].call).requires
           /\ Rand(tasks[t].call) \in Seq(Range(Decorators[calls[tasks[t].call].fn]))
           /\ DOMAIN Rand(tasks[t].call) = 1 .. Len(Rand(tasks[t].call))
           /\ Len(Rand(tasks[t].call)) \in Nat
           /\ \A i, j \in DOMAIN Rand(tasks[t].call) :
                 Rand(tasks[t].call)[i].name = Rand(tasks[t].call)[j].name => i = j
           /\ \A i \in DOMAIN Rand(tasks[t].call) : Rand(tasks[t].call)[i].kind = "randargs"
<1>1. PICK c : c = tasks[t].call
  OBVIOUS
<1>2. c \in DOMAIN calls /\ calls[c].fn \in Fn
  BY ONLY <1>1, LaunchInv, t \in DOMAIN tasks DEF LaunchInv, TaskType, CallType
<1>3. /\ Rand(c) \in Seq(Range(Decorators[calls[c].fn]))
      /\ \A i, j \in DOMAIN Rand(c) : Rand(c)[i].name = Rand(c)[j].name => i = j
      /\ \A i \in DOMAIN Rand(c) : Rand(c)[i].kind = "randargs"
  BY ONLY <1>2, LaunchInv DEF LaunchInv, DeclType, Rand
<1>4. Rand(c) = DeclOf(c).randargs /\ Req(c) = DeclOf(c).requires
  BY ONLY TRUE DEF Rand, Req, DeclOf
<1>5. DOMAIN Rand(c) = 1 .. Len(Rand(c)) /\ Len(Rand(c)) \in Nat
  BY ONLY <1>3, LenProperties
<1> QED BY ONLY <1>1, <1>2, <1>3, <1>4, <1>5

LEMMA FreshStep ==
    ASSUME LaunchInv, FreshInv, [LaunchNext]_launchVars
    PROVE  FreshInv'
<1>1. LaunchInv'
  BY NextLaunch
<1>2. CASE Quiet
  <2> SUFFICES ASSUME NEW c \in DOMAIN calls', DOMAIN calls'[c].kwds # DOMAIN calls'[c].given
               PROVE  \E t \in DOMAIN tasks' : tasks'[t].call = c /\ tasks'[t].state # "new"
    BY DEF FreshInv
  <2>1. c \in DOMAIN calls /\ calls'[c] = calls[c]
    BY ONLY <1>2, c \in DOMAIN calls', DOMAIN calls'[c].kwds # DOMAIN calls'[c].given DEF Quiet
  <2>2. PICK t \in DOMAIN tasks : tasks[t].call = c /\ tasks[t].state # "new"
    BY ONLY <2>1, FreshInv, DOMAIN calls'[c].kwds # DOMAIN calls'[c].given DEF FreshInv
  <2> QED BY ONLY <1>2, <2>2 DEF Quiet
<1>3. ASSUME NEW t \in DOMAIN tasks, NEW gone, TaskStep(t, gone) PROVE FreshInv'
  <2> SUFFICES ASSUME NEW c \in DOMAIN calls', DOMAIN calls'[c].kwds # DOMAIN calls'[c].given
               PROVE  \E u \in DOMAIN tasks' : tasks'[u].call = c /\ tasks'[u].state # "new"
    BY DEF FreshInv
  <2>1. /\ t \in DOMAIN tasks' /\ tasks'[t].call = tasks[t].call
        /\ tasks'[t].state # "new" /\ DOMAIN tasks' = DOMAIN tasks
        /\ \A u \in DOMAIN tasks \ {t} : tasks'[u] = tasks[u]
        /\ \A b \in DOMAIN calls \ {tasks[t].call} : calls'[b] = calls[b]
        /\ c \in DOMAIN calls
    BY ONLY <1>3, c \in DOMAIN calls' DEF TaskStep
  <2>2. CASE c = tasks[t].call
    BY ONLY <2>1, <2>2
  <2>3. CASE c # tasks[t].call
    <3>1. PICK u \in DOMAIN tasks : tasks[u].call = c /\ tasks[u].state # "new"
      BY ONLY <2>1, <2>3, FreshInv, DOMAIN calls'[c].kwds # DOMAIN calls'[c].given DEF FreshInv
    <3>2. u \in DOMAIN tasks' /\ tasks'[u] = tasks[u]
      BY ONLY <2>1, <2>3, <3>1
    <3> QED BY ONLY <3>1, <3>2
  <2> QED BY <2>2, <2>3
<1> QED BY ONLY LaunchInv, [LaunchNext]_launchVars, NextLaunch, TurnStep, <1>2, <1>3

\* The keywords of a call whose first task may begin are those given.
LEMMA FirstIsFresh ==
    ASSUME LaunchInv, FreshInv, NEW t \in DOMAIN tasks, Turn(t), First(t),
           tasks[t].state = "new"
    PROVE  DOMAIN calls[tasks[t].call].kwds = DOMAIN calls[tasks[t].call].given
<1>1. PICK c : c = tasks[t].call
  OBVIOUS
<1>2. DOMAIN tasks = 1 .. Len(tasks) /\ Len(tasks) \in Nat /\ c \in DOMAIN calls
  BY ONLY <1>1, LaunchInv, t \in DOMAIN tasks, LenProperties DEF LaunchInv, TaskType, IsSeq
<1>3. ASSUME NEW u \in DOMAIN tasks, tasks[u].call = c, tasks[u].state # "new"
      PROVE  FALSE
  <2>1. ~ (t < u) /\ u # t
    BY ONLY <1>3, Turn(t), tasks[t].state = "new" DEF Turn
  <2>2. u \in 1 .. t - 1
    BY ONLY <1>2, <2>1, <1>3, t \in DOMAIN tasks
  <2> QED BY ONLY <1>1, <1>3, <2>2, First(t) DEF First
<1> QED BY ONLY <1>1, <1>2, <1>3, FreshInv DEF FreshInv

\* While a task takes its turn, no other one picks.
LEMMA OneTurn ==
    ASSUME LaunchInv, NEW t \in DOMAIN tasks, Turn(t), NEW u \in DOMAIN tasks, u # t
    PROVE  /\ tasks[u].state \in {"new", "running", "failed"}
           /\ tasks[u].state # "new" => u < t
<1>1. DOMAIN tasks = 1 .. Len(tasks) /\ Len(tasks) \in Nat
  BY ONLY LaunchInv, LenProperties DEF LaunchInv, TaskType, IsSeq
<1>2. u < t \/ t < u
  BY ONLY <1>1, t \in DOMAIN tasks, u \in DOMAIN tasks, u # t
<1> QED BY ONLY <1>2, Turn(t), u \in DOMAIN tasks DEF Turn

LEMMA KeepsStep ==
    ASSUME LaunchInv, FreshInv, KeepsInv, [LaunchNext]_launchVars
    PROVE  KeepsInv'
<1>1. LaunchInv' /\ (Quiet \/ \E t \in DOMAIN tasks :
                        TakeComponents(t) \/ PickArgument(t) \/ Launch(t))
  BY ONLY LaunchInv, [LaunchNext]_launchVars, NextLaunch
<1>2. ASSUME NEW u \in DOMAIN tasks
      PROVE  LET x == tasks[u]
                 k == calls[tasks[u].call]
                 d == DeclOf(tasks[u].call)
             IN  /\ x.state = "new" => x.args = <<>>
                 /\ x.state = "picking" => DOMAIN x.args = Picked(d.randargs, x.next)
                 /\ First(u) /\ x.state = "picking" =>
                       DOMAIN k.kwds = DOMAIN k.given
                          \ (Names(d.requires) \cup Seen(d.randargs, x.next))
  BY ONLY KeepsInv, <1>2 DEF KeepsInv, KwdsOf
<1>3. CASE Quiet
  <2>1. ASSUME NEW u \in DOMAIN tasks'
        PROVE  /\ tasks'[u].state = "new" => tasks'[u].args = <<>>
               /\ tasks'[u].state = "picking" =>
                     DOMAIN tasks'[u].args =
                        Picked((DeclOf(tasks[u].call)').randargs, tasks'[u].next)
               /\ First(u)' /\ tasks'[u].state = "picking" =>
                     DOMAIN calls'[tasks'[u].call].kwds =
                        DOMAIN calls'[tasks'[u].call].given
                          \ (Names((DeclOf(tasks[u].call)').requires)
                              \cup Seen((DeclOf(tasks[u].call)').randargs, tasks'[u].next))
    <3>1. CASE u \notin DOMAIN tasks
      BY ONLY LaunchInv, <1>1, <1>3, <2>1, <3>1, QuietFrame
    <3>2. CASE u \in DOMAIN tasks
      <4>1. /\ tasks'[u] = tasks[u] /\ First(u)' = First(u)
            /\ calls'[tasks[u].call] = calls[tasks[u].call]
            /\ DeclOf(tasks[u].call)' = DeclOf(tasks[u].call)
        BY ONLY LaunchInv, <1>1, <1>3, <2>1, <3>2, QuietFrame
      <4> QED BY ONLY <1>2, <3>2, <4>1
    <3> QED BY ONLY <3>1, <3>2
  <2> QED BY ONLY <2>1 DEF KeepsInv, KwdsOf
<1>4. ASSUME NEW t \in DOMAIN tasks, TakeComponents(t) \/ PickArgument(t) \/ Launch(t)
      PROVE  KeepsInv'
  <2> DEFINE c == tasks[t].call  d == DeclOf(c)  i == tasks[t].next
  <2>1. /\ c \in DOMAIN calls /\ calls[c].fn \in Fn
        /\ Rand(c) = d.randargs /\ Req(c) = d.requires
        /\ Rand(c) \in Seq(Range(Decorators[calls[c].fn]))
        /\ DOMAIN Rand(c) = 1 .. Len(Rand(c)) /\ Len(Rand(c)) \in Nat
    BY ONLY LaunchInv, t \in DOMAIN tasks, RandSeq
  <2>2. /\ Seen(d.randargs, 1) = {} /\ Picked(d.randargs, 1) = {}
        /\ \A j \in DOMAIN d.randargs :
              /\ Seen(d.randargs, j + 1) = Seen(d.randargs, j) \cup VarNames(d.randargs[j].name)
              /\ Picked(d.randargs, j + 1) = Picked(d.randargs, j) \cup {d.randargs[j].name}
    BY ONLY <2>1, SeenNext
  \* What is left to show of a step that takes some keywords away.
  <2>3. ASSUME NEW gone, TaskStep(t, gone), Turn(t),
               tasks'[t].state = "picking" =>
                  /\ DOMAIN tasks'[t].args = Picked(d.randargs, tasks'[t].next)
                  /\ First(t) =>
                       DOMAIN calls[c].kwds \ gone = DOMAIN calls[c].given
                          \ (Names(d.requires) \cup Seen(d.randargs, tasks'[t].next))
        PROVE  KeepsInv'
    <3>1. ASSUME NEW u \in DOMAIN tasks'
          PROVE  /\ tasks'[u].state = "new" => tasks'[u].args = <<>>
                 /\ tasks'[u].state = "picking" =>
                       DOMAIN tasks'[u].args =
                          Picked((DeclOf(tasks[u].call)').randargs, tasks'[u].next)
                 /\ First(u)' /\ tasks'[u].state = "picking" =>
                       DOMAIN calls'[tasks'[u].call].kwds =
                          DOMAIN calls'[tasks'[u].call].given
                            \ (Names((DeclOf(tasks[u].call)').requires)
                                \cup Seen((DeclOf(tasks[u].call)').randargs, tasks'[u].next))
      <4>1. u \in DOMAIN tasks
        BY ONLY <2>3, <3>1 DEF TaskStep
      <4>2. /\ tasks'[u].call = tasks[u].call /\ First(u)' = First(u)
            /\ (u # t => tasks'[u] = tasks[u])
            /\ DeclOf(tasks[u].call)' = DeclOf(tasks[u].call)
        BY ONLY LaunchInv, <2>3, <4>1, t \in DOMAIN tasks, Frame
      <4>3. CASE u = t
        <5>1. /\ tasks'[t].state # "new"
              /\ calls'[c].given = calls[c].given
              /\ DOMAIN calls'[c].kwds = DOMAIN calls[c].kwds \ gone
          BY ONLY <2>3 DEF TaskStep
        <5> QED BY ONLY <2>3, <4>2, <4>3, <5>1
      <4>4. CASE u # t
        <5>1. tasks[u].state # "picking"
          BY ONLY LaunchInv, <2>3, <4>1, <4>4, t \in DOMAIN tasks, OneTurn
        <5> QED BY ONLY <1>2, <4>1, <4>2, <4>4, <5>1
      <4> QED BY ONLY <4>3, <4>4
    <3> QED BY ONLY <3>1 DEF KeepsInv, KwdsOf
  <2>4. ASSUME NEW S, NEW A, NEW B, NEW C PROVE (S \ (A \cup B)) \ C = S \ (A \cup (B \cup C))
    OBVIOUS
  <2>5. CASE TakeComponents(t)
    <3>1. /\ Turn(t) /\ tasks[t].state = "new" /\ tasks'[t].next = 1
          /\ tasks'[t].args = tasks[t].args
      BY ONLY LaunchInv, <2>5, t \in DOMAIN tasks, TakeStep
    <3>2. PICK gone : /\ TaskStep(t, gone)
                      /\ tasks'[t].state = "picking" => gone = Names(Req(c))
      <4>1. \E gone \in SUBSET Names(Req(c)) :
                /\ TaskStep(t, gone)
                /\ \/ tasks'[t].state = "picking" /\ gone = Names(Req(c))
                   \/ tasks'[t].state = "failed"
        BY ONLY LaunchInv, <2>5, t \in DOMAIN tasks, TakeStep
      <4> QED BY ONLY <4>1
    <3>3. DOMAIN tasks'[t].args = Picked(d.randargs, 1)
      <4>1. tasks[t].args = <<>>
        BY ONLY <1>2, <3>1, t \in DOMAIN tasks
      <4> QED BY ONLY <2>2, <3>1, <4>1, EmptySeq
    <3>4. First(t) => DOMAIN calls[c].kwds = DOMAIN calls[c].given
      BY ONLY LaunchInv, FreshInv, <3>1, t \in DOMAIN tasks, FirstIsFresh
    <3> QED BY ONLY <2>1, <2>2, <2>3, <3>1, <3>2, <3>3, <3>4
  <2>6. CASE PickArgument(t)
    <3>1. Turn(t) /\ tasks[t].state = "picking" /\ i \in DOMAIN Rand(c)
      BY ONLY LaunchInv, <2>6, t \in DOMAIN tasks, PickStep
    <3>2. \/ TaskStep(t, {}) /\ tasks'[t].state = "failed"
          \/ /\ TaskStep(t, Overrides(c, i)) /\ tasks'[t].next = i + 1
             /\ \E v : Adds(tasks'[t].args, Rand(c)[i].name, v, tasks[t].args)
      <4>1. \/ TaskStep(t, {}) /\ tasks'[t].state = "failed"
            \/ /\ TaskStep(t, Overrides(c, i)) /\ tasks'[t].next = i + 1
               /\ \E v \in Values(c, i) :
                     tasks'[t].args = Over([k \in {Rand(c)[i].name} |-> v], tasks[t].args)
        BY ONLY LaunchInv, <2>6, t \in DOMAIN tasks, PickStep
      <4> QED BY ONLY <4>1 DEF Adds
    <3>3. CASE TaskStep(t, {}) /\ tasks'[t].state = "failed"
      BY ONLY <2>3, <3>1, <3>3
    <3>4. CASE /\ TaskStep(t, Overrides(c, i)) /\ tasks'[t].next = i + 1
               /\ \E v : Adds(tasks'[t].args, Rand(c)[i].name, v, tasks[t].args)
      <4>1. PICK v : Adds(tasks'[t].args, Rand(c)[i].name, v, tasks[t].args)
        BY ONLY <3>4
      <4>2. DOMAIN tasks'[t].args = DOMAIN tasks[t].args \cup {Rand(c)[i].name}
        <5>1. PICK more, x, args :
                more = tasks'[t].args /\ x = Rand(c)[i].name /\ args = tasks[t].args
          OBVIOUS
        <5>2. Adds(more, x, v, args)
          BY ONLY <4>1, <5>1
        <5>3. DOMAIN more = DOMAIN args \cup {x}
          BY ONLY <5>2, AddArgument
        <5> QED BY ONLY <5>1, <5>3
      <4>3. DOMAIN tasks'[t].args = Picked(d.randargs, i + 1)
        BY ONLY <1>2, <2>1, <2>2, <3>1, <4>2, t \in DOMAIN tasks
      <4>4. ASSUME First(t)
            PROVE  DOMAIN calls[c].kwds \ Overrides(c, i) = DOMAIN calls[c].given
                      \ (Names(d.requires) \cup Seen(d.randargs, i + 1))
        <5>1. DOMAIN calls[c].kwds =
                DOMAIN calls[c].given \ (Names(d.requires) \cup Seen(d.randargs, i))
          BY ONLY <1>2, <3>1, <4>4, t \in DOMAIN tasks
        <5>2. Overrides(c, i) = VarNames(d.randargs[i].name) \cap DOMAIN calls[c].kwds
          BY ONLY <2>1 DEF Overrides
        <5>3. DOMAIN calls[c].kwds \ Overrides(c, i) =
                DOMAIN calls[c].kwds \ VarNames(d.randargs[i].name)
          BY ONLY <5>2
        <5>4. Seen(d.randargs, i + 1) = Seen(d.randargs, i) \cup VarNames(d.randargs[i].name)
          BY ONLY <2>1, <2>2, <3>1
        <5> QED BY ONLY <2>4, <5>1, <5>3, <5>4
      <4> QED BY ONLY <2>3, <3>1, <3>4, <4>3, <4>4
    <3> QED BY ONLY <3>2, <3>3, <3>4
  <2>7. CASE Launch(t)
    <3>1. /\ Turn(t) /\ TaskStep(t, {})
          /\ tasks'[t].state = "running" \/ tasks'[t].state = "failed"
      BY ONLY LaunchInv, <2>7, t \in DOMAIN tasks, LaunchStep
    <3> QED BY ONLY <2>3, <3>1
  <2> QED BY ONLY <1>4, <2>5, <2>6, <2>7
<1> QED BY ONLY <1>1, <1>3, <1>4

-----------------------------------------------------------------------------
(* A legal call starts *)

\* The other parameters of a function are not declared by a decorator.
LEMMA PlainApart ==
    ASSUME LaunchInv, NEW c \in DOMAIN calls
    PROVE  /\ Plain[calls[c].fn] \cap (Names(decl[calls[c].fn].requires)
                                        \cup Names(decl[calls[c].fn].locks)) = {}
           /\ Plain[calls[c].fn] \cap Names(decl[calls[c].fn].randargs) = {}
<1>1. PICK f : f = calls[c].fn
  OBVIOUS
<1>2. f \in Fn
  BY ONLY <1>1, LaunchInv, c \in DOMAIN calls DEF LaunchInv, CallType
<1>3. ASSUME NEW list \in Seq(Range(Decorators[f])) PROVE Plain[f] \cap Names(list) = {}
  <2>1. \A i \in DOMAIN list : list[i] \in Range(Decorators[f])
    BY ONLY <1>3, LenProperties, ElementOfSeq
  <2>2. \A d \in Range(Decorators[f]) : d.name \notin Plain[f]
    BY ONLY <1>2, DecoratorsAssumption
  <2> QED BY ONLY <2>1, <2>2 DEF Names
<1>4. /\ decl[f].requires \in Seq(Range(Decorators[f]))
      /\ decl[f].locks \in Seq(Range(Decorators[f]))
      /\ decl[f].randargs \in Seq(Range(Decorators[f]))
  BY ONLY <1>2, LaunchInv DEF LaunchInv, DeclType
<1>5. PICK A, B, C : A = decl[f].requires /\ B = decl[f].locks /\ C = decl[f].randargs
  OBVIOUS
<1>6. /\ Plain[f] \cap Names(A) = {} /\ Plain[f] \cap Names(B) = {}
      /\ Plain[f] \cap Names(C) = {}
  BY ONLY <1>3, <1>4, <1>5
<1> QED BY ONLY <1>1, <1>5, <1>6

LEMMA VarNamesFinite == ASSUME NEW x PROVE IsFiniteSet(VarNames(x))
<1>1. IsFiniteSet({Append(x, "choices")})
  BY ONLY FS_Singleton
<1>2. IsFiniteSet({Append(x, "choices")} \cup {Append(x, "range")})
  BY ONLY <1>1, FS_AddElement
<1>3. IsFiniteSet(({Append(x, "choices")} \cup {Append(x, "range")})
                     \cup {Append(x, "bit_width")})
  BY ONLY <1>2, FS_AddElement
<1>4. IsFiniteSet((({Append(x, "choices")} \cup {Append(x, "range")})
                     \cup {Append(x, "bit_width")}) \cup {x})
  BY ONLY <1>3, FS_AddElement
<1>5. VarNames(x) = (({Append(x, "choices")} \cup {Append(x, "range")})
                       \cup {Append(x, "bit_width")}) \cup {x}
  BY DEF VarNames, Suffix
<1> QED BY ONLY <1>4, <1>5

\* Why the first task of a legal call does not fail.
LEMMA NoFailure ==
    ASSUME LaunchInv, FreshInv, KeepsInv, NEW t \in DOMAIN tasks, First(t),
           Legal(calls[tasks[t].call].fn, calls[tasks[t].call].given),
           TakeComponents(t) \/ PickArgument(t) \/ Launch(t)
    PROVE  tasks'[t].state # "failed"
<1> DEFINE c == tasks[t].call  d == DeclOf(c)  i == tasks[t].next
           kwds == calls[c].kwds  given == calls[c].given
<1>1. /\ c \in DOMAIN calls /\ calls[c].fn \in Fn
      /\ Rand(c) = d.randargs /\ Req(c) = d.requires
      /\ Rand(c) \in Seq(Range(Decorators[calls[c].fn]))
      /\ DOMAIN Rand(c) = 1 .. Len(Rand(c)) /\ Len(Rand(c)) \in Nat
  BY ONLY LaunchInv, t \in DOMAIN tasks, RandSeq
<1>2. /\ DOMAIN kwds \subseteq DOMAIN given
      /\ \A k \in DOMAIN kwds : kwds[k] = given[k]
  BY ONLY LaunchInv, <1>1 DEF LaunchInv, CallType
<1>3. /\ \A j \in DOMAIN d.requires :
            /\ d.requires[j].name \in DOMAIN given
            /\ CompType[given[d.requires[j].name]] = d.requires[j].type
      /\ \A x \in Names(d.randargs) :
            /\ Cardinality(VarNames(x) \cap DOMAIN given) <= 1
            /\ \A k \in VarNames(x) \cap DOMAIN given : Overridden(k, given[k]) # {}
      /\ \A j \in DOMAIN d.randargs : Default(d.randargs[j]) # {}
      /\ DOMAIN given \subseteq Names(d.requires) \cup Plain[calls[c].fn]
                                   \cup UNION {VarNames(x) : x \in Names(d.randargs)}
      /\ Names(d.randargs) \cap (Names(d.requires) \cup Names(d.locks)) = {}
  BY ONLY Legal(calls[tasks[t].call].fn, calls[tasks[t].call].given) DEF Legal, DeclOf
<1>4. /\ tasks[t].state = "picking" => DOMAIN tasks[t].args = Picked(d.randargs, i)
      /\ tasks[t].state = "picking" =>
            DOMAIN kwds = DOMAIN given \ (Names(d.requires) \cup Seen(d.randargs, i))
  BY ONLY KeepsInv, First(t), t \in DOMAIN tasks DEF KeepsInv, KwdsOf
<1>5. CASE TakeComponents(t)
  <2>1. Turn(t) /\ tasks[t].state = "new"
    BY ONLY LaunchInv, <1>5, t \in DOMAIN tasks, TakeStep
  <2>2. DOMAIN kwds = DOMAIN given
    BY ONLY LaunchInv, FreshInv, First(t), <2>1, t \in DOMAIN tasks, FirstIsFresh
  <2>3. \A j \in DOMAIN Req(c) :
            Req(c)[j].name \in DOMAIN kwds /\ CompType[kwds[Req(c)[j].name]] = Req(c)[j].type
    BY ONLY <1>1, <1>2, <1>3, <2>2
  <2>4. \/ tasks'[t].state = "picking"
        \/ \E j \in DOMAIN Req(c) : \/ Req(c)[j].name \notin DOMAIN kwds
                                    \/ CompType[kwds[Req(c)[j].name]] # Req(c)[j].type
    BY ONLY LaunchInv, <1>5, t \in DOMAIN tasks, TakeStep
  <2> QED BY ONLY <2>3, <2>4
<1>6. CASE PickArgument(t)
  <2> DEFINE x == d.randargs[i].name  ov == VarNames(x) \cap DOMAIN kwds
  <2>1. /\ i \in DOMAIN Rand(c)
        /\ \/ Cardinality(Overrides(c, i)) > 1 \/ Values(c, i) = {}
           \/ tasks'[t].state = "picking"
    BY ONLY LaunchInv, <1>6, t \in DOMAIN tasks, PickStep
  <2>2. x \in Names(d.randargs) /\ Default(d.randargs[i]) # {}
    BY ONLY <1>1, <1>3, <2>1 DEF Names
  <2>3. Overrides(c, i) = ov
    BY ONLY <1>1 DEF Overrides
  <2>4. ~ (Cardinality(ov) > 1)
    <3>1. IsFiniteSet(VarNames(x) \cap DOMAIN given)
      <4>1. IsFiniteSet(VarNames(x))
        BY ONLY VarNamesFinite
      <4> QED BY ONLY <4>1, FS_Subset
    <3>2. ov \subseteq VarNames(x) \cap DOMAIN given
      BY ONLY <1>2
    <3>3. Cardinality(VarNames(x) \cap DOMAIN given) <= 1
      BY ONLY <1>3, <2>2
    <3> HIDE DEF ov, x
    <3>4. PICK S : S = VarNames(x) \cap DOMAIN given
      OBVIOUS
    <3>5. /\ Cardinality(ov) <= Cardinality(S)
          /\ Cardinality(ov) \in Nat /\ Cardinality(S) \in Nat
      BY ONLY <3>1, <3>2, <3>4, FS_Subset, FS_CardinalityType
    <3> QED BY ONLY <3>3, <3>4, <3>5
  <2>5. Values(c, i) # {}
    <3>1. CASE ov = {}
      BY ONLY <1>1, <2>2, <2>3, <3>1 DEF Values, Candidates
    <3>2. CASE ov # {}
      <4>1. PICK k : k \in ov
        BY ONLY <3>2
      <4>2. Overridden(k, kwds[k]) # {}
        BY ONLY <1>2, <1>3, <2>2, <4>1
      <4>3. Values(c, i) = UNION {Overridden(y, kwds[y]) : y \in ov}
        BY ONLY <2>3, <3>2 DEF Values, Candidates
      <4> HIDE DEF ov
      <4> QED BY ONLY <4>1, <4>2, <4>3
    <3> QED BY ONLY <3>1, <3>2
  <2> QED BY ONLY <2>1, <2>3, <2>4, <2>5
<1>7. CASE Launch(t)
  <2>1. /\ tasks[t].state = "picking" /\ i = Len(Rand(c)) + 1
        /\ \/ tasks'[t].state = "running"
           \/ ~ (DOMAIN Over(calls[c].kwds, tasks[t].args) \subseteq Accepted(c))
    BY ONLY LaunchInv, <1>7, t \in DOMAIN tasks, LaunchStep
  <2>2. /\ Picked(d.randargs, Len(d.randargs) + 1) = Names(d.randargs)
        /\ Seen(d.randargs, Len(d.randargs) + 1) = UNION {VarNames(x) : x \in Names(d.randargs)}
    BY ONLY <1>1, SeenNext
  <2>3. DOMAIN tasks[t].args = Names(d.randargs)
    BY ONLY <1>1, <1>4, <2>1, <2>2
  <2>4. DOMAIN kwds \subseteq Plain[calls[c].fn]
    BY ONLY <1>1, <1>3, <1>4, <2>1, <2>2
  <2>5. Plain[calls[c].fn] \cap (Names(d.requires) \cup Names(d.locks)) = {}
    BY ONLY LaunchInv, <1>1, PlainApart DEF DeclOf
  <2>6. Accepted(c) = (Names(d.randargs) \cup Plain[calls[c].fn])
                         \ (Names(d.requires) \cup Names(d.locks))
    BY ONLY <1>1 DEF Accepted, Fixed, DeclOf
  <2>7. DOMAIN Over(calls[c].kwds, tasks[t].args) = DOMAIN kwds \cup DOMAIN tasks[t].args
    BY ONLY TRUE DEF Over
  <2> QED BY ONLY <1>3, <2>1, <2>3, <2>4, <2>5, <2>6, <2>7
<1> QED BY <1>5, <1>6, <1>7

\* A call that starts for the first time with what it needs does not fail: see
\* LegalCallStarts.
LEMMA LegalStep ==
    ASSUME LaunchInv, FreshInv, KeepsInv, LegalCallStarts, [LaunchNext]_launchVars
    PROVE  LegalCallStarts'
<1>1. LaunchInv' /\ (Quiet \/ \E t \in DOMAIN tasks :
                        TakeComponents(t) \/ PickArgument(t) \/ Launch(t))
  BY ONLY LaunchInv, [LaunchNext]_launchVars, NextLaunch
<1>2. ASSUME NEW f, NEW given, decl' = decl PROVE Legal(f, given)' <=> Legal(f, given)
  BY ONLY <1>2 DEF Legal
<1>3. ASSUME NEW u \in DOMAIN tasks, First(u), tasks[u].state = "failed"
      PROVE  ~Legal(calls[tasks[u].call].fn, calls[tasks[u].call].given)
  BY ONLY LegalCallStarts, <1>3 DEF LegalCallStarts, FnOf
<1>4. CASE Quiet
  <2> SUFFICES ASSUME NEW u \in DOMAIN tasks', First(u)', tasks'[u].state = "failed"
               PROVE  ~Legal(FnOf(u), calls[tasks[u].call].given)'
    BY DEF LegalCallStarts
  <2>1. /\ u \in DOMAIN tasks /\ tasks'[u] = tasks[u] /\ First(u)' = First(u)
        /\ tasks[u].call \in DOMAIN calls
        /\ calls'[tasks[u].call] = calls[tasks[u].call]
    BY ONLY LaunchInv, <1>1, <1>4, u \in DOMAIN tasks', tasks'[u].state = "failed", QuietFrame
  <2>2. decl' = decl
    BY ONLY <1>4, <2>1 DEF Quiet
  <2>3. PICK f, given : f = calls[tasks[u].call].fn /\ given = calls[tasks[u].call].given
    OBVIOUS
  <2>4. ~Legal(f, given)
    BY ONLY <1>3, <2>1, <2>3, First(u)', tasks'[u].state = "failed"
  <2>5. ~Legal(f, given)'
    BY ONLY <1>2, <2>2, <2>4
  <2>6. FnOf(u)' = f /\ calls'[tasks'[u].call].given = given
    BY ONLY <2>1, <2>3 DEF FnOf
  <2> QED BY ONLY <2>5, <2>6 DEF Legal
<1>5. ASSUME NEW t \in DOMAIN tasks, TakeComponents(t) \/ PickArgument(t) \/ Launch(t)
      PROVE  LegalCallStarts'
  <2>1. PICK gone : TaskStep(t, gone)
    BY ONLY LaunchInv, <1>5, TurnStep
  <2> SUFFICES ASSUME NEW u \in DOMAIN tasks', First(u)', tasks'[u].state = "failed"
               PROVE  ~Legal(FnOf(u), calls[tasks[u].call].given)'
    BY DEF LegalCallStarts
  <2>2. /\ u \in DOMAIN tasks /\ decl' = decl
        /\ \A b \in DOMAIN calls : calls'[b].fn = calls[b].fn /\ calls'[b].given = calls[b].given
    BY ONLY <2>1, u \in DOMAIN tasks' DEF TaskStep
  <2>3. /\ tasks'[u].call = tasks[u].call /\ First(u)' = First(u)
        /\ (u # t => tasks'[u] = tasks[u])
        /\ tasks[u].call \in DOMAIN calls
    BY ONLY LaunchInv, <1>5, <2>1, <2>2, Frame
  <2>4. PICK f, given : f = calls[tasks[u].call].fn /\ given = calls[tasks[u].call].given
    OBVIOUS
  <2>5. ~Legal(f, given)
    <3>1. CASE u = t
      BY ONLY LaunchInv, FreshInv, KeepsInv, <1>5, <2>3, <2>4, <3>1, First(u)',
              tasks'[u].state = "failed", NoFailure
    <3>2. CASE u # t
      BY ONLY <1>3, <2>2, <2>3, <2>4, <3>2, First(u)', tasks'[u].state = "failed"
    <3> QED BY ONLY <3>1, <3>2
  <2>6. ~Legal(f, given)'
    BY ONLY <1>2, <2>2, <2>5
  <2>7. FnOf(u)' = f /\ calls'[tasks'[u].call].given = given
    BY ONLY <2>2, <2>3, <2>4 DEF FnOf
  <2> QED BY ONLY <2>6, <2>7 DEF Legal
<1> QED BY ONLY <1>1, <1>4, <1>5

\* A legal call starts the first time that it is scheduled, whatever the
\* functions are declared with, whatever is called, and in whichever order the
\* calls are scheduled: LegalCallStarts, of the preamble of BaseSequence.
THEOREM LegalCallsStart == LaunchSpec => []LegalCallStarts
<1> DEFINE I == LaunchInv /\ FreshInv /\ KeepsInv /\ LegalCallStarts
<1>1. LaunchInit => I
  <2> SUFFICES ASSUME LaunchInit PROVE I
    OBVIOUS
  <2>1. LaunchInv
    BY InitLaunch
  <2>2. calls = <<>> /\ tasks = <<>> /\ DOMAIN <<>> = {}
    BY EmptySeq DEF LaunchInit
  <2> QED BY ONLY <2>1, <2>2 DEF FreshInv, KeepsInv, LegalCallStarts
<1>2. I /\ [LaunchNext]_launchVars => I'
  BY NextLaunch, FreshStep, KeepsStep, LegalStep
<1>3. I => LegalCallStarts
  OBVIOUS
<1> QED BY <1>1, <1>2, <1>3, PTL DEF LaunchSpec

-----------------------------------------------------------------------------
(* Overrides are honoured *)

\* No name of a function is that of one of its random arguments and a suffix.
\* The code refuses some of these names when it declares the argument.
NamesApart ==
    \A f \in Fn : \A d \in Range(Decorators[f]) : \A s \in Suffix :
        d.kind = "randargs" =>
            /\ Append(d.name, s) \notin Plain[f]
            /\ \A e \in Range(Decorators[f]) : e.name # Append(d.name, s)

LEMMA VarNamesApart ==
    ASSUME NEW x \in Seq(STRING), NEW y \in Seq(STRING), x # y,
           \A s \in Suffix : x # Append(y, s) /\ y # Append(x, s)
    PROVE  VarNames(x) \cap VarNames(y) = {}
<1>1. ASSUME NEW r \in Suffix, NEW s \in Suffix PROVE Append(x, r) # Append(y, s)
  <2> SUFFICES ASSUME Append(x, r) = Append(y, s) PROVE FALSE
    OBVIOUS
  <2> DEFINE W == STRING \cup Suffix
  <2>1. x \in Seq(W) /\ y \in Seq(W) /\ r \in W /\ s \in W
    <3>1. Seq(STRING) \subseteq Seq(W)
      BY SeqMonotonic
    <3> QED BY <1>1, <3>1
  <2> HIDE DEF W
  <2>2. /\ Len(Append(x, r)) = Len(x) + 1 /\ \A i \in 1 .. Len(x) : Append(x, r)[i] = x[i]
        /\ Len(Append(y, s)) = Len(y) + 1 /\ \A i \in 1 .. Len(y) : Append(y, s)[i] = y[i]
    BY ONLY <2>1, AppendProperties
  <2>3. Len(x) \in Nat /\ Len(y) \in Nat
    BY ONLY x \in Seq(STRING), y \in Seq(STRING), LenProperties
  <2>4. Len(x) = Len(y) /\ \A i \in 1 .. Len(x) : x[i] = y[i]
    BY ONLY <2>2, <2>3, Append(x, r) = Append(y, s)
  <2> QED BY ONLY <2>4, x \in Seq(STRING), y \in Seq(STRING), x # y, SeqEqual
<1>2. ASSUME NEW k \in VarNames(x), k \in VarNames(y) PROVE FALSE
  <2>1. /\ k = x \/ \E r \in Suffix : k = Append(x, r)
        /\ k = y \/ \E s \in Suffix : k = Append(y, s)
    BY ONLY <1>2 DEF VarNames
  <2> QED BY ONLY <1>1, <2>1, x # y, \A s \in Suffix : x # Append(y, s) /\ y # Append(x, s)
<1> QED BY ONLY <1>2

\* An override of one random argument means no other argument.
LEMMA OverridesApart ==
    ASSUME NamesApart, LaunchInv, NEW t \in DOMAIN tasks
    PROVE  LET c == tasks[t].call
               d == DeclOf(c)
           IN  \A i \in DOMAIN d.randargs :
                  /\ \A j \in DOMAIN d.randargs \ {i} :
                        VarNames(d.randargs[i].name) \cap VarNames(d.randargs[j].name) = {}
                  /\ d.randargs[i].name \notin Names(d.requires) =>
                        VarNames(d.randargs[i].name) \cap Names(d.requires) = {}
                  /\ VarNames(d.randargs[i].name) \cap Plain[calls[c].fn] = {}
<1> DEFINE c == tasks[t].call  f == calls[c].fn  D == Range(Decorators[f])
<1>1. /\ f \in Fn /\ Rand(c) = DeclOf(c).randargs /\ Req(c) = DeclOf(c).requires
      /\ Rand(c) \in Seq(D)
      /\ \A i, j \in DOMAIN Rand(c) : Rand(c)[i].name = Rand(c)[j].name => i = j
      /\ \A i \in DOMAIN Rand(c) : Rand(c)[i].kind = "randargs"
  BY ONLY LaunchInv, t \in DOMAIN tasks, RandSeq
<1>2. Req(c) \in Seq(D)
  BY ONLY LaunchInv, <1>1 DEF LaunchInv, DeclType, Req
<1> HIDE DEF D, f, c
<1>3. /\ \A i \in DOMAIN Rand(c) : Rand(c)[i] \in D
      /\ \A i \in DOMAIN Req(c) : Req(c)[i] \in D
  BY ONLY <1>1, <1>2, LenProperties, ElementOfSeq
<1>4. /\ \A d \in D : d.name \in Seq(STRING) /\ d.name \notin Plain[f]
      /\ \A d \in D : \A s \in Suffix : d.kind = "randargs" =>
            /\ Append(d.name, s) \notin Plain[f]
            /\ \A e \in D : e.name # Append(d.name, s)
  BY ONLY <1>1, NamesApart, DecoratorsAssumption DEF NamesApart, D
<1>5. ASSUME NEW i \in DOMAIN Rand(c)
      PROVE  /\ \A j \in DOMAIN Rand(c) \ {i} :
                    VarNames(Rand(c)[i].name) \cap VarNames(Rand(c)[j].name) = {}
             /\ Rand(c)[i].name \notin Names(Req(c)) =>
                    VarNames(Rand(c)[i].name) \cap Names(Req(c)) = {}
             /\ VarNames(Rand(c)[i].name) \cap Plain[f] = {}
  <2>1. PICK a : a = Rand(c)[i]
    OBVIOUS
  <2>2. /\ a \in D /\ a.kind = "randargs" /\ a.name \in Seq(STRING) /\ a.name \notin Plain[f]
        /\ \A s \in Suffix : /\ Append(a.name, s) \notin Plain[f]
                             /\ \A e \in D : e.name # Append(a.name, s)
    BY ONLY <1>1, <1>3, <1>4, <1>5, <2>1
  <2>3. ASSUME NEW j \in DOMAIN Rand(c) \ {i}
        PROVE  VarNames(a.name) \cap VarNames(Rand(c)[j].name) = {}
    <3>1. PICK b : b = Rand(c)[j]
      OBVIOUS
    <3>2. /\ b \in D /\ b.name \in Seq(STRING) /\ b.name # a.name
          /\ \A s \in Suffix : \A e \in D : e.name # Append(b.name, s)
      BY ONLY <1>1, <1>3, <1>4, <1>5, <2>1, <2>3, <3>1
    <3>3. \A s \in Suffix : a.name # Append(b.name, s) /\ b.name # Append(a.name, s)
      BY ONLY <2>2, <3>2
    <3>4. VarNames(a.name) \cap VarNames(b.name) = {}
      BY ONLY <2>2, <3>2, <3>3, VarNamesApart
    <3> QED BY ONLY <3>1, <3>4
  <2>4. \A k \in VarNames(a.name) : k = a.name \/ \E s \in Suffix : k = Append(a.name, s)
    BY ONLY TRUE DEF VarNames
  <2>5. a.name \notin Names(Req(c)) => VarNames(a.name) \cap Names(Req(c)) = {}
    BY ONLY <1>3, <2>2, <2>4 DEF Names
  <2>6. VarNames(a.name) \cap Plain[f] = {}
    BY ONLY <2>2, <2>4
  <2> QED BY ONLY <2>1, <2>3, <2>5, <2>6
<1> QED BY ONLY <1>1, <1>5 DEF c, f

\* A call is given what a testcase may give, ranges of integers in particular.
GivenInv ==
    \A c \in DOMAIN calls : \A k \in DOMAIN calls[c].given :
        Mode(k) = "range" => calls[c].given[k] \in Int \X Int

LEMMA GivenStep ==
    ASSUME LaunchInv, GivenInv, [LaunchNext]_launchVars PROVE GivenInv'
<1>1. CASE calls' = calls
  BY ONLY GivenInv, <1>1 DEF GivenInv
<1>2. ASSUME NEW f \in Fn, NEW kwds \in Kwds[f], Call(f, kwds) PROVE GivenInv'
  <2>1. /\ DOMAIN calls' = DOMAIN calls \cup {Len(calls) + 1}
        /\ \A c \in DOMAIN calls : calls'[c] = calls[c]
        /\ calls'[Len(calls) + 1].given = kwds
    <3>1. /\ Len(calls) \in Nat
          /\ DOMAIN calls = 1 .. Len(calls) /\ DOMAIN calls' = 1 .. Len(calls) + 1
          /\ \A c \in DOMAIN calls : calls'[c] = calls[c]
          /\ calls'[Len(calls) + 1].given = kwds
      BY ONLY LaunchInv, <1>2, CallStep
    <3> QED BY ONLY <3>1
  <2>2. \A k \in DOMAIN kwds : Mode(k) = "range" => kwds[k] \in Int \X Int
    BY ONLY KwdsAssumption, <1>2
  <2> QED BY ONLY GivenInv, <2>1, <2>2 DEF GivenInv
<1>3. ASSUME NEW t \in DOMAIN tasks, TakeComponents(t) \/ PickArgument(t) \/ Launch(t)
      PROVE  GivenInv'
  <2>1. PICK gone : TaskStep(t, gone)
    BY ONLY LaunchInv, <1>3, TurnStep
  <2>2. /\ DOMAIN calls' = DOMAIN calls
        /\ \A c \in DOMAIN calls : calls'[c].given = calls[c].given
    BY ONLY <2>1 DEF TaskStep
  <2> QED BY ONLY GivenInv, <2>2 DEF GivenInv
<1>4. CASE UNCHANGED launchVars
  BY ONLY <1>1, <1>4 DEF launchVars
<1>5. ASSUME NEW f \in Fn, Decorate(f) PROVE GivenInv'
  BY ONLY <1>1, <1>5 DEF Decorate
<1>6. ASSUME NEW c \in DOMAIN calls, Schedule(c) PROVE GivenInv'
  BY ONLY <1>1, <1>6 DEF Schedule
<1> QED BY ONLY [LaunchNext]_launchVars, <1>2, <1>3, <1>4, <1>5, <1>6 DEF LaunchNext

\* What an override is drawn from is what the docs promise of it.
LEMMA DrawnAsAsked ==
    ASSUME NEW key, NEW asked, NEW value \in Overridden(key, asked),
           Mode(key) = "range" => asked \in Int \X Int
    PROVE  AsAsked(key, asked, value)
<1>1. Mode(key) \in {"fixed", "bit_width", "range", "choices"}
  BY ONLY TRUE DEF Mode, Suffix
<1>2. CASE Mode(key) = "fixed"
  BY ONLY value \in Overridden(key, asked), <1>2 DEF Overridden, AsAsked
<1>3. CASE Mode(key) = "bit_width"
  BY ONLY value \in Overridden(key, asked), <1>3 DEF Overridden, Outcomes, AsAsked
<1>4. CASE Mode(key) = "choices"
  <2>1. value \in Range(asked)
    BY ONLY value \in Overridden(key, asked), <1>4 DEF Overridden, Outcomes
  <2>2. \E i \in DOMAIN asked : value = asked[i]
    BY ONLY <2>1 DEF Range
  <2> QED BY ONLY <1>4, <2>2 DEF AsAsked
<1>5. CASE Mode(key) = "range"
  <2>1. value \in asked[1] .. asked[2] - 1
    BY ONLY value \in Overridden(key, asked), <1>5 DEF Overridden, Outcomes
  <2>2. asked[1] \in Int /\ asked[2] \in Int
    BY ONLY <1>5, Mode(key) = "range" => asked \in Int \X Int
  <2>3. value \in asked[1] .. asked[2]
    BY ONLY <2>1, <2>2
  <2> QED BY ONLY <1>5, <2>3 DEF AsAsked
<1> QED BY ONLY <1>1, <1>2, <1>3, <1>4, <1>5

\* Two members of a set with at most one are the same.
LEMMA AtMostOne ==
    ASSUME NEW S, IsFiniteSet(S), ~ (Cardinality(S) > 1), NEW a \in S, NEW b \in S
    PROVE  a = b
<1> SUFFICES ASSUME a # b PROVE FALSE
  OBVIOUS
<1>1. IsFiniteSet({a}) /\ Cardinality({a}) = 1
  BY ONLY FS_Singleton
<1>2. Cardinality({a} \cup {b}) = Cardinality({a}) + 1
  BY ONLY <1>1, a # b, FS_AddElement
<1>3. {a} \cup {b} \subseteq S
  OBVIOUS
<1>4. Cardinality({a} \cup {b}) <= Cardinality(S) /\ Cardinality(S) \in Nat
  BY ONLY <1>3, IsFiniteSet(S), FS_Subset, FS_CardinalityType
<1> QED BY ONLY <1>1, <1>2, <1>4, ~ (Cardinality(S) > 1)

\* A random argument that the first task of a call has picked is as the caller
\* asked for it.
HonourInv ==
    \A t \in DOMAIN tasks : First(t) /\ tasks[t].state = "picking" =>
        LET d == DeclOf(tasks[t].call)
        IN  \A i \in DOMAIN d.randargs :
                i < tasks[t].next /\ d.randargs[i].name \notin Names(d.requires) =>
                    Honoured(d.randargs[i], calls[tasks[t].call].given,
                             tasks[t].args[d.randargs[i].name])

\* What the first task of a call draws is what its caller asked for.
LEMMA DrawsHonoured ==
    ASSUME NamesApart, LaunchInv, KeepsInv, GivenInv, NEW t \in DOMAIN tasks, First(t),
           PickArgument(t), ~ (Cardinality(Overrides(tasks[t].call, tasks[t].next)) > 1)
    PROVE  LET c == tasks[t].call
               d == DeclOf(c)
               i == tasks[t].next
           IN  d.randargs[i].name \notin Names(d.requires) =>
                  \A v \in Values(c, i) : Honoured(d.randargs[i], calls[c].given, v)
<1> DEFINE c == tasks[t].call  d == DeclOf(c)  i == tasks[t].next  rv == d.randargs[i]
           kwds == calls[c].kwds  given == calls[c].given
           ov == VarNames(rv.name) \cap DOMAIN kwds
<1> SUFFICES ASSUME rv.name \notin Names(d.requires), NEW v \in Values(c, i)
             PROVE  Honoured(rv, given, v)
  OBVIOUS
<1>1. /\ c \in DOMAIN calls /\ Rand(c) = d.randargs
      /\ DOMAIN Rand(c) = 1 .. Len(Rand(c)) /\ Len(Rand(c)) \in Nat
  BY ONLY LaunchInv, t \in DOMAIN tasks, RandSeq
<1>2. /\ DOMAIN kwds \subseteq DOMAIN given
      /\ \A k \in DOMAIN kwds : kwds[k] = given[k]
  BY ONLY LaunchInv, <1>1 DEF LaunchInv, CallType
<1>3. tasks[t].state = "picking" /\ i \in DOMAIN d.randargs
  BY ONLY LaunchInv, PickArgument(t), t \in DOMAIN tasks, <1>1, PickStep
<1>4. DOMAIN kwds = DOMAIN given \ (Names(d.requires) \cup Seen(d.randargs, i))
  BY ONLY KeepsInv, First(t), t \in DOMAIN tasks, <1>3 DEF KeepsInv, KwdsOf
<1>5. VarNames(rv.name) \cap Names(d.requires) = {}
  BY ONLY NamesApart, LaunchInv, t \in DOMAIN tasks, <1>3, rv.name \notin Names(d.requires),
          OverridesApart
<1>6. VarNames(rv.name) \cap Seen(d.randargs, i) = {}
  <2>1. ASSUME NEW j \in DOMAIN d.randargs, j < i
        PROVE  VarNames(rv.name) \cap VarNames(d.randargs[j].name) = {}
    <3>1. j # i
      BY ONLY <1>1, <2>1
    <3> QED BY ONLY NamesApart, LaunchInv, t \in DOMAIN tasks, <1>3, <2>1, <3>1, OverridesApart
  <2> QED BY ONLY <2>1 DEF Seen
<1>7. ov = VarNames(rv.name) \cap DOMAIN given
  BY ONLY <1>4, <1>5, <1>6
<1>8. Overrides(c, i) = ov
  BY ONLY <1>1 DEF Overrides
<1>9. ASSUME NEW k \in ov PROVE AsAsked(k, given[k], v)
  <2>1. v \in UNION {Overridden(y, kwds[y]) : y \in ov}
    <3>1. Values(c, i) = Candidates(rv, ov, kwds) /\ ov # {}
      BY ONLY <1>1, <1>8, <1>9 DEF Values
    <3>2. Candidates(rv, ov, kwds) = UNION {Overridden(y, kwds[y]) : y \in ov}
      BY ONLY <3>1 DEF Candidates
    <3> QED BY ONLY <3>1, <3>2, v \in Values(c, i)
  <2>2. PICK y \in ov : v \in Overridden(y, kwds[y])
    BY ONLY <2>1
  <2>3. IsFiniteSet(ov) /\ ~ (Cardinality(ov) > 1)
    <3>1. IsFiniteSet(VarNames(rv.name))
      BY ONLY VarNamesFinite
    <3>2. IsFiniteSet(VarNames(rv.name) \cap DOMAIN kwds)
      BY ONLY <3>1, FS_Subset
    <3> QED BY ONLY <1>8, <3>2, ~ (Cardinality(Overrides(tasks[t].call, tasks[t].next)) > 1)
  <2>4. y = k
    BY ONLY <1>9, <2>2, <2>3, AtMostOne
  <2>5. kwds[k] = given[k] /\ k \in DOMAIN given
    BY ONLY <1>2, <1>9
  <2>6. v \in Overridden(k, given[k])
    BY ONLY <2>2, <2>4, <2>5
  <2>7. Mode(k) = "range" => given[k] \in Int \X Int
    BY ONLY GivenInv, <1>1, <2>5 DEF GivenInv
  <2> QED BY ONLY <2>6, <2>7, DrawnAsAsked
<1> QED BY ONLY <1>7, <1>9 DEF Honoured

LEMMA HonourStep ==
    ASSUME NamesApart, LaunchInv, FreshInv, KeepsInv, GivenInv, HonourInv, OverridesHonoured,
           [LaunchNext]_launchVars
    PROVE  HonourInv' /\ OverridesHonoured'
<1>1. LaunchInv' /\ (Quiet \/ \E t \in DOMAIN tasks :
                        TakeComponents(t) \/ PickArgument(t) \/ Launch(t))
  BY ONLY LaunchInv, [LaunchNext]_launchVars, NextLaunch
<1> DEFINE Honours(x, d, k) ==
             /\ x.state = "picking" =>
                  \A i \in DOMAIN d.randargs :
                     i < x.next /\ d.randargs[i].name \notin Names(d.requires) =>
                        Honoured(d.randargs[i], k.given, x.args[d.randargs[i].name])
             /\ x.state = "running" =>
                  /\ \A i \in DOMAIN d.randargs :
                        Honoured(d.randargs[i], k.given, x.args[d.randargs[i].name])
                  /\ \A n \in DOMAIN k.given \cap Plain[k.fn] : x.args[n] = k.given[n]
<1>2. ASSUME NEW u \in DOMAIN tasks, First(u)
      PROVE  Honours(tasks[u], DeclOf(tasks[u].call), calls[tasks[u].call])
  BY ONLY HonourInv, OverridesHonoured, <1>2 DEF HonourInv, OverridesHonoured, FnOf, DeclOf
<1>3. ASSUME \A u \in DOMAIN tasks' :
                First(u)' => Honours(tasks'[u], DeclOf(tasks[u].call)', calls'[tasks'[u].call])
      PROVE  HonourInv' /\ OverridesHonoured'
  BY ONLY <1>3 DEF HonourInv, OverridesHonoured, FnOf, DeclOf
<1> HIDE DEF Honours
<1>4. CASE Quiet
  <2> SUFFICES ASSUME NEW u \in DOMAIN tasks', First(u)'
               PROVE  Honours(tasks'[u], DeclOf(tasks[u].call)', calls'[tasks'[u].call])
    BY <1>3
  <2>1. CASE u \notin DOMAIN tasks
    <3>1. tasks'[u].state = "new"
      BY ONLY LaunchInv, <1>1, <1>4, <2>1, u \in DOMAIN tasks', QuietFrame
    <3> QED BY ONLY <3>1 DEF Honours
  <2>2. CASE u \in DOMAIN tasks
    <3>1. /\ tasks'[u] = tasks[u] /\ First(u)' = First(u)
          /\ calls'[tasks[u].call] = calls[tasks[u].call]
          /\ DeclOf(tasks[u].call)' = DeclOf(tasks[u].call)
      BY ONLY LaunchInv, <1>1, <1>4, <2>2, u \in DOMAIN tasks', QuietFrame
    <3> QED BY ONLY <1>2, <2>2, <3>1, First(u)'
  <2> QED BY ONLY <2>1, <2>2
<1>5. ASSUME NEW t \in DOMAIN tasks, TakeComponents(t) \/ PickArgument(t) \/ Launch(t)
      PROVE  HonourInv' /\ OverridesHonoured'
  <2> DEFINE c == tasks[t].call  d == DeclOf(c)  i == tasks[t].next
             kwds == calls[c].kwds  given == calls[c].given
  <2>1. PICK gone : TaskStep(t, gone)
    BY ONLY LaunchInv, <1>5, TurnStep
  <2>2. /\ c \in DOMAIN calls /\ Rand(c) = d.randargs /\ Req(c) = d.requires
        /\ Rand(c) \in Seq(Range(Decorators[calls[c].fn]))
        /\ DOMAIN Rand(c) = 1 .. Len(Rand(c)) /\ Len(Rand(c)) \in Nat
        /\ \A k, j \in DOMAIN Rand(c) : Rand(c)[k].name = Rand(c)[j].name => k = j
    BY ONLY LaunchInv, t \in DOMAIN tasks, RandSeq
  <2>3. /\ DOMAIN kwds \subseteq DOMAIN given
        /\ \A k \in DOMAIN kwds : kwds[k] = given[k]
    BY ONLY LaunchInv, <2>2 DEF LaunchInv, CallType
  <2>4. ASSUME First(t) PROVE Honours(tasks'[t], d, calls[c])
    <3>1. CASE TakeComponents(t)
      <4>1. tasks'[t].next = 1 /\ (tasks'[t].state = "picking" \/ tasks'[t].state = "failed")
        BY ONLY LaunchInv, <3>1, t \in DOMAIN tasks, TakeStep
      <4>2. \A j \in DOMAIN d.randargs : ~ (j < 1)
        BY ONLY <2>2
      <4> QED BY ONLY <4>1, <4>2 DEF Honours
    <3>2. CASE PickArgument(t)
      <4>1. /\ tasks[t].state = "picking" /\ i \in DOMAIN Rand(c)
            /\ \/ tasks'[t].state = "failed"
               \/ /\ tasks'[t].state = "picking" /\ tasks'[t].next = i + 1
                  /\ ~ (Cardinality(Overrides(c, i)) > 1)
                  /\ \E v \in Values(c, i) :
                        Adds(tasks'[t].args, Rand(c)[i].name, v, tasks[t].args)
        BY ONLY LaunchInv, <3>2, t \in DOMAIN tasks, PickStep DEF Adds
      <4>2. CASE tasks'[t].state = "failed"
        BY ONLY <4>2 DEF Honours
      <4>3. CASE tasks'[t].state = "picking" /\ tasks'[t].next = i + 1
        <5>1. PICK v \in Values(c, i) :
                Adds(tasks'[t].args, Rand(c)[i].name, v, tasks[t].args)
          BY ONLY <4>1, <4>3
        <5>2. PICK more, x, args :
                more = tasks'[t].args /\ x = d.randargs[i].name /\ args = tasks[t].args
          OBVIOUS
        <5>3. /\ more[x] = v /\ (\A y \in DOMAIN args : y # x => more[y] = args[y])
          <6>1. Adds(more, x, v, args)
            BY ONLY <2>2, <5>1, <5>2
          <6> QED BY ONLY <6>1 DEF Adds, Over
        <5>4. ASSUME NEW j \in DOMAIN d.randargs, j < i + 1,
                     d.randargs[j].name \notin Names(d.requires)
              PROVE  Honoured(d.randargs[j], given, more[d.randargs[j].name])
          <6>1. CASE j = i
            <7>1. \A w \in Values(c, i) : Honoured(d.randargs[i], given, w)
              BY ONLY NamesApart, LaunchInv, KeepsInv, GivenInv, t \in DOMAIN tasks, <2>4, <3>2,
                      <4>1, <4>3, <5>4, <6>1, DrawsHonoured
            <7> QED BY ONLY <5>1, <5>2, <5>3, <6>1, <7>1
          <6>2. CASE j # i
            <7>1. j < i
              BY ONLY <2>2, <4>1, <5>4, <6>2
            <7>2. Honoured(d.randargs[j], given, args[d.randargs[j].name])
              BY ONLY <1>2, <2>4, <4>1, <5>2, <5>4, <7>1, t \in DOMAIN tasks DEF Honours
            <7>3. d.randargs[j].name # x
              BY ONLY <2>2, <4>1, <5>2, <5>4, <6>2
            <7>4. d.randargs[j].name \in DOMAIN args
              <8>1. DOMAIN args = Picked(d.randargs, i)
                BY ONLY KeepsInv, t \in DOMAIN tasks, <4>1, <5>2 DEF KeepsInv
              <8>2. d.randargs[j].name \in Picked(d.randargs, i)
                BY ONLY <5>4, <7>1 DEF Picked
              <8> QED BY ONLY <8>1, <8>2
            <7> QED BY ONLY <5>3, <7>2, <7>3, <7>4
          <6> QED BY ONLY <6>1, <6>2
        <5> QED BY ONLY <4>3, <5>2, <5>4 DEF Honours
      <4> QED BY ONLY <4>1, <4>2, <4>3
    <3>3. CASE Launch(t)
      <4>1. /\ tasks[t].state = "picking" /\ i = Len(Rand(c)) + 1
            /\ \/ tasks'[t].state = "failed"
               \/ /\ tasks'[t].state = "running"
                  /\ tasks'[t].args = Over(kwds, tasks[t].args)
                  /\ DOMAIN Over(kwds, tasks[t].args) \subseteq Accepted(c)
        BY ONLY LaunchInv, <3>3, t \in DOMAIN tasks, LaunchStep
      <4>2. CASE tasks'[t].state = "failed"
        BY ONLY <4>2 DEF Honours
      <4>3. CASE /\ tasks'[t].state = "running"
                 /\ tasks'[t].args = Over(kwds, tasks[t].args)
                 /\ DOMAIN Over(kwds, tasks[t].args) \subseteq Accepted(c)
        <5>1. PICK all, args : all = Over(kwds, args) /\ args = tasks[t].args
          OBVIOUS
        <5>2. /\ DOMAIN all = DOMAIN kwds \cup DOMAIN args
              /\ \A y \in DOMAIN kwds : all[y] = kwds[y]
              /\ \A y \in DOMAIN args : y \notin DOMAIN kwds => all[y] = args[y]
          BY ONLY <5>1 DEF Over
        <5>3. /\ Picked(d.randargs, Len(d.randargs) + 1) = Names(d.randargs)
              /\ Seen(d.randargs, Len(d.randargs) + 1)
                    = UNION {VarNames(x) : x \in Names(d.randargs)}
          BY ONLY <2>2, SeenNext
        <5>4. /\ DOMAIN args = Names(d.randargs)
              /\ DOMAIN kwds = DOMAIN given \ (Names(d.requires)
                                    \cup UNION {VarNames(x) : x \in Names(d.randargs)})
          BY ONLY KeepsInv, t \in DOMAIN tasks, <2>2, <2>4, <4>1, <5>1, <5>3
             DEF KeepsInv, KwdsOf
        <5>5. Accepted(c) = (Names(d.randargs) \cup Plain[calls[c].fn])
                               \ (Names(d.requires) \cup Names(d.locks))
          BY ONLY <2>2 DEF Accepted, Fixed, DeclOf
        <5>6. DOMAIN all \subseteq Accepted(c)
          BY ONLY <4>3, <5>1
        <5>7. ASSUME NEW j \in DOMAIN d.randargs
              PROVE  Honoured(d.randargs[j], given, all[d.randargs[j].name])
          <6>1. PICK x : x = d.randargs[j].name
            OBVIOUS
          <6>2. x \in Names(d.randargs) /\ x \in VarNames(x)
            BY ONLY <5>7, <6>1 DEF Names, VarNames
          <6>3. x \in DOMAIN args /\ x \notin DOMAIN kwds
            BY ONLY <5>4, <6>2
          <6>4. x \notin Names(d.requires)
            BY ONLY <5>2, <5>5, <5>6, <6>3
          <6>5. j < i
            BY ONLY <2>2, <4>1, <5>7
          <6>6. Honoured(d.randargs[j], given, args[x])
            BY ONLY <1>2, <2>4, <4>1, <5>1, <5>7, <6>1, <6>4, <6>5, t \in DOMAIN tasks
               DEF Honours
          <6> QED BY ONLY <5>2, <6>1, <6>3, <6>6
        <5>8. ASSUME NEW n \in DOMAIN given \cap Plain[calls[c].fn] PROVE all[n] = given[n]
          <6>1. n \notin Names(d.requires)
            BY ONLY LaunchInv, <2>2, <5>8, PlainApart DEF DeclOf
          <6>2. \A x \in Names(d.randargs) : n \notin VarNames(x)
            <7>1. \A j \in DOMAIN d.randargs :
                      VarNames(d.randargs[j].name) \cap Plain[calls[c].fn] = {}
              BY ONLY NamesApart, LaunchInv, t \in DOMAIN tasks, OverridesApart
            <7> QED BY ONLY <5>8, <7>1 DEF Names
          <6>3. n \in DOMAIN kwds
            BY ONLY <5>4, <5>8, <6>1, <6>2
          <6> QED BY ONLY <2>3, <5>2, <6>3
        <5> QED BY ONLY <4>3, <5>1, <5>7, <5>8 DEF Honours
      <4> QED BY ONLY <4>1, <4>2, <4>3
    <3> QED BY ONLY <1>5, <3>1, <3>2, <3>3
  <2>5. ASSUME NEW x, NEW k, NEW l, k.given = l.given, k.fn = l.fn, Honours(x, d, k)
        PROVE  Honours(x, d, l)
    BY ONLY <2>5 DEF Honours
  <2> SUFFICES ASSUME NEW u \in DOMAIN tasks', First(u)'
               PROVE  Honours(tasks'[u], DeclOf(tasks[u].call)', calls'[tasks'[u].call])
    BY <1>3
  <2>6. /\ u \in DOMAIN tasks
        /\ \A b \in DOMAIN calls : calls'[b].fn = calls[b].fn /\ calls'[b].given = calls[b].given
    BY ONLY <2>1, u \in DOMAIN tasks' DEF TaskStep
  <2>7. /\ tasks'[u].call = tasks[u].call /\ First(u)' = First(u)
        /\ (u # t => tasks'[u] = tasks[u])
        /\ tasks[u].call \in DOMAIN calls
        /\ DeclOf(tasks[u].call)' = DeclOf(tasks[u].call)
    BY ONLY LaunchInv, <1>5, <2>1, <2>6, Frame
  <2>8. Honours(tasks'[u], DeclOf(tasks[u].call), calls[tasks[u].call])
    <3>1. CASE u = t
      BY ONLY <2>4, <2>7, <3>1, First(u)'
    <3>2. CASE u # t
      BY ONLY <1>2, <2>6, <2>7, <3>2, First(u)'
    <3> QED BY ONLY <3>1, <3>2
  <2>9. PICK b : b = tasks[u].call
    OBVIOUS
  <2>10. /\ Honours(tasks'[u], DeclOf(b), calls[b])
         /\ calls'[b].fn = calls[b].fn /\ calls'[b].given = calls[b].given
    BY ONLY <2>6, <2>7, <2>8, <2>9
  <2>11. Honours(tasks'[u], DeclOf(b), calls'[b])
    BY ONLY <2>10 DEF Honours
  <2> QED BY ONLY <2>7, <2>9, <2>11
<1> QED BY ONLY <1>1, <1>4, <1>5

\* The first launch of a call gives the function its arguments as the caller
\* wanted them: OverridesHonoured, of BaseSequence and SeqRandomVariable, of
\* functions whose names are apart.
THEOREM OverridesAreHonoured ==
    ASSUME NamesApart
    PROVE  LaunchSpec => []OverridesHonoured
<1> DEFINE I == LaunchInv /\ FreshInv /\ KeepsInv /\ GivenInv /\ HonourInv /\ OverridesHonoured
<1>1. LaunchInit => I
  <2> SUFFICES ASSUME LaunchInit PROVE I
    OBVIOUS
  <2>1. LaunchInv
    BY InitLaunch
  <2>2. calls = <<>> /\ tasks = <<>> /\ DOMAIN <<>> = {}
    BY EmptySeq DEF LaunchInit
  <2> QED BY ONLY <2>1, <2>2 DEF FreshInv, KeepsInv, GivenInv, HonourInv, OverridesHonoured
<1>2. I /\ [LaunchNext]_launchVars => I'
  BY NamesApart, NextLaunch, FreshStep, KeepsStep, GivenStep, HonourStep
<1>3. I => OverridesHonoured
  OBVIOUS
<1> QED BY <1>1, <1>2, <1>3, PTL DEF LaunchSpec

-----------------------------------------------------------------------------
(* A relaunch is plain *)

Left(rv, kwds) == VarNames(rv.name) \cap DOMAIN kwds
Stuck(rv, kwds) ==
    Cardinality(Left(rv, kwds)) > 1 \/ Candidates(rv, Left(rv, kwds), kwds) = {}

\* The keywords that a task leaves when it is over, of a call without
\* requirements: no overrides, or none up to an argument that cannot be drawn.
Settled(rand, kwds) ==
    \/ \A j \in DOMAIN rand : Left(rand[j], kwds) = {}
    \/ \E n \in DOMAIN rand : /\ Stuck(rand[n], kwds)
                              /\ \A j \in DOMAIN rand : j < n => Left(rand[j], kwds) = {}

\* What a task with record x has done to the keywords of its call.
Uses(x, d, kwds) ==
    /\ x.state # "new" /\ d.requires # <<>> => d.requires[1].name \notin DOMAIN kwds
    /\ x.state = "picking" =>
          \A j \in DOMAIN d.randargs : j < x.next => Left(d.randargs[j], kwds) = {}
    /\ x.state \in {"running", "failed"} /\ d.requires = <<>> => Settled(d.randargs, kwds)

\* What a task other than the first of its call can come to.
Again(x, d) ==
    /\ x.state \in {"picking", "running"} => d.requires = <<>>
    /\ x.state = "picking" => \A j \in DOMAIN d.randargs : j < x.next =>
                                x.args[d.randargs[j].name] \in Default(d.randargs[j])
    /\ x.state = "running" => \A j \in DOMAIN d.randargs :
                                x.args[d.randargs[j].name] \in Default(d.randargs[j])

PlainInv ==
    \A t \in DOMAIN tasks :
        /\ Uses(tasks[t], DeclOf(tasks[t].call), calls[tasks[t].call].kwds)
        /\ ~First(t) => Again(tasks[t], DeclOf(tasks[t].call))

\* Keywords are looked at one by one.
LEMMA SettledSame ==
    ASSUME NEW rand, NEW old, NEW new, DOMAIN new = DOMAIN old,
           \A k \in DOMAIN new : new[k] = old[k], Settled(rand, old)
    PROVE  Settled(rand, new)
<1>1. ASSUME NEW rv
      PROVE  /\ Left(rv, new) = Left(rv, old)
             /\ Stuck(rv, old) => Stuck(rv, new)
  <2>1. PICK ov : ov = Left(rv, old)
    OBVIOUS
  <2>2. ov = Left(rv, new) /\ ov \subseteq DOMAIN new
    BY ONLY <2>1, DOMAIN new = DOMAIN old DEF Left
  <2>3. \A k \in ov : Overridden(k, new[k]) = Overridden(k, old[k])
    BY ONLY <2>2, \A k \in DOMAIN new : new[k] = old[k]
  <2>4. UNION {Overridden(k, new[k]) : k \in ov} = UNION {Overridden(k, old[k]) : k \in ov}
    BY ONLY <2>3
  <2>5. Candidates(rv, ov, new) = Candidates(rv, ov, old)
    BY ONLY <2>4 DEF Candidates
  <2> QED BY ONLY <2>1, <2>2, <2>5 DEF Stuck
<1> QED BY ONLY <1>1, Settled(rand, old) DEF Settled

\* A task whose call has been scheduled before finds what that task left.
LEMMA EarlierTask ==
    ASSUME LaunchInv, NEW t \in DOMAIN tasks, Turn(t), ~First(t)
    PROVE  \E u \in DOMAIN tasks :
              tasks[u].call = tasks[t].call /\ tasks[u].state \in {"running", "failed"}
<1>1. DOMAIN tasks = 1 .. Len(tasks) /\ Len(tasks) \in Nat
  BY ONLY LaunchInv, LenProperties DEF LaunchInv, TaskType, IsSeq
<1>2. PICK u \in 1 .. t - 1 : tasks[u].call = tasks[t].call
  BY ONLY ~First(t) DEF First
<1>3. u \in DOMAIN tasks /\ u < t
  BY ONLY <1>1, <1>2, t \in DOMAIN tasks
<1> QED BY ONLY <1>2, <1>3, Turn(t) DEF Turn

\* A random argument that is drawn again has no override left.
LEMMA DrawsAgain ==
    ASSUME LaunchInv, KeepsInv, PlainInv, NEW t \in DOMAIN tasks, ~First(t), PickArgument(t),
           tasks'[t].state # "failed"
    PROVE  LET c == tasks[t].call
               i == tasks[t].next
           IN  Overrides(c, i) = {} /\ Values(c, i) = Default(DeclOf(c).randargs[i])
<1> DEFINE c == tasks[t].call  d == DeclOf(c)  i == tasks[t].next  kwds == calls[c].kwds
<1>1. /\ Rand(c) = d.randargs /\ DOMAIN Rand(c) = 1 .. Len(Rand(c)) /\ Len(Rand(c)) \in Nat
  BY ONLY LaunchInv, t \in DOMAIN tasks, RandSeq
<1>2. /\ Turn(t) /\ tasks[t].state = "picking" /\ i \in DOMAIN d.randargs
      /\ ~ (Cardinality(Overrides(c, i)) > 1) /\ Values(c, i) # {}
  <2>1. /\ Turn(t) /\ tasks[t].state = "picking" /\ i \in DOMAIN Rand(c)
        /\ \/ tasks'[t].state = "failed"
           \/ /\ ~ (Cardinality(Overrides(c, i)) > 1)
              /\ \E v \in Values(c, i) : TRUE
    BY ONLY LaunchInv, PickArgument(t), t \in DOMAIN tasks, PickStep
  <2> QED BY ONLY <1>1, <2>1, tasks'[t].state # "failed"
<1>3. Overrides(c, i) = Left(d.randargs[i], kwds)
  BY ONLY <1>1 DEF Overrides, Left
<1>4. ~Stuck(d.randargs[i], kwds)
  BY ONLY <1>1, <1>2, <1>3 DEF Stuck, Values
<1>5. PICK u \in DOMAIN tasks :
        tasks[u].call = c /\ tasks[u].state \in {"running", "failed"}
  BY ONLY LaunchInv, <1>2, t \in DOMAIN tasks, ~First(t), EarlierTask
<1>6. /\ d.requires = <<>>
      /\ \A j \in DOMAIN d.randargs : j < i =>
            tasks[t].args[d.randargs[j].name] \in Default(d.randargs[j])
      /\ \A j \in DOMAIN d.randargs : j < i => Left(d.randargs[j], kwds) = {}
  BY ONLY PlainInv, <1>2, t \in DOMAIN tasks, ~First(t) DEF PlainInv, Again, Uses
<1>7. Settled(d.randargs, kwds)
  <2>1. Uses(tasks[u], d, kwds)
    BY ONLY PlainInv, <1>5 DEF PlainInv
  <2> QED BY ONLY <1>5, <1>6, <2>1 DEF Uses
<1>8. ASSUME NEW n \in DOMAIN d.randargs, n < i PROVE ~Stuck(d.randargs[n], kwds)
  <2>1. PICK rv : rv = d.randargs[n]
    OBVIOUS
  <2>2. Left(rv, kwds) = {} /\ Default(rv) # {}
    BY ONLY <1>6, <1>8, <2>1
  <2>3. Candidates(rv, {}, kwds) = Default(rv)
    BY ONLY TRUE DEF Candidates
  <2>4. Cardinality({}) = 0
    BY ONLY FS_EmptySet
  <2> QED BY ONLY <2>1, <2>2, <2>3, <2>4 DEF Stuck
<1>9. Left(d.randargs[i], kwds) = {}
  <2>1. CASE \A j \in DOMAIN d.randargs : Left(d.randargs[j], kwds) = {}
    BY ONLY <1>2, <2>1
  <2>2. ASSUME NEW n \in DOMAIN d.randargs, Stuck(d.randargs[n], kwds),
               \A j \in DOMAIN d.randargs : j < n => Left(d.randargs[j], kwds) = {}
        PROVE  Left(d.randargs[i], kwds) = {}
    <3>1. n # i /\ ~ (n < i)
      BY ONLY <1>4, <1>8, <2>2
    <3>2. i < n
      BY ONLY <1>1, <1>2, <2>2, <3>1
    <3> QED BY ONLY <1>2, <2>2, <3>2
  <2> QED BY ONLY <1>7, <2>1, <2>2 DEF Settled
<1> QED BY ONLY <1>1, <1>3, <1>9 DEF Values, Candidates

\* What a task leaves of the keywords of its call when it takes a step.
LEMMA PlainOwn ==
    ASSUME LaunchInv, KeepsInv, PlainInv, NEW t \in DOMAIN tasks,
           TakeComponents(t) \/ PickArgument(t) \/ Launch(t)
    PROVE  LET c == tasks[t].call
               d == DeclOf(c)
           IN  \E gone :
                  /\ TaskStep(t, gone)
                  /\ ~First(t) /\ d.requires = <<>> => gone = {}
                  /\ Uses(tasks'[t], d, calls'[c].kwds)
                  /\ ~First(t) => Again(tasks'[t], d)
<1> DEFINE c == tasks[t].call  d == DeclOf(c)  i == tasks[t].next  kwds == calls[c].kwds
<1>1. /\ c \in DOMAIN calls /\ calls[c].fn \in Fn
      /\ Rand(c) = d.randargs /\ Req(c) = d.requires
      /\ DOMAIN Rand(c) = 1 .. Len(Rand(c)) /\ Len(Rand(c)) \in Nat
      /\ \A k, j \in DOMAIN Rand(c) : Rand(c)[k].name = Rand(c)[j].name => k = j
  BY ONLY LaunchInv, t \in DOMAIN tasks, RandSeq
<1>2. /\ Uses(tasks[t], d, kwds) /\ (~First(t) => Again(tasks[t], d))
      /\ tasks[t].state = "picking" => DOMAIN tasks[t].args = Picked(d.randargs, i)
  BY ONLY PlainInv, KeepsInv, t \in DOMAIN tasks DEF PlainInv, KeepsInv
<1>3. ASSUME NEW gone, TaskStep(t, gone)
      PROVE  /\ DOMAIN calls'[c].kwds = DOMAIN kwds \ gone
             /\ \A k \in DOMAIN calls'[c].kwds : calls'[c].kwds[k] = kwds[k]
  BY ONLY <1>3 DEF TaskStep
<1>4. CASE TakeComponents(t)
  <2>1. /\ Turn(t) /\ tasks'[t].next = 1
        /\ \E gone \in SUBSET Names(Req(c)) :
              /\ TaskStep(t, gone)
              /\ Req(c) # <<>> => Req(c)[1].name \in gone
              /\ \/ /\ tasks'[t].state = "picking"
                    /\ \A j \in DOMAIN Req(c) : Req(c)[j].name \in DOMAIN calls[c].kwds
                 \/ tasks'[t].state = "failed" /\ \E j : j \in DOMAIN Req(c)
    BY ONLY LaunchInv, <1>4, t \in DOMAIN tasks, TakeStep
  <2>2. PICK gone : /\ gone \subseteq Names(d.requires) /\ TaskStep(t, gone)
                    /\ d.requires # <<>> => d.requires[1].name \in gone
                    /\ \/ /\ tasks'[t].state = "picking"
                          /\ \A j \in DOMAIN d.requires : d.requires[j].name \in DOMAIN kwds
                       \/ tasks'[t].state = "failed" /\ \E j : j \in DOMAIN d.requires
    BY ONLY <1>1, <2>1
  <2>3. /\ d.requires = <<>> => gone = {} /\ tasks'[t].state = "picking"
        /\ d.requires # <<>> => 1 \in DOMAIN d.requires
    <3>1. d.requires \in Seq(Range(Decorators[calls[c].fn]))
      BY ONLY LaunchInv, <1>1 DEF LaunchInv, DeclType, DeclOf
    <3>2. PICK req : req = d.requires
      OBVIOUS
    <3>3. DOMAIN req = 1 .. Len(req) /\ Len(req) \in Nat /\ (Len(req) = 0 => req = <<>>)
      BY ONLY <3>1, <3>2, LenProperties, EmptySeq
    <3>4. req = <<>> => DOMAIN req = {}
      BY ONLY EmptySeq
    <3> QED BY ONLY <2>2, <3>2, <3>3, <3>4 DEF Names
  <2>4. Uses(tasks'[t], d, calls'[c].kwds)
    <3>1. \A j \in DOMAIN d.randargs : ~ (j < 1)
      BY ONLY <1>1
    <3>2. d.requires # <<>> => d.requires[1].name \notin DOMAIN calls'[c].kwds
      BY ONLY <1>3, <2>2
    <3> QED BY ONLY <2>1, <2>2, <2>3, <3>1, <3>2 DEF Uses
  <2>5. ASSUME ~First(t) PROVE Again(tasks'[t], d)
    <3>1. PICK u \in DOMAIN tasks :
            tasks[u].call = c /\ tasks[u].state \in {"running", "failed"}
      BY ONLY LaunchInv, <2>1, <2>5, t \in DOMAIN tasks, EarlierTask
    <3>2. d.requires # <<>> => d.requires[1].name \notin DOMAIN kwds
      <4>1. Uses(tasks[u], d, kwds)
        BY ONLY PlainInv, <3>1 DEF PlainInv
      <4> QED BY ONLY <3>1, <4>1 DEF Uses
    <3>3. tasks'[t].state = "picking" => d.requires = <<>>
      BY ONLY <2>2, <2>3, <3>2
    <3>4. \A j \in DOMAIN d.randargs : ~ (j < 1)
      BY ONLY <1>1
    <3> QED BY ONLY <2>1, <2>2, <3>3, <3>4 DEF Again
  <2> QED BY ONLY <2>2, <2>3, <2>4, <2>5
<1>5. CASE PickArgument(t)
  <2>1. /\ Turn(t) /\ tasks[t].state = "picking" /\ i \in DOMAIN Rand(c)
        /\ \/ /\ TaskStep(t, {}) /\ tasks'[t].state = "failed"
              /\ Cardinality(Overrides(c, i)) > 1 \/ Values(c, i) = {}
           \/ /\ TaskStep(t, Overrides(c, i)) /\ tasks'[t].state = "picking"
              /\ tasks'[t].next = i + 1
              /\ \E v \in Values(c, i) :
                    Adds(tasks'[t].args, Rand(c)[i].name, v, tasks[t].args)
    BY ONLY LaunchInv, <1>5, t \in DOMAIN tasks, PickStep DEF Adds
  <2>2. /\ i \in DOMAIN d.randargs
        /\ Overrides(c, i) = Left(d.randargs[i], kwds)
        /\ Values(c, i) = Candidates(d.randargs[i], Overrides(c, i), kwds)
    BY ONLY <1>1, <2>1 DEF Overrides, Left, Values
  <2>3. /\ d.requires # <<>> => d.requires[1].name \notin DOMAIN kwds
        /\ \A j \in DOMAIN d.randargs : j < i => Left(d.randargs[j], kwds) = {}
    BY ONLY <1>2, <2>1 DEF Uses
  <2>4. CASE /\ TaskStep(t, {}) /\ tasks'[t].state = "failed"
             /\ Cardinality(Overrides(c, i)) > 1 \/ Values(c, i) = {}
    <3>1. Stuck(d.randargs[i], kwds)
      BY ONLY <2>2, <2>4 DEF Stuck
    <3>2. Settled(d.randargs, kwds)
      BY ONLY <2>2, <2>3, <3>1 DEF Settled
    <3>3. PICK old, new : old = kwds /\ new = calls'[c].kwds
      OBVIOUS
    <3>4. DOMAIN new = DOMAIN old /\ \A k \in DOMAIN new : new[k] = old[k]
      BY ONLY <1>3, <2>4, <3>3
    <3>5. Settled(d.randargs, new)
      BY ONLY <3>2, <3>3, <3>4, SettledSame
    <3>6. Uses(tasks'[t], d, calls'[c].kwds)
      BY ONLY <2>3, <2>4, <3>3, <3>4, <3>5 DEF Uses
    <3>7. Again(tasks'[t], d)
      BY ONLY <2>4 DEF Again
    <3> QED BY ONLY <2>4, <3>6, <3>7
  <2>5. CASE /\ TaskStep(t, Overrides(c, i)) /\ tasks'[t].state = "picking"
             /\ tasks'[t].next = i + 1
             /\ \E v \in Values(c, i) :
                   Adds(tasks'[t].args, Rand(c)[i].name, v, tasks[t].args)
    <3>1. ~First(t) => Overrides(c, i) = {} /\ Values(c, i) = Default(d.randargs[i])
      BY ONLY LaunchInv, KeepsInv, PlainInv, t \in DOMAIN tasks, <1>5, <2>5, DrawsAgain
    <3>2. \A j \in DOMAIN d.randargs : j < i + 1 => j < i \/ j = i
      BY ONLY <1>1, <2>1
    <3>3. ASSUME NEW j \in DOMAIN d.randargs, j < i + 1
          PROVE  Left(d.randargs[j], calls'[c].kwds) = {}
      <4>1. PICK new : new = calls'[c].kwds
        OBVIOUS
      <4>2. DOMAIN new = DOMAIN kwds \ Left(d.randargs[i], kwds)
        BY ONLY <1>3, <2>2, <2>5, <4>1
      <4>3. CASE j = i
        BY ONLY <4>1, <4>2, <4>3 DEF Left
      <4>4. CASE j < i
        <5>1. Left(d.randargs[j], kwds) = {}
          BY ONLY <2>3, <3>3, <4>4
        <5> QED BY ONLY <4>1, <4>2, <5>1 DEF Left
      <4> QED BY ONLY <3>2, <3>3, <4>3, <4>4
    <3>4. Uses(tasks'[t], d, calls'[c].kwds)
      <4>1. DOMAIN calls'[c].kwds = DOMAIN kwds \ Overrides(c, i)
        BY ONLY <1>3, <2>5
      <4> QED BY ONLY <2>3, <2>5, <3>3, <4>1 DEF Uses
    <3>5. ASSUME ~First(t) PROVE Again(tasks'[t], d)
      <4>1. /\ d.requires = <<>>
            /\ \A j \in DOMAIN d.randargs : j < i =>
                  tasks[t].args[d.randargs[j].name] \in Default(d.randargs[j])
        BY ONLY <1>2, <2>1, <3>5 DEF Again
      <4>2. PICK v \in Default(d.randargs[i]) :
              Adds(tasks'[t].args, d.randargs[i].name, v, tasks[t].args)
        BY ONLY <1>1, <2>5, <3>1, <3>5
      <4>3. PICK more, x, args :
              more = tasks'[t].args /\ x = d.randargs[i].name /\ args = tasks[t].args
        OBVIOUS
      <4>4. more[x] = v /\ \A y \in DOMAIN args : y # x => more[y] = args[y]
        <5>1. Adds(more, x, v, args)
          BY ONLY <4>2, <4>3
        <5> QED BY ONLY <5>1 DEF Adds, Over
      <4>5. ASSUME NEW j \in DOMAIN d.randargs, j < i + 1
            PROVE  more[d.randargs[j].name] \in Default(d.randargs[j])
        <5>1. CASE j = i
          BY ONLY <4>2, <4>3, <4>4, <5>1
        <5>2. CASE j < i
          <6>1. j # i
            BY ONLY <1>1, <2>2, <5>2
          <6>2. d.randargs[j].name # x
            BY ONLY <1>1, <2>2, <4>3, <4>5, <6>1
          <6>3. d.randargs[j].name \in DOMAIN args
            BY ONLY <1>2, <2>1, <4>3, <4>5, <5>2 DEF Picked
          <6> QED BY ONLY <4>1, <4>3, <4>4, <4>5, <5>2, <6>2, <6>3
        <5> QED BY ONLY <3>2, <4>5, <5>1, <5>2
      <4> QED BY ONLY <2>5, <4>1, <4>3, <4>5 DEF Again
    <3> QED BY ONLY <2>5, <3>1, <3>4, <3>5
  <2> QED BY ONLY <2>1, <2>4, <2>5
<1>6. CASE Launch(t)
  <2>1. /\ tasks[t].state = "picking" /\ i = Len(Rand(c)) + 1
        /\ TaskStep(t, {}) /\ calls' = calls
        /\ \/ /\ tasks'[t].state = "running"
              /\ tasks'[t].args = Over(kwds, tasks[t].args)
           \/ tasks'[t].state = "failed"
    BY ONLY LaunchInv, <1>6, t \in DOMAIN tasks, LaunchStep
  <2>2. \A j \in DOMAIN d.randargs : j < i
    BY ONLY <1>1, <2>1
  <2>3. /\ d.requires # <<>> => d.requires[1].name \notin DOMAIN kwds
        /\ \A j \in DOMAIN d.randargs : Left(d.randargs[j], kwds) = {}
    BY ONLY <1>2, <2>1, <2>2 DEF Uses
  <2>4. Settled(d.randargs, kwds)
    BY ONLY <2>3 DEF Settled
  <2>5. Uses(tasks'[t], d, calls'[c].kwds)
    BY ONLY <2>1, <2>3, <2>4 DEF Uses
  <2>6. ASSUME ~First(t) PROVE Again(tasks'[t], d)
    <3>1. /\ d.requires = <<>>
          /\ \A j \in DOMAIN d.randargs :
                tasks[t].args[d.randargs[j].name] \in Default(d.randargs[j])
      BY ONLY <1>2, <2>1, <2>2, <2>6 DEF Again
    <3>2. ASSUME NEW j \in DOMAIN d.randargs
          PROVE  Over(kwds, tasks[t].args)[d.randargs[j].name] \in Default(d.randargs[j])
      <4>1. PICK x, args, old : x = d.randargs[j].name /\ args = tasks[t].args /\ old = kwds
        OBVIOUS
      <4>2. x \in DOMAIN args
        BY ONLY <1>2, <2>1, <2>2, <3>2, <4>1 DEF Picked
      <4>3. x \notin DOMAIN old
        BY ONLY <2>3, <3>2, <4>1 DEF Left, VarNames
      <4>4. Over(old, args)[x] = args[x]
        BY ONLY <4>2, <4>3 DEF Over
      <4> QED BY ONLY <3>1, <3>2, <4>1, <4>4
    <3> QED BY ONLY <2>1, <3>1, <3>2 DEF Again
  <2> QED BY ONLY <2>1, <2>5, <2>6
<1> QED BY <1>4, <1>5, <1>6

LEMMA PlainStep ==
    ASSUME LaunchInv, KeepsInv, PlainInv, [LaunchNext]_launchVars
    PROVE  PlainInv'
<1>1. LaunchInv' /\ (Quiet \/ \E t \in DOMAIN tasks :
                        TakeComponents(t) \/ PickArgument(t) \/ Launch(t))
  BY ONLY LaunchInv, [LaunchNext]_launchVars, NextLaunch
<1>2. ASSUME NEW u \in DOMAIN tasks
      PROVE  /\ Uses(tasks[u], DeclOf(tasks[u].call), calls[tasks[u].call].kwds)
             /\ ~First(u) => Again(tasks[u], DeclOf(tasks[u].call))
  BY ONLY PlainInv, <1>2 DEF PlainInv
<1>3. ASSUME \A u \in DOMAIN tasks' :
                /\ Uses(tasks'[u], DeclOf(tasks[u].call)', calls'[tasks'[u].call].kwds)
                /\ ~First(u)' => Again(tasks'[u], DeclOf(tasks[u].call)')
      PROVE  PlainInv'
  BY ONLY <1>3 DEF PlainInv
<1>4. ASSUME NEW x, NEW d, NEW kwds, x.state = "new" PROVE Uses(x, d, kwds) /\ Again(x, d)
  BY ONLY <1>4 DEF Uses, Again
<1>5. CASE Quiet
  <2> SUFFICES ASSUME NEW u \in DOMAIN tasks'
               PROVE  /\ Uses(tasks'[u], DeclOf(tasks[u].call)', calls'[tasks'[u].call].kwds)
                      /\ ~First(u)' => Again(tasks'[u], DeclOf(tasks[u].call)')
    BY <1>3
  <2>1. CASE u \notin DOMAIN tasks
    <3>1. tasks'[u].state = "new"
      BY ONLY LaunchInv, <1>1, <1>5, <2>1, u \in DOMAIN tasks', QuietFrame
    <3> QED BY ONLY <1>4, <3>1
  <2>2. CASE u \in DOMAIN tasks
    <3>1. /\ tasks'[u] = tasks[u] /\ First(u)' = First(u)
          /\ calls'[tasks[u].call] = calls[tasks[u].call]
          /\ DeclOf(tasks[u].call)' = DeclOf(tasks[u].call)
      BY ONLY LaunchInv, <1>1, <1>5, <2>2, u \in DOMAIN tasks', QuietFrame
    <3> QED BY ONLY <1>2, <2>2, <3>1
  <2> QED BY ONLY <2>1, <2>2
<1>6. ASSUME NEW t \in DOMAIN tasks, TakeComponents(t) \/ PickArgument(t) \/ Launch(t)
      PROVE  PlainInv'
  <2> DEFINE c == tasks[t].call  d == DeclOf(c)
  <2>1. PICK gone : /\ TaskStep(t, gone)
                    /\ ~First(t) /\ d.requires = <<>> => gone = {}
                    /\ Uses(tasks'[t], d, calls'[c].kwds)
                    /\ ~First(t) => Again(tasks'[t], d)
    BY ONLY LaunchInv, KeepsInv, PlainInv, <1>6, PlainOwn
  <2>2. Turn(t)
    BY ONLY LaunchInv, <1>6, TurnStep
  <2> SUFFICES ASSUME NEW u \in DOMAIN tasks'
               PROVE  /\ Uses(tasks'[u], DeclOf(tasks[u].call)', calls'[tasks'[u].call].kwds)
                      /\ ~First(u)' => Again(tasks'[u], DeclOf(tasks[u].call)')
    BY <1>3
  <2>3. u \in DOMAIN tasks
    BY ONLY <2>1, u \in DOMAIN tasks' DEF TaskStep
  <2>4. /\ tasks'[u].call = tasks[u].call /\ First(u)' = First(u)
        /\ (u # t => tasks'[u] = tasks[u])
        /\ tasks[u].call \in DOMAIN calls
        /\ DeclOf(tasks[u].call)' = DeclOf(tasks[u].call)
    BY ONLY LaunchInv, <1>6, <2>1, <2>3, Frame
  <2>5. CASE u = t
    BY ONLY <2>1, <2>4, <2>5
  <2>6. CASE u # t
    <3>1. /\ tasks[u].state \in {"new", "running", "failed"}
          /\ tasks[u].state # "new" => u < t
      BY ONLY LaunchInv, <1>6, <2>2, <2>3, <2>6, OneTurn
    <3>2. Uses(tasks[u], DeclOf(tasks[u].call), calls'[tasks[u].call].kwds)
      <4>1. CASE tasks[u].state = "new"
        BY ONLY <1>4, <4>1
      <4>2. CASE tasks[u].call # c
        <5>1. calls'[tasks[u].call] = calls[tasks[u].call]
          BY ONLY <2>1, <2>4, <4>2 DEF TaskStep
        <5> QED BY ONLY <1>2, <2>3, <5>1
      <4>3. CASE tasks[u].call = c /\ tasks[u].state # "new"
        <5>1. ~First(t)
          <6>1. DOMAIN tasks = 1 .. Len(tasks) /\ Len(tasks) \in Nat
            BY ONLY LaunchInv, LenProperties DEF LaunchInv, TaskType, IsSeq
          <6>2. u \in 1 .. t - 1
            BY ONLY <1>6, <2>3, <3>1, <4>3, <6>1
          <6> QED BY ONLY <4>3, <6>2 DEF First
        <5>2. PICK old, new : old = calls[c].kwds /\ new = calls'[c].kwds
          OBVIOUS
        <5>3. /\ DOMAIN new = DOMAIN old \ gone
              /\ \A k \in DOMAIN new : new[k] = old[k]
          BY ONLY <2>1, <5>2 DEF TaskStep
        <5>4. Uses(tasks[u], d, old)
          BY ONLY <1>2, <2>3, <4>3, <5>2
        <5>5. tasks[u].state \in {"running", "failed"}
          BY ONLY <3>1, <4>3
        <5>6. d.requires # <<>> => d.requires[1].name \notin DOMAIN new
          BY ONLY <5>3, <5>4, <5>5 DEF Uses
        <5>7. d.requires = <<>> => Settled(d.randargs, new)
          <6>1. ASSUME d.requires = <<>> PROVE Settled(d.randargs, old) /\ DOMAIN new = DOMAIN old
            BY ONLY <2>1, <5>1, <5>3, <5>4, <5>5, <6>1 DEF Uses
          <6> QED BY ONLY <5>3, <6>1, SettledSame
        <5>8. Uses(tasks[u], d, new)
          BY ONLY <5>5, <5>6, <5>7 DEF Uses
        <5> QED BY ONLY <4>3, <5>2, <5>8
      <4> QED BY ONLY <4>1, <4>2, <4>3
    <3>3. ~First(u) => Again(tasks[u], DeclOf(tasks[u].call))
      BY ONLY <1>2, <2>3
    <3> QED BY ONLY <2>4, <2>6, <3>2, <3>3
  <2> QED BY ONLY <2>5, <2>6
<1> QED BY ONLY <1>1, <1>5, <1>6

\* A call that is scheduled again never starts its sequence with components or
\* with an override: RelaunchIsPlain, of the keywords that all the tasks of a
\* call share, whatever the functions are declared with and called with.
THEOREM RelaunchesArePlain == LaunchSpec => []RelaunchIsPlain
<1> DEFINE I == LaunchInv /\ FreshInv /\ KeepsInv /\ PlainInv
<1>1. LaunchInit => I
  <2> SUFFICES ASSUME LaunchInit PROVE I
    OBVIOUS
  <2>1. LaunchInv
    BY InitLaunch
  <2>2. calls = <<>> /\ tasks = <<>> /\ DOMAIN <<>> = {}
    BY EmptySeq DEF LaunchInit
  <2> QED BY ONLY <2>1, <2>2 DEF FreshInv, KeepsInv, PlainInv
<1>2. I /\ [LaunchNext]_launchVars => I'
  BY NextLaunch, FreshStep, KeepsStep, PlainStep
<1>3. I => RelaunchIsPlain
  <2> SUFFICES ASSUME PlainInv, NEW t \in DOMAIN tasks, ~First(t), tasks[t].state = "running"
               PROVE  LET d == decl[FnOf(t)]
                      IN  /\ d.requires = <<>>
                          /\ \A i \in DOMAIN d.randargs :
                                tasks[t].args[d.randargs[i].name] \in Default(d.randargs[i])
    BY DEF RelaunchIsPlain
  <2>1. Again(tasks[t], DeclOf(tasks[t].call))
    BY ONLY PlainInv, t \in DOMAIN tasks, ~First(t) DEF PlainInv
  <2> QED BY ONLY <2>1, tasks[t].state = "running" DEF Again, DeclOf, FnOf
<1> QED BY <1>1, <1>2, <1>3, PTL DEF LaunchSpec
=============================================================================
