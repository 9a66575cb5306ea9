------------------------ MODULE LorieConnectionProofs ------------------------
(***************************************************************************)
(* Type correctness of the connection between the activity and the X       *)
(* server, and what the two sides know of each other's buffers, for any    *)
(* number of connections, buffers and references.                          *)
(***************************************************************************)
EXTENDS LorieConnection, SequenceTheorems, FiniteSetTheorems, TLAPS

USE IdsAssumption, RefsAssumption

--------------------------------------------------------------------------------
(***************************************************************************)
(* What the server's thread can have left to do: lorieRegisterBuffer       *)
(* alone or before LorieBuffer_acquire, lorieUnregisterBuffer and          *)
(* LorieBuffer_release alone or before the new root is registered, or the  *)
(* two halves of accepting a connection.                                   *)
(***************************************************************************)
Accepting(c) == plan = <<Do("accept", c)>>
Greeting     == plan = <<Do("state", root), Do("register", root)>>
Registering(b) ==
  plan \in {<<Do("register", b)>>, <<Do("add", b), Do("list", b)>>, <<Do("list", b)>>}
Presenting(b) ==
  plan \in {<<Do("register", b), Do("acquire", b)>>,
            <<Do("add", b), Do("list", b), Do("acquire", b)>>,
            <<Do("list", b), Do("acquire", b)>>, <<Do("acquire", b)>>}
Dropping(b) ==
  plan \in {<<Do("unregister", b), Do("release", b)>>, <<Do("remove", b), Do("release", b)>>}
Releasing(b) == plan = <<Do("release", b)>>
Resizing(b) ==
  plan \in {<<Do("unregister", b), Do("release", b), Do("register", root)>>,
            <<Do("remove", b), Do("release", b), Do("register", root)>>,
            <<Do("release", b), Do("register", root)>>}

(* Each with the references that its steps rely on. *)
PlanOK ==
  \/ Idle
  \/ \E c \in Conns : Accepting(c)
  \/ Greeting
  \/ \E b \in Buffers : Registering(b) /\ refcount[b] >= 1
  \/ \E b \in Pixmaps : Presenting(b) /\ refcount[b] >= 1 /\ refcount[b] < MaxRefs
  \/ \E b \in Pixmaps : Dropping(b) /\ refcount[b] = 1
  \/ \E b \in Pixmaps : Releasing(b) /\ refcount[b] >= 1
  \/ \E b \in Roots : Resizing(b) /\ b # root /\ refcount[b] = 1

(* A buffer that was never made has no references, the screen has one, and  *)
(* what is sent, or waits to be attached, has some.                         *)
Counted ==
  /\ \A b \in Buffers : b \in fresh => refcount[b] = 0
  /\ refcount[root] = 1 /\ \A b \in Roots : refcount[b] <= 1
  /\ \A c \in Conns : \A i \in 1 .. Len(pipe[c]) :
       pipe[c][i].type = "add" => pipe[c][i].refcount >= 1
  /\ \A b \in added : copied[b] >= 1

Typed == TypeOK /\ PlanOK /\ Counted

--------------------------------------------------------------------------------
(* Short sequences, taken apart and put together. *)
LEMMA Tuples ==
  ASSUME NEW a, NEW b, NEW c
  PROVE  /\ Head(<<a>>) = a /\ Tail(<<a>>) = <<>>
         /\ Head(<<a, b>>) = a /\ Tail(<<a, b>>) = <<b>>
         /\ Head(<<a, b, c>>) = a /\ Tail(<<a, b, c>>) = <<b, c>>
         /\ <<a>> # <<>> /\ <<a, b>> # <<>> /\ <<a, b, c>> # <<>>
OBVIOUS

LEMMA Joined ==
  ASSUME NEW a, NEW b, NEW c
  PROVE  /\ <<>> \o <<>> = <<>> /\ <<>> \o <<a>> = <<a>> /\ <<>> \o <<a, b>> = <<a, b>>
         /\ <<a>> \o <<>> = <<a>> /\ <<a>> \o <<b>> = <<a, b>> /\ <<a>> \o <<b, c>> = <<a, b, c>>
         /\ <<a, b>> \o <<>> = <<a, b>> /\ <<a, b>> \o <<c>> = <<a, b, c>>
<1>1. <<>> \o <<>> = <<>> /\ <<>> \o <<a>> = <<a>> /\ <<>> \o <<a, b>> = <<a, b>>
  OBVIOUS
<1>2. <<a>> \o <<>> = <<a>>
  OBVIOUS
<1> DEFINE S == {a, b, c}
<1>3. <<a>> \o <<b>> = <<a, b>>
  <2>1. <<a>> \in Seq(S) /\ <<b>> \in Seq(S) /\ <<a, b>> \in Seq(S)
    OBVIOUS
  <2>2. /\ <<a>> \o <<b>> \in Seq(S) /\ Len(<<a>> \o <<b>>) = 2
        /\ (<<a>> \o <<b>>)[1] = a /\ (<<a>> \o <<b>>)[2] = b
    BY <2>1, ConcatProperties
  <2>3. \A i \in 1 .. 2 : (<<a>> \o <<b>>)[i] = <<a, b>>[i]
    BY <2>2
  <2> QED
    BY <2>1, <2>2, <2>3, SeqEqual
<1>4. <<a>> \o <<b, c>> = <<a, b, c>>
  <2>1. <<a>> \in Seq(S) /\ <<b, c>> \in Seq(S) /\ <<a, b, c>> \in Seq(S)
    OBVIOUS
  <2>2. /\ <<a>> \o <<b, c>> \in Seq(S) /\ Len(<<a>> \o <<b, c>>) = 3
        /\ (<<a>> \o <<b, c>>)[1] = a /\ (<<a>> \o <<b, c>>)[2] = b
        /\ (<<a>> \o <<b, c>>)[3] = c
    BY <2>1, ConcatProperties
  <2>3. \A i \in 1 .. 3 : (<<a>> \o <<b, c>>)[i] = <<a, b, c>>[i]
    BY <2>2
  <2> QED
    BY <2>1, <2>2, <2>3, SeqEqual
<1>5. <<a, b>> \o <<>> = <<a, b>>
  OBVIOUS
<1>6. <<a, b>> \o <<c>> = <<a, b, c>>
  <2>1. <<a, b>> \in Seq(S) /\ <<c>> \in Seq(S) /\ <<a, b, c>> \in Seq(S)
    OBVIOUS
  <2>2. /\ <<a, b>> \o <<c>> \in Seq(S) /\ Len(<<a, b>> \o <<c>>) = 3
        /\ (<<a, b>> \o <<c>>)[1] = a /\ (<<a, b>> \o <<c>>)[2] = b
        /\ (<<a, b>> \o <<c>>)[3] = c
    BY <2>1, ConcatProperties
  <2>3. \A i \in 1 .. 3 : (<<a, b>> \o <<c>>)[i] = <<a, b, c>>[i]
    BY <2>2
  <2> QED
    BY <2>1, <2>2, <2>3, SeqEqual
<1> QED
  BY <1>1, <1>2, <1>3, <1>4, <1>5, <1>6

LEMMA DoFields ==
  /\ \A op, arg : Do(op, arg).op = op /\ Do(op, arg).arg = arg
  /\ \A c \in Conns : Do("accept", c) \in Steps
  /\ \A b \in Buffers :
       \A op \in {"state", "register", "add", "list", "unregister", "remove", "acquire", "release"} :
         Do(op, b) \in Steps
BY DEF Do, Steps

(* What the first step of a call tells of the rest of it. *)
WhatFollows ==
  /\ Next1.op = "accept" =>
       \E c \in Conns : Accepting(c) /\ Next1 = Do("accept", c) /\ Tail(plan) = <<>>
  /\ Next1.op = "state" =>
       /\ Next1 = Do("state", root) /\ Tail(plan) = <<Do("register", root)>>
  /\ Next1.op = "register" =>
       \E b \in Buffers :
         /\ Next1 = Do("register", b) /\ refcount[b] >= 1
         /\ \/ Tail(plan) = <<>>
            \/ b \in Pixmaps /\ refcount[b] < MaxRefs /\ Tail(plan) = <<Do("acquire", b)>>
  /\ Next1.op = "add" =>
       \E b \in Buffers :
         /\ Next1 = Do("add", b) /\ refcount[b] >= 1
         /\ \/ Tail(plan) = <<Do("list", b)>>
            \/ b \in Pixmaps /\ refcount[b] < MaxRefs /\ Tail(plan) = <<Do("list", b), Do("acquire", b)>>
  /\ Next1.op = "list" =>
       \E b \in Buffers :
         /\ Next1 = Do("list", b) /\ refcount[b] >= 1
         /\ \/ Tail(plan) = <<>>
            \/ b \in Pixmaps /\ refcount[b] < MaxRefs /\ Tail(plan) = <<Do("acquire", b)>>
  /\ Next1.op = "acquire" =>
       \E b \in Pixmaps :
         Next1 = Do("acquire", b) /\ refcount[b] >= 1 /\ refcount[b] < MaxRefs /\ Tail(plan) = <<>>
  /\ \A op \in {"unregister", "remove"} :
       Next1.op = op =>
         \E b \in Buffers :
           /\ Next1 = Do(op, b) /\ refcount[b] = 1 /\ b # root
           /\ \/ b \in Pixmaps /\ Tail(plan) = <<Do("release", b)>>
              \/ b \in Roots /\ Tail(plan) = <<Do("release", b), Do("register", root)>>
  /\ Next1.op = "release" =>
       \E b \in Buffers :
         /\ Next1 = Do("release", b) /\ refcount[b] >= 1 /\ b # root
         /\ \/ b \in Pixmaps /\ Tail(plan) = <<>>
            \/ b \in Roots /\ refcount[b] = 1 /\ Tail(plan) = <<Do("register", root)>>

LEMMA Heads ==
  ASSUME PlanOK, ~Idle, TypeOK PROVE WhatFollows
<1> USE Tuples, DoFields DEF Next1
<1>1. CASE \E c \in Conns : Accepting(c)
  BY <1>1 DEF Accepting, WhatFollows
<1>2. CASE Greeting
  BY <1>2 DEF Greeting, WhatFollows
<1>3. ASSUME NEW b \in Buffers, Registering(b), refcount[b] >= 1
      PROVE  \/ Next1 = Do("register", b) /\ Tail(plan) = <<>>
             \/ Next1 = Do("add", b) /\ Tail(plan) = <<Do("list", b)>>
             \/ Next1 = Do("list", b) /\ Tail(plan) = <<>>
  <2>1. CASE plan = <<Do("register", b)>>
    BY <2>1
  <2>2. CASE plan = <<Do("add", b), Do("list", b)>>
    BY <2>2
  <2>3. CASE plan = <<Do("list", b)>>
    BY <2>3
  <2> QED
    BY <2>1, <2>2, <2>3, <1>3 DEF Registering
<1>4. ASSUME NEW b \in Pixmaps, Presenting(b), refcount[b] >= 1, refcount[b] < MaxRefs
      PROVE  \/ Next1 = Do("register", b) /\ Tail(plan) = <<Do("acquire", b)>>
             \/ Next1 = Do("add", b) /\ Tail(plan) = <<Do("list", b), Do("acquire", b)>>
             \/ Next1 = Do("list", b) /\ Tail(plan) = <<Do("acquire", b)>>
             \/ Next1 = Do("acquire", b) /\ Tail(plan) = <<>>
  <2>1. CASE plan = <<Do("register", b), Do("acquire", b)>>
    BY <2>1
  <2>2. CASE plan = <<Do("add", b), Do("list", b), Do("acquire", b)>>
    BY <2>2
  <2>3. CASE plan = <<Do("list", b), Do("acquire", b)>>
    BY <2>3
  <2>4. CASE plan = <<Do("acquire", b)>>
    BY <2>4
  <2> QED
    BY <2>1, <2>2, <2>3, <2>4, <1>4 DEF Presenting
<1>5. ASSUME NEW b \in Pixmaps, Dropping(b) \/ Releasing(b)
      PROVE  \/ Dropping(b) /\ Next1 \in {Do("unregister", b), Do("remove", b)}
                            /\ Tail(plan) = <<Do("release", b)>>
             \/ Next1 = Do("release", b) /\ Tail(plan) = <<>>
  <2>1. CASE plan = <<Do("unregister", b), Do("release", b)>>
    BY <2>1 DEF Dropping
  <2>2. CASE plan = <<Do("remove", b), Do("release", b)>>
    BY <2>2 DEF Dropping
  <2>3. CASE plan = <<Do("release", b)>>
    BY <2>3
  <2> QED
    BY <2>1, <2>2, <2>3, <1>5 DEF Dropping, Releasing
<1>6. ASSUME NEW b \in Roots, Resizing(b)
      PROVE  \/ Next1 \in {Do("unregister", b), Do("remove", b)}
                /\ Tail(plan) = <<Do("release", b), Do("register", root)>>
             \/ Next1 = Do("release", b) /\ Tail(plan) = <<Do("register", root)>>
  <2>1. CASE plan = <<Do("unregister", b), Do("release", b), Do("register", root)>>
    BY <2>1
  <2>2. CASE plan = <<Do("remove", b), Do("release", b), Do("register", root)>>
    BY <2>2
  <2>3. CASE plan = <<Do("release", b), Do("register", root)>>
    BY <2>3
  <2> QED
    BY <2>1, <2>2, <2>3, <1>6 DEF Resizing
<1>7. Pixmaps \subseteq Buffers /\ Roots \subseteq Buffers /\ \A b \in Pixmaps : b # root
  BY DEF Buffers, TypeOK
<1> HIDE Tuples DEF Next1
<1>8. CASE \E b \in Buffers : Registering(b) /\ refcount[b] >= 1
  BY <1>3, <1>8 DEF WhatFollows
<1>9. CASE \E b \in Pixmaps : Presenting(b) /\ refcount[b] >= 1 /\ refcount[b] < MaxRefs
  BY <1>4, <1>7, <1>9 DEF WhatFollows
<1>10. CASE \E b \in Pixmaps : Dropping(b) /\ refcount[b] = 1
  <2>1. PICK b \in Pixmaps : Dropping(b) /\ refcount[b] = 1
    BY <1>10
  <2> QED
    BY <1>5, <1>7, <2>1 DEF WhatFollows
<1>11. CASE \E b \in Pixmaps : Releasing(b) /\ refcount[b] >= 1
  <2>1. PICK b \in Pixmaps : Releasing(b) /\ refcount[b] >= 1
    BY <1>11
  <2>2. Next1 = Do("release", b) /\ Tail(plan) = <<>>
    BY <2>1, Tuples DEF Releasing, Next1
  <2> QED
    BY <1>7, <2>1, <2>2 DEF WhatFollows
<1>12. CASE \E b \in Roots : Resizing(b) /\ b # root /\ refcount[b] = 1
  BY <1>6, <1>7, <1>12 DEF WhatFollows
<1> QED
  BY <1>1, <1>2, <1>8, <1>9, <1>10, <1>11, <1>12 DEF PlanOK
--------------------------------------------------------------------------------
(***************************************************************************)
(* Type correctness.  First the steps of the server's thread.              *)
(***************************************************************************)
LEMMA ThenTyped ==
  ASSUME TypeOK, ~Idle, NEW steps \in Seq(Steps), Then(steps) PROVE plan' \in Seq(Steps)
<1>1. Tail(plan) \in Seq(Steps)
  BY HeadTailProperties DEF TypeOK, Idle
<1> QED
  BY <1>1, ConcatProperties DEF Then

(* A step that does not send and leaves the reference counts alone. *)
LEMMA QuietTyped ==
  ASSUME Typed, UNCHANGED <<fresh, work, devs, root, refcount, emptying, activity, pipe, sent>>,
         conn_fd' \in Conns \union {None}, clean' \subseteq Conns, registered' \subseteq Buffers,
         plan' \in Seq(Steps), PlanOK'
  PROVE  Typed'
<1>1. TypeOK'
  BY DEF Typed, TypeOK, activity, lists
<1>2. Counted'
  BY DEF Typed, Counted, activity, lists
<1> QED
  BY <1>1, <1>2 DEF Typed

LEMMA AcceptStepTyped ==
  ASSUME Typed, ~Idle, AcceptStep,
         UNCHANGED <<fresh, work, devs, root, emptying, activity>>
  PROVE  Typed' /\ Greeting'
<1>1. TypeOK /\ WhatFollows
  BY Heads DEF Typed
<1>2. PICK c \in Conns : Accepting(c) /\ Next1 = Do("accept", c) /\ Tail(plan) = <<>>
  BY <1>1 DEF WhatFollows, AcceptStep
<1>3. root \in Buffers /\ <<Do("state", root), Do("register", root)>> \in Seq(Steps)
  BY <1>1, DoFields DEF TypeOK, Buffers
<1>4. plan' \in Seq(Steps)
  BY <1>1, <1>3, ThenTyped DEF AcceptStep
<1>5. plan' = <<Do("state", root), Do("register", root)>>
  BY <1>2, Joined DEF AcceptStep, Then
<1>6. Greeting' /\ PlanOK'
  BY <1>5 DEF Greeting, PlanOK
<1>7. conn_fd' = c /\ clean' \subseteq Conns
  BY <1>1, <1>2, DoFields DEF AcceptStep, TypeOK
<1>8. UNCHANGED <<registered, refcount, pipe, sent>> /\ registered \subseteq Buffers
  BY <1>1 DEF AcceptStep, TypeOK
<1> QED
  BY <1>4, <1>6, <1>7, <1>8, QuietTyped

LEMMA CheckRegisterTyped ==
  ASSUME Typed, ~Idle, CheckRegister,
         UNCHANGED <<fresh, work, devs, root, emptying, activity, clean>>
  PROVE  Typed'
<1>1. TypeOK /\ WhatFollows
  BY Heads DEF Typed
<1>2. PICK b \in Buffers :
        /\ Next1 = Do("register", b) /\ refcount[b] >= 1
        /\ \/ Tail(plan) = <<>>
           \/ b \in Pixmaps /\ refcount[b] < MaxRefs /\ Tail(plan) = <<Do("acquire", b)>>
  BY <1>1 DEF WhatFollows, CheckRegister
<1>3. Next1.arg = b
  BY <1>2, DoFields
<1>4. Then(<<>>) \/ Then(<<Do("add", b), Do("list", b)>>)
  BY <1>3 DEF CheckRegister
<1>5. plan' \in Seq(Steps)
  <2>1. <<>> \in Seq(Steps) /\ <<Do("add", b), Do("list", b)>> \in Seq(Steps)
    BY DoFields
  <2> QED
    BY <1>1, <1>4, <2>1, ThenTyped
<1>6. UNCHANGED <<conn_fd, registered, refcount, pipe, sent>>
  BY DEF CheckRegister
<1>7. PlanOK'
  <2>1. CASE Tail(plan) = <<>>
    <3>1. plan' = <<>> \/ plan' = <<Do("add", b), Do("list", b)>>
      BY <1>4, <2>1, Joined DEF Then
    <3>2. Idle' \/ Registering(b)'
      BY <3>1 DEF Idle, Registering
    <3> QED
      BY <1>2, <1>6, <3>2 DEF PlanOK
  <2>2. CASE b \in Pixmaps /\ refcount[b] < MaxRefs /\ Tail(plan) = <<Do("acquire", b)>>
    <3>1. plan' = <<Do("acquire", b)>> \/ plan' = <<Do("add", b), Do("list", b), Do("acquire", b)>>
      BY <1>4, <2>2, Joined DEF Then
    <3>2. Presenting(b)'
      BY <3>1 DEF Presenting
    <3> QED
      BY <1>2, <1>6, <2>2, <3>2 DEF PlanOK
  <2> QED
    BY <1>2, <2>1, <2>2
<1>8. conn_fd \in Conns \union {None} /\ clean \subseteq Conns /\ registered \subseteq Buffers
  BY <1>1 DEF TypeOK
<1> QED
  BY <1>5, <1>6, <1>7, <1>8, QuietTyped

LEMMA AddToListTyped ==
  ASSUME Typed, ~Idle, AddToList,
         UNCHANGED <<fresh, work, devs, root, emptying, activity, clean>>
  PROVE  Typed'
<1>1. TypeOK /\ WhatFollows
  BY Heads DEF Typed
<1>2. PICK b \in Buffers :
        /\ Next1 = Do("list", b) /\ refcount[b] >= 1
        /\ \/ Tail(plan) = <<>>
           \/ b \in Pixmaps /\ refcount[b] < MaxRefs /\ Tail(plan) = <<Do("acquire", b)>>
  BY <1>1 DEF WhatFollows, AddToList
<1>3. registered' = registered \union {b} /\ Then(<<>>) /\ UNCHANGED <<conn_fd, refcount, pipe, sent>>
  BY <1>2, DoFields DEF AddToList
<1>4. plan' \in Seq(Steps)
  <2>1. <<>> \in Seq(Steps)
    OBVIOUS
  <2> QED
    BY <1>1, <1>3, <2>1, ThenTyped
<1>5. PlanOK'
  <2>1. plan' = Tail(plan)
    BY <1>2, <1>3, Joined DEF Then
  <2>2. Idle' \/ (b \in Pixmaps /\ refcount[b] < MaxRefs /\ Presenting(b)')
    BY <1>2, <2>1 DEF Idle, Presenting
  <2> QED
    BY <1>2, <1>3, <2>2 DEF PlanOK
<1>6. conn_fd \in Conns \union {None} /\ clean \subseteq Conns /\ registered' \subseteq Buffers
  BY <1>1, <1>3 DEF TypeOK
<1> QED
  BY <1>3, <1>4, <1>5, <1>6, QuietTyped

LEMMA CheckUnregisterTyped ==
  ASSUME Typed, ~Idle, CheckUnregister,
         UNCHANGED <<fresh, work, devs, root, emptying, activity, clean>>
  PROVE  Typed'
<1>1. TypeOK /\ WhatFollows
  BY Heads DEF Typed
<1>2. PICK b \in Buffers :
        /\ Next1 = Do("unregister", b) /\ refcount[b] = 1 /\ b # root
        /\ \/ b \in Pixmaps /\ Tail(plan) = <<Do("release", b)>>
           \/ b \in Roots /\ Tail(plan) = <<Do("release", b), Do("register", root)>>
  BY <1>1 DEF WhatFollows, CheckUnregister
<1>3. Then(<<>>) \/ Then(<<Do("remove", b)>>)
  BY <1>2, DoFields DEF CheckUnregister
<1>4. plan' \in Seq(Steps)
  <2>1. <<>> \in Seq(Steps) /\ <<Do("remove", b)>> \in Seq(Steps)
    BY DoFields
  <2> QED
    BY <1>1, <1>3, <2>1, ThenTyped
<1>5. UNCHANGED <<conn_fd, registered, refcount, pipe, sent>>
  BY DEF CheckUnregister
<1>6. PlanOK'
  <2>1. CASE b \in Pixmaps /\ Tail(plan) = <<Do("release", b)>>
    <3>1. plan' = <<Do("release", b)>> \/ plan' = <<Do("remove", b), Do("release", b)>>
      BY <1>3, <2>1, Joined DEF Then
    <3>2. Releasing(b)' \/ Dropping(b)'
      BY <3>1 DEF Releasing, Dropping
    <3>3. refcount'[b] = 1 /\ refcount'[b] >= 1
      BY <1>2, <1>5
    <3> QED
      BY <2>1, <3>2, <3>3 DEF PlanOK
  <2>2. CASE b \in Roots /\ Tail(plan) = <<Do("release", b), Do("register", root)>>
    <3>1. \/ plan' = <<Do("release", b), Do("register", root)>>
          \/ plan' = <<Do("remove", b), Do("release", b), Do("register", root)>>
      <4>1. /\ <<>> \o Tail(plan) = <<Do("release", b), Do("register", root)>>
            /\ <<Do("remove", b)>> \o Tail(plan)
                 = <<Do("remove", b), Do("release", b), Do("register", root)>>
        BY <2>2, Joined
      <4> QED
        BY <1>3, <4>1 DEF Then
    <3>2. Resizing(b)'
      BY <3>1 DEF Resizing
    <3> QED
      BY <1>2, <1>5, <2>2, <3>2 DEF PlanOK
  <2> QED
    BY <1>2, <2>1, <2>2
<1>7. conn_fd \in Conns \union {None} /\ clean \subseteq Conns /\ registered \subseteq Buffers
  BY <1>1 DEF TypeOK
<1> QED
  BY <1>4, <1>5, <1>6, <1>7, QuietTyped

(* What is sent joins the queue of the connection in use, or is lost. *)
LEMMA SendEffect ==
  ASSUME TypeOK, NEW msg \in Messages, Send(msg)
  PROVE  \/ UNCHANGED <<pipe, sent>>
         \/ /\ conn_fd \in Conns \ closed
            /\ pipe' = [pipe EXCEPT ![conn_fd] = Append(pipe[conn_fd], msg)]
            /\ Len(pipe'[conn_fd]) = Len(pipe[conn_fd]) + 1
            /\ pipe'[conn_fd][Len(pipe[conn_fd]) + 1] = msg
            /\ \A i \in 1 .. Len(pipe[conn_fd]) : pipe'[conn_fd][i] = pipe[conn_fd][i]
            /\ \A c \in Conns \ {conn_fd} : pipe'[c] = pipe[c]
            /\ sent' = IF msg.type = "add"
                         THEN [sent EXCEPT ![conn_fd] = sent[conn_fd] \union {msg.buffer}] ELSE sent
<1>1. CASE conn_fd # None /\ conn_fd \notin closed
  <2>1. /\ pipe' = [pipe EXCEPT ![conn_fd] = Append(pipe[conn_fd], msg)]
        /\ sent' = IF msg.type = "add"
                     THEN [sent EXCEPT ![conn_fd] = sent[conn_fd] \union {msg.buffer}] ELSE sent
    BY <1>1 DEF Send
  <2>2. conn_fd \in Conns \ closed
    BY <1>1 DEF TypeOK
  <2>3. pipe[conn_fd] \in Seq(Messages)
    BY <2>2 DEF TypeOK
  <2>4. pipe'[conn_fd] = Append(pipe[conn_fd], msg) /\ \A c \in Conns \ {conn_fd} : pipe'[c] = pipe[c]
    BY <2>1, <2>2 DEF TypeOK
  <2> QED
    BY <2>1, <2>2, <2>3, <2>4, AppendProperties
<1>2. CASE ~(conn_fd # None /\ conn_fd \notin closed)
  BY <1>2 DEF Send
<1> QED
  BY <1>1, <1>2

LEMMA MsgTyped ==
  ASSUME TypeOK, NEW b \in Buffers, NEW type \in {"state", "add", "remove"}
  PROVE  /\ Msg(type, b) \in Messages /\ Msg(type, b).type = type
         /\ Msg(type, b).buffer = b /\ Msg(type, b).refcount = refcount[b]
<1>1. refcount[b] \in 0 .. MaxRefs
  BY DEF TypeOK
<1> QED
  BY <1>1 DEF Msg, Messages

LEMMA SendTyped ==
  ASSUME TypeOK, Counted, NEW msg \in Messages, msg.type = "add" => msg.refcount >= 1, Send(msg)
  PROVE  /\ pipe' \in [Conns -> Seq(Messages)] /\ sent' \in [Conns -> SUBSET Buffers]
         /\ \A c \in Conns : \A i \in 1 .. Len(pipe'[c]) :
              pipe'[c][i].type = "add" => pipe'[c][i].refcount >= 1
<1>1. pipe \in [Conns -> Seq(Messages)] /\ sent \in [Conns -> SUBSET Buffers]
  BY DEF TypeOK
<1>2. CASE UNCHANGED <<pipe, sent>>
  BY <1>1, <1>2 DEF Counted
<1>3. CASE ~UNCHANGED <<pipe, sent>>
  <2>1. /\ conn_fd \in Conns \ closed
        /\ pipe' = [pipe EXCEPT ![conn_fd] = Append(pipe[conn_fd], msg)]
        /\ Len(pipe'[conn_fd]) = Len(pipe[conn_fd]) + 1
        /\ pipe'[conn_fd][Len(pipe[conn_fd]) + 1] = msg
        /\ \A i \in 1 .. Len(pipe[conn_fd]) : pipe'[conn_fd][i] = pipe[conn_fd][i]
        /\ \A c \in Conns \ {conn_fd} : pipe'[c] = pipe[c]
        /\ sent' = IF msg.type = "add"
                     THEN [sent EXCEPT ![conn_fd] = sent[conn_fd] \union {msg.buffer}] ELSE sent
    BY <1>3, SendEffect
  <2>2. Append(pipe[conn_fd], msg) \in Seq(Messages)
    BY <1>1, <2>1, AppendProperties
  <2>3. pipe' \in [Conns -> Seq(Messages)]
    BY <1>1, <2>1, <2>2
  <2>4. msg.buffer \in Buffers
    BY DEF Messages
  <2>5. sent' \in [Conns -> SUBSET Buffers]
    BY <1>1, <2>1, <2>4
  <2>6. ASSUME NEW c \in Conns, NEW i \in 1 .. Len(pipe'[c]), pipe'[c][i].type = "add"
        PROVE  pipe'[c][i].refcount >= 1
    <3>1. CASE c # conn_fd
      BY <2>1, <2>6, <3>1 DEF Counted
    <3>2. CASE c = conn_fd
      <4>1. Len(pipe[c]) \in Nat
        BY <1>1
      <4>2. i \in 1 .. Len(pipe[c]) \/ i = Len(pipe[c]) + 1
        BY <2>1, <3>2, <4>1
      <4> QED
        BY <2>1, <2>6, <3>2, <4>2 DEF Counted
    <3> QED
      BY <3>1, <3>2
  <2> QED
    BY <2>3, <2>5, <2>6
<1> QED
  BY <1>2, <1>3

(* A step that may send and leaves the reference counts alone. *)
LEMMA LoudTyped ==
  ASSUME Typed, NEW msg \in Messages, msg.type = "add" => msg.refcount >= 1, Send(msg),
         UNCHANGED <<fresh, work, devs, root, refcount, emptying, activity, conn_fd, clean>>,
         registered' \subseteq Buffers, plan' \in Seq(Steps), PlanOK'
  PROVE  Typed'
<1>1. /\ pipe' \in [Conns -> Seq(Messages)] /\ sent' \in [Conns -> SUBSET Buffers]
      /\ \A c \in Conns : \A i \in 1 .. Len(pipe'[c]) :
           pipe'[c][i].type = "add" => pipe'[c][i].refcount >= 1
  BY SendTyped DEF Typed
<1>2. TypeOK'
  BY <1>1 DEF Typed, TypeOK, activity, lists
<1>3. Counted'
  BY <1>1 DEF Typed, Counted, activity, lists
<1> QED
  BY <1>2, <1>3 DEF Typed

LEMMA SendStateTyped ==
  ASSUME Typed, ~Idle, SendState,
         UNCHANGED <<fresh, work, devs, root, emptying, activity, clean>>
  PROVE  Typed'
<1>1. TypeOK /\ WhatFollows /\ root \in Buffers /\ Counted
  BY Heads DEF Typed, TypeOK, Buffers
<1>2. Next1 = Do("state", root) /\ Tail(plan) = <<Do("register", root)>>
  BY <1>1 DEF WhatFollows, SendState
<1>3. /\ Send(Msg("state", root)) /\ Then(<<>>) /\ UNCHANGED <<conn_fd, registered, refcount>>
  BY <1>2, DoFields DEF SendState
<1>4. plan' \in Seq(Steps)
  <2>1. <<>> \in Seq(Steps)
    OBVIOUS
  <2> QED
    BY <1>1, <1>3, <2>1, ThenTyped
<1>5. PlanOK'
  <2>1. plan' = <<Do("register", root)>>
    BY <1>2, <1>3, Joined DEF Then
  <2>2. Registering(root)' /\ refcount[root] >= 1
    BY <1>1, <2>1 DEF Registering, Counted
  <2> QED
    BY <1>1, <1>3, <2>2 DEF PlanOK
<1>6. Msg("state", root) \in Messages /\ Msg("state", root).type # "add" /\ registered \subseteq Buffers
  BY <1>1, MsgTyped DEF TypeOK
<1> QED
  BY <1>3, <1>4, <1>5, <1>6, LoudTyped

LEMMA SendAddTyped ==
  ASSUME Typed, ~Idle, SendAdd,
         UNCHANGED <<fresh, work, devs, root, emptying, activity, clean>>
  PROVE  Typed'
<1>1. TypeOK /\ WhatFollows /\ Counted
  BY Heads DEF Typed
<1>2. PICK b \in Buffers :
        /\ Next1 = Do("add", b) /\ refcount[b] >= 1
        /\ \/ Tail(plan) = <<Do("list", b)>>
           \/ b \in Pixmaps /\ refcount[b] < MaxRefs /\ Tail(plan) = <<Do("list", b), Do("acquire", b)>>
  BY <1>1 DEF WhatFollows, SendAdd
<1>3. /\ UNCHANGED <<conn_fd, registered, refcount>> /\ registered \subseteq Buffers
      /\ conn_fd \in Conns \union {None} /\ clean \subseteq Conns
  BY <1>1 DEF SendAdd, TypeOK
<1>4. CASE conn_fd = None
  <2>1. plan' = Tail(Tail(plan)) /\ UNCHANGED <<pipe, sent>>
    BY <1>4 DEF SendAdd
  <2>2. \/ plan' = <<>>
        \/ b \in Pixmaps /\ refcount[b] < MaxRefs /\ plan' = <<Do("acquire", b)>>
    <3>1. /\ Tail(<<Do("list", b)>>) = <<>>
          /\ Tail(<<Do("list", b), Do("acquire", b)>>) = <<Do("acquire", b)>>
      BY Tuples
    <3> QED
      BY <1>2, <2>1, <3>1
  <2>3. PlanOK'
    BY <1>2, <1>3, <2>2 DEF PlanOK, Idle, Presenting
  <2>4. <<Do("acquire", b)>> \in Seq(Steps) /\ <<>> \in Seq(Steps)
    BY DoFields
  <2>5. plan' \in Seq(Steps)
    BY <2>2, <2>4
  <2> QED
    BY <1>3, <2>1, <2>3, <2>5, QuietTyped
<1>5. CASE conn_fd # None
  <2>1. Send(Msg("add", b)) /\ Then(<<>>)
    BY <1>2, <1>5, DoFields DEF SendAdd
  <2>2. plan' \in Seq(Steps)
    <3>1. <<>> \in Seq(Steps)
      OBVIOUS
    <3> QED
      BY <1>1, <2>1, <3>1, ThenTyped
  <2>3. plan' = Tail(plan)
    BY <1>2, <2>1, Joined DEF Then
  <2>4. PlanOK'
    BY <1>2, <1>3, <2>3 DEF PlanOK, Registering, Presenting
  <2>5. Msg("add", b) \in Messages /\ Msg("add", b).refcount >= 1
    BY <1>1, <1>2, MsgTyped
  <2> QED
    BY <1>3, <2>1, <2>2, <2>4, <2>5, LoudTyped
<1> QED
  BY <1>4, <1>5

LEMMA SendRemoveTyped ==
  ASSUME Typed, ~Idle, SendRemove,
         UNCHANGED <<fresh, work, devs, root, emptying, activity, clean>>
  PROVE  Typed'
<1>1. TypeOK /\ WhatFollows /\ Counted
  BY Heads DEF Typed
<1>2. PICK b \in Buffers :
        /\ Next1 = Do("remove", b) /\ refcount[b] = 1 /\ b # root
        /\ \/ b \in Pixmaps /\ Tail(plan) = <<Do("release", b)>>
           \/ b \in Roots /\ Tail(plan) = <<Do("release", b), Do("register", root)>>
  BY <1>1 DEF WhatFollows, SendRemove
<1>3. Then(<<>>) /\ UNCHANGED <<conn_fd, refcount>>
  BY DEF SendRemove
<1>4. plan' \in Seq(Steps)
  <2>1. <<>> \in Seq(Steps)
    OBVIOUS
  <2> QED
    BY <1>1, <1>3, <2>1, ThenTyped
<1>5. plan' = Tail(plan)
  BY <1>2, <1>3, Joined DEF Then
<1>6. PlanOK'
  <2>1. \/ b \in Pixmaps /\ Releasing(b)'
        \/ b \in Roots /\ Resizing(b)'
    BY <1>2, <1>5 DEF Releasing, Resizing
  <2> QED
    BY <1>2, <1>3, <2>1 DEF PlanOK
<1>7. registered \subseteq Buffers /\ conn_fd \in Conns \union {None} /\ clean \subseteq Conns
  BY <1>1 DEF TypeOK
<1>8. CASE conn_fd = None
  BY <1>3, <1>4, <1>6, <1>7, <1>8, QuietTyped DEF SendRemove
<1>9. CASE conn_fd # None
  <2>1. Send(Msg("remove", b)) /\ registered' = registered \ {b}
    BY <1>2, <1>9, DoFields DEF SendRemove
  <2>2. Msg("remove", b) \in Messages /\ Msg("remove", b).type # "add" /\ registered' \subseteq Buffers
    BY <1>1, <1>7, <2>1, MsgTyped
  <2> QED
    BY <1>3, <1>4, <1>6, <2>1, <2>2, LoudTyped
<1> QED
  BY <1>8, <1>9

LEMMA AcquireTyped ==
  ASSUME Typed, ~Idle, Acquire,
         UNCHANGED <<fresh, work, devs, root, emptying, activity, clean>>
  PROVE  Typed'
<1>1. TypeOK /\ WhatFollows /\ Counted
  BY Heads DEF Typed
<1>2. PICK b \in Pixmaps :
        Next1 = Do("acquire", b) /\ refcount[b] >= 1 /\ refcount[b] < MaxRefs /\ Tail(plan) = <<>>
  BY <1>1 DEF WhatFollows, Acquire
<1>3. /\ refcount' = [refcount EXCEPT ![b] = refcount[b] + 1]
      /\ Then(<<>>) /\ UNCHANGED <<conn_fd, registered, pipe, sent>>
  BY <1>2, DoFields DEF Acquire
<1>4. plan' = <<>>
  BY <1>2, <1>3, Joined DEF Then
<1>5. b \in Buffers /\ b \notin Roots
  BY DEF Buffers
<1>6. refcount' \in [Buffers -> 0 .. MaxRefs]
  BY <1>1, <1>2, <1>3, <1>5 DEF TypeOK
<1>7. TypeOK'
  BY <1>1, <1>3, <1>4, <1>6 DEF TypeOK, activity, lists
<1>8. \A y \in Buffers : y # b => refcount'[y] = refcount[y]
  BY <1>1, <1>3 DEF TypeOK
<1>9. b \notin fresh
  BY <1>1, <1>2, <1>5 DEF Counted
<1>10. root \in Roots /\ Roots \subseteq Buffers
  BY <1>1 DEF TypeOK, Buffers
<1>11. Counted'
  BY <1>1, <1>3, <1>5, <1>8, <1>9, <1>10 DEF Counted, activity, lists
<1> QED
  BY <1>4, <1>7, <1>11 DEF Typed, PlanOK, Idle

LEMMA ReleaseTyped ==
  ASSUME Typed, ~Idle, Release,
         UNCHANGED <<fresh, work, devs, root, emptying, activity, clean>>
  PROVE  Typed'
<1>1. TypeOK /\ WhatFollows /\ Counted
  BY Heads DEF Typed
<1>2. PICK b \in Buffers :
        /\ Next1 = Do("release", b) /\ refcount[b] >= 1 /\ b # root
        /\ \/ b \in Pixmaps /\ Tail(plan) = <<>>
           \/ b \in Roots /\ refcount[b] = 1 /\ Tail(plan) = <<Do("register", root)>>
  BY <1>1 DEF WhatFollows, Release
<1>3. /\ refcount' = [refcount EXCEPT ![b] = refcount[b] - 1] /\ Then(<<>>)
      /\ registered' \subseteq registered /\ UNCHANGED <<conn_fd, pipe, sent>>
  BY <1>2, DoFields DEF Release
<1>4. plan' = Tail(plan)
  BY <1>2, <1>3, Joined DEF Then
<1>5. plan' \in Seq(Steps)
  <2>1. <<>> \in Seq(Steps)
    OBVIOUS
  <2> QED
    BY <1>1, <1>3, <2>1, ThenTyped
<1>6. refcount[b] \in 0 .. MaxRefs /\ refcount[b] - 1 \in 0 .. MaxRefs
  BY <1>1, <1>2 DEF TypeOK
<1>7. refcount' \in [Buffers -> 0 .. MaxRefs]
  BY <1>1, <1>3, <1>6 DEF TypeOK
<1>8. TypeOK'
  BY <1>1, <1>3, <1>5, <1>7 DEF TypeOK, activity, lists
<1>9. /\ \A y \in Buffers : y # b => refcount'[y] = refcount[y]
      /\ refcount'[b] = refcount[b] - 1
  BY <1>1, <1>3 DEF TypeOK
<1>10. root \in Roots /\ Roots \subseteq Buffers /\ b \notin fresh
  BY <1>1, <1>2 DEF TypeOK, Buffers, Counted
<1>11. Counted'
  <2>1. /\ \A y \in Buffers : y \in fresh' => refcount'[y] = 0
        /\ refcount'[root'] = 1 /\ \A y \in Roots : refcount'[y] <= 1
    BY <1>1, <1>2, <1>6, <1>9, <1>10 DEF Counted
  <2> QED
    BY <1>1, <1>3, <2>1 DEF Counted, activity, lists
<1>12. PlanOK'
  <2>1. CASE Tail(plan) = <<>>
    BY <1>4, <2>1 DEF PlanOK, Idle
  <2>2. CASE Tail(plan) = <<Do("register", root)>>
    <3>1. Registering(root)'
      BY <1>4, <2>2 DEF Registering
    <3>2. refcount'[root] >= 1 /\ root \in Buffers
      BY <1>10, <1>11 DEF Counted
    <3> QED
      BY <3>1, <3>2 DEF PlanOK
  <2> QED
    BY <1>2, <2>1, <2>2
<1> QED
  BY <1>8, <1>11, <1>12 DEF Typed

LEMMA ServerStepTyped ==
  ASSUME Typed, ServerStep PROVE Typed'
BY AcceptStepTyped, SendStateTyped, CheckRegisterTyped, SendAddTyped, AddToListTyped,
   CheckUnregisterTyped, SendRemoveTyped, AcquireTyped, ReleaseTyped DEF ServerStep

(* The calls: each plans a form that its guard's references allow. *)
LEMMA CallTyped ==
  ASSUME Typed, PlanOK', plan' \in Seq(Steps), UNCHANGED <<fresh, refcount, root>>,
         UNCHANGED <<work, conn_fd, devs, registered, emptying, pipe, sent, clean, activity>>
  PROVE  Typed'
<1>1. conn_fd \in Conns \union {None} /\ clean \subseteq Conns /\ registered \subseteq Buffers
  BY DEF Typed, TypeOK
<1> QED
  BY <1>1, QuietTyped

LEMMA BeginTyped ==
  ASSUME Typed, NEW b \in fresh \cap Buffers, Begin(b)
  PROVE  /\ fresh' \subseteq Conns \union Buffers /\ refcount' \in [Buffers -> 0 .. MaxRefs]
         /\ refcount[b] = 0 /\ refcount'[b] = 1
         /\ \A y \in Buffers : y # b => refcount'[y] = refcount[y]
         /\ \A y \in Buffers : y \in fresh' => refcount'[y] = 0
         /\ b # root
<1>1. TypeOK /\ Counted /\ root \in Buffers
  BY DEF Typed, TypeOK, Buffers
<1>2. refcount' = [refcount EXCEPT ![b] = 1] /\ fresh' = fresh \ {b}
  BY DEF Begin
<1>3. refcount[b] = 0 /\ b # root
  BY <1>1 DEF Counted
<1>4. refcount' \in [Buffers -> 0 .. MaxRefs]
  BY <1>1, <1>2 DEF TypeOK
<1>5. refcount'[b] = 1 /\ \A y \in Buffers : y # b => refcount'[y] = refcount[y]
  BY <1>1, <1>2 DEF TypeOK
<1>6. \A y \in Buffers : y \in fresh' => refcount'[y] = 0
  BY <1>1, <1>2, <1>5 DEF Counted
<1> QED
  BY <1>1, <1>2, <1>3, <1>4, <1>5, <1>6 DEF TypeOK

LEMMA SetSizeTyped ==
  ASSUME Typed, NEW b \in Roots, SetSize(b),
         UNCHANGED <<work, conn_fd, devs, registered, emptying, pipe, sent, clean, activity>>
  PROVE  Typed'
<1>1. TypeOK /\ Counted /\ root \in Roots /\ root \in Buffers /\ b \in Buffers
  BY DEF Typed, TypeOK, Buffers
<1>2. /\ b \in fresh \cap Buffers /\ Begin(b) /\ root' = b /\ Idle
      /\ plan' = <<Do("unregister", root), Do("release", root), Do("register", b)>>
  BY <1>1 DEF SetSize, Call
<1>3. /\ fresh' \subseteq Conns \union Buffers /\ refcount' \in [Buffers -> 0 .. MaxRefs]
      /\ refcount[b] = 0 /\ refcount'[b] = 1
      /\ \A y \in Buffers : y # b => refcount'[y] = refcount[y]
      /\ \A y \in Buffers : y \in fresh' => refcount'[y] = 0
      /\ b # root
  BY <1>2, BeginTyped
<1>4. plan' \in Seq(Steps)
  BY <1>1, <1>2, DoFields
<1>5. TypeOK'
  BY <1>1, <1>2, <1>3, <1>4 DEF TypeOK, activity, lists
<1>6. Counted'
  <2>1. refcount'[root'] = 1 /\ \A y \in Roots : refcount'[y] <= 1
    BY <1>1, <1>2, <1>3 DEF Counted, Buffers
  <2> QED
    BY <1>1, <1>3, <2>1 DEF Counted, activity, lists
<1>7. PICK r \in Roots : r = root
  BY <1>1
<1>8. Resizing(r)' /\ refcount'[r] = 1 /\ r # root'
  <2>1. plan' = <<Do("unregister", r), Do("release", r), Do("register", root')>>
    BY <1>2, <1>7
  <2>2. refcount'[r] = 1 /\ r # root'
    BY <1>1, <1>2, <1>3, <1>7 DEF Counted
  <2> QED
    BY <2>1, <2>2 DEF Resizing
<1>9. PlanOK'
  BY <1>8 DEF PlanOK
<1> QED
  BY <1>5, <1>6, <1>9 DEF Typed

LEMMA PixmapCallTyped ==
  ASSUME Typed, NEW b \in Pixmaps,
         CreatePixmap(b) \/ Flip(b) \/ SchedulePresent(b) \/ AckPresent(b) \/ DestroyPixmap(b),
         UNCHANGED <<work, conn_fd, devs, registered, emptying, pipe, sent, clean, activity>>
  PROVE  Typed'
<1>1. TypeOK /\ Counted /\ root \in Roots /\ b \in Buffers /\ b \notin Roots /\ Roots \subseteq Buffers
  BY DEF Typed, TypeOK, Buffers
<1>2. refcount[b] \in 0 .. MaxRefs
  BY <1>1 DEF TypeOK
<1>3. CASE CreatePixmap(b)
  <2>1. b \in fresh \cap Buffers /\ Begin(b) /\ plan' = <<>> /\ UNCHANGED root
    BY <1>1, <1>3 DEF CreatePixmap, Call
  <2>2. /\ fresh' \subseteq Conns \union Buffers /\ refcount' \in [Buffers -> 0 .. MaxRefs]
        /\ \A y \in Buffers : y # b => refcount'[y] = refcount[y]
        /\ \A y \in Buffers : y \in fresh' => refcount'[y] = 0
        /\ b # root
    BY <2>1, BeginTyped
  <2>3. TypeOK'
    <3>1. plan' \in Seq(Steps) /\ root' \in Roots
      BY <1>1, <2>1
    <3> QED
      BY <1>1, <2>2, <3>1 DEF TypeOK, activity, lists
  <2>4. Counted'
    <3>1. refcount'[root'] = 1 /\ \A y \in Roots : refcount'[y] <= 1
      BY <1>1, <2>1, <2>2 DEF Counted
    <3> QED
      BY <1>1, <2>2, <3>1 DEF Counted, activity, lists
  <2> QED
    BY <2>1, <2>3, <2>4 DEF Typed, PlanOK, Idle
<1>4. CASE Flip(b)
  <2>1. /\ refcount[b] > 0 /\ plan' = <<Do("register", b)>> /\ UNCHANGED <<fresh, refcount, root>>
    BY <1>4 DEF Flip, Call
  <2>2. plan' \in Seq(Steps)
    BY <1>1, <2>1, DoFields
  <2>3. Registering(b)' /\ refcount'[b] >= 1
    BY <1>2, <2>1 DEF Registering
  <2>4. PlanOK'
    BY <1>1, <2>3 DEF PlanOK
  <2> QED
    BY <2>1, <2>2, <2>4, CallTyped
<1>5. CASE SchedulePresent(b)
  <2>1. /\ refcount[b] \in 1 .. MaxRefs - 1 /\ plan' = <<Do("register", b), Do("acquire", b)>>
        /\ UNCHANGED <<fresh, refcount, root>>
    BY <1>5 DEF SchedulePresent, Call
  <2>2. plan' \in Seq(Steps)
    BY <1>1, <2>1, DoFields
  <2>3. Presenting(b)' /\ refcount'[b] >= 1 /\ refcount'[b] < MaxRefs
    BY <1>2, <2>1 DEF Presenting
  <2>4. PlanOK'
    BY <2>3 DEF PlanOK
  <2> QED
    BY <2>1, <2>2, <2>4, CallTyped
<1>6. CASE AckPresent(b)
  <2>1. /\ refcount[b] > 1 /\ plan' = <<Do("release", b)>> /\ UNCHANGED <<fresh, refcount, root>>
    BY <1>6 DEF AckPresent, Call
  <2>2. plan' \in Seq(Steps)
    BY <1>1, <2>1, DoFields
  <2>3. Releasing(b)' /\ refcount'[b] >= 1
    BY <1>2, <2>1 DEF Releasing
  <2>4. PlanOK'
    BY <2>3 DEF PlanOK
  <2> QED
    BY <2>1, <2>2, <2>4, CallTyped
<1>7. CASE DestroyPixmap(b)
  <2>1. /\ refcount[b] = 1 /\ plan' = <<Do("unregister", b), Do("release", b)>>
        /\ UNCHANGED <<fresh, refcount, root>>
    BY <1>7 DEF DestroyPixmap, Call
  <2>2. plan' \in Seq(Steps)
    BY <1>1, <2>1, DoFields
  <2>3. Dropping(b)' /\ refcount'[b] = 1
    BY <2>1 DEF Dropping
  <2>4. PlanOK'
    BY <2>3 DEF PlanOK
  <2> QED
    BY <2>1, <2>2, <2>4, CallTyped
<1> QED
  BY <1>3, <1>4, <1>5, <1>6, <1>7

LEMMA ServerCallTyped ==
  ASSUME Typed, ServerCall PROVE Typed'
BY SetSizeTyped, PixmapCallTyped DEF ServerCall

--------------------------------------------------------------------------------
(* The binder thread, the input thread and the start of accepting. *)

LEMMA PlanOKSame ==
  ASSUME PlanOK, UNCHANGED <<plan, root, refcount>> PROVE PlanOK'
BY DEF PlanOK, Idle, Accepting, Greeting, Registering, Presenting, Dropping, Releasing, Resizing

LEMMA GetXConnectionTyped ==
  ASSUME Typed, NEW c \in Conns, GetXConnection(c) PROVE Typed'
<1>1. work' \in Seq(Conns)
  BY DEF GetXConnection, Typed, TypeOK
<1>2. UNCHANGED <<plan, root, refcount, pipe, added, copied>> /\ fresh' \subseteq fresh
  BY DEF GetXConnection, lists
<1>3. PlanOK'
  BY <1>2, PlanOKSame DEF Typed
<1>4. Counted'
  BY <1>2 DEF Typed, Counted
<1>5. TypeOK'
  BY <1>1 DEF GetXConnection, Typed, TypeOK, lists
<1> QED
  BY <1>3, <1>4, <1>5 DEF Typed

LEMMA RegisterDevTyped ==
  ASSUME Typed, RegisterDev PROVE Typed'
<1>1. work \in Seq(Conns) /\ work # <<>>
  BY DEF RegisterDev, Typed, TypeOK
<1>2. Head(work) \in Conns /\ work' \in Seq(Conns)
  BY <1>1, HeadTailProperties DEF RegisterDev
<1>3. plan' = <<Do("accept", Head(work))>> /\ plan' \in Seq(Steps)
  BY <1>2, DoFields DEF RegisterDev
<1>4. PlanOK'
  BY <1>2, <1>3 DEF PlanOK, Accepting
<1>5. UNCHANGED <<fresh, root, refcount, pipe, added, copied>>
  BY DEF RegisterDev, activity, lists
<1>6. Counted'
  BY <1>5 DEF Typed, Counted
<1>7. TypeOK'
  BY <1>2, <1>3 DEF RegisterDev, Typed, TypeOK, activity, lists
<1> QED
  BY <1>4, <1>6, <1>7 DEF Typed

LEMMA InputThreadTyped ==
  ASSUME Typed, (\E c \in Conns : Broken(c)) \/ EmptyList PROVE Typed'
<1>1. UNCHANGED <<fresh, plan, root, refcount, pipe, added, copied>>
  BY DEF Broken, EmptyList, activity, lists
<1>2. PlanOK' /\ Counted'
  BY <1>1, PlanOKSame DEF Typed, Counted
<1>3. TypeOK'
  <2>1. CASE \E c \in Conns : Broken(c)
    BY <2>1 DEF Broken, Typed, TypeOK, activity, lists
  <2>2. CASE EmptyList
    BY <2>2 DEF EmptyList, Typed, TypeOK, activity, lists
  <2> QED
    BY <2>1, <2>2
<1> QED
  BY <1>2, <1>3 DEF Typed

--------------------------------------------------------------------------------
(* The activity's side. *)

(* Closing the activity's end. *)
LEMMA CloseEffect ==
  ASSUME TypeOK, connFd # None, CloseEnd
  PROVE  /\ connFd \in Conns /\ closed' = closed \union {connFd}
         /\ pipe' \in [Conns -> Seq(Messages)]
         /\ \A c \in Conns : pipe'[c] = IF c = connFd THEN <<>> ELSE pipe[c]
<1>1. connFd \in Conns
  BY DEF TypeOK
<1>2. pipe' = [pipe EXCEPT ![connFd] = <<>>] /\ closed' = closed \union {connFd}
  BY DEF CloseEnd
<1>3. pipe' \in [Conns -> Seq(Messages)]
  BY <1>1, <1>2 DEF TypeOK
<1> QED
  BY <1>1, <1>2, <1>3 DEF TypeOK

LEMMA LeaveTyped ==
  ASSUME Typed, Leave, connFd' = None \/ connFd' = connFd PROVE Typed'
<1>1. TypeOK /\ Counted /\ connFd # None /\ CloseEnd
  BY DEF Typed, Leave
<1>2. /\ UNCHANGED <<fresh, server, emptying, sent, clean, inHand, mapped, lists>>
      /\ ui' = "unmap" /\ leaving' = connFd
  BY DEF Leave
<1>3. PlanOK'
  BY <1>2, PlanOKSame DEF Typed, server
<1>4. TypeOK'
  BY <1>1, <1>2, CloseEffect DEF TypeOK, server, lists
<1>5. \A c \in Conns : \A i \in 1 .. Len(pipe'[c]) :
           pipe'[c][i].type = "add" => pipe'[c][i].refcount >= 1
  <2> SUFFICES ASSUME NEW c \in Conns, NEW i \in 1 .. Len(pipe'[c]), pipe'[c][i].type = "add"
               PROVE  pipe'[c][i].refcount >= 1
    OBVIOUS
  <2>1. c # connFd
    BY <1>1, CloseEffect
  <2>2. pipe'[c] = pipe[c]
    BY <1>1, <2>1, CloseEffect
  <2> QED
    BY <1>1, <2>2 DEF Counted
<1>6. Counted'
  BY <1>1, <1>2, <1>5 DEF Counted, server, lists
<1> QED
  BY <1>3, <1>4, <1>6 DEF Typed

LEMMA UnmapTyped ==
  ASSUME Typed, Unmap PROVE Typed'
<1>1. PlanOK' /\ Counted'
  BY PlanOKSame DEF Unmap, Typed, Counted, server, lists
<1>2. TypeOK'
  BY DEF Unmap, Typed, TypeOK, server, lists
<1> QED
  BY <1>1, <1>2 DEF Typed

LEMMA ForgetTyped ==
  ASSUME Typed, Forget PROVE Typed'
<1>1. TypeOK /\ Counted
  BY DEF Typed
<1>2. /\ added' = {} /\ attached' = {} /\ removed' \subseteq Buffers
      /\ copied' \in [Buffers -> 0 .. MaxRefs] /\ lent' = {}
  BY <1>1 DEF Forget, RemoveAllBuffers, TypeOK
<1>3. sent' \in [Conns -> SUBSET Buffers]
  BY <1>1 DEF Forget, TypeOK
<1>4. /\ UNCHANGED <<fresh, server, emptying, pipe, clean, inHand, connFd, closed, mapped>>
      /\ leaving' = None /\ ui' \in {"ready", "adopt"}
  BY DEF Forget
<1>5. PlanOK'
  BY <1>4, PlanOKSame DEF Typed, server
<1>6. Counted'
  BY <1>1, <1>2, <1>4 DEF Counted, server
<1>7. TypeOK'
  BY <1>1, <1>2, <1>3, <1>4 DEF TypeOK, server
<1> QED
  BY <1>5, <1>6, <1>7 DEF Typed

LEMMA AdoptTyped ==
  ASSUME Typed, Adopt PROVE Typed'
<1>1. PlanOK' /\ Counted'
  BY PlanOKSame DEF Adopt, Typed, Counted, server, lists
<1>2. TypeOK'
  BY DEF Adopt, Typed, TypeOK, server, lists
<1> QED
  BY <1>1, <1>2 DEF Typed

LEMMA UiTyped ==
  ASSUME Typed, Hangup \/ BeginConnect \/ Unmap \/ Forget \/ Adopt PROVE Typed'
BY LeaveTyped, UnmapTyped, ForgetTyped, AdoptTyped DEF Hangup, BeginConnect

(* The queue of the activity's connection loses its first message. *)
LEMMA ReceiveEffect ==
  ASSUME TypeOK, Receive
  PROVE  /\ connFd \in Conns
         /\ Len(pipe[connFd]) \in Nat /\ Len(pipe[connFd]) >= 1
         /\ Head(pipe[connFd]) = pipe[connFd][1] /\ Head(pipe[connFd]) \in Messages
         /\ pipe' \in [Conns -> Seq(Messages)]
         /\ Len(pipe'[connFd]) = Len(pipe[connFd]) - 1
         /\ \A i \in 1 .. Len(pipe'[connFd]) : pipe'[connFd][i] = pipe[connFd][i + 1]
         /\ \A c \in Conns \ {connFd} : pipe'[c] = pipe[c]
<1>1. connFd \in Conns /\ pipe[connFd] \in Seq(Messages) /\ pipe[connFd] # <<>>
  BY DEF Receive, TypeOK
<1>2. pipe' = [pipe EXCEPT ![connFd] = Tail(pipe[connFd])]
  BY DEF Receive
<1>3. pipe'[connFd] = Tail(pipe[connFd]) /\ \A c \in Conns \ {connFd} : pipe'[c] = pipe[c]
  BY <1>1, <1>2 DEF TypeOK
<1>4. /\ Head(pipe[connFd]) \in Messages /\ Tail(pipe[connFd]) \in Seq(Messages)
      /\ Len(Tail(pipe[connFd])) = Len(pipe[connFd]) - 1
      /\ \A i \in 1 .. Len(Tail(pipe[connFd])) : Tail(pipe[connFd])[i] = pipe[connFd][i + 1]
  BY <1>1, HeadTailProperties
<1>5. pipe' \in [Conns -> Seq(Messages)]
  BY <1>1, <1>2, <1>4 DEF TypeOK
<1>6. Head(pipe[connFd]) = pipe[connFd][1] /\ Len(pipe[connFd]) \in Nat /\ Len(pipe[connFd]) >= 1
  BY <1>1
<1> QED
  BY <1>1, <1>3, <1>4, <1>5, <1>6

LEMMA ReceiveTyped ==
  ASSUME Typed, Receive PROVE Typed'
<1> DEFINE msg == Head(pipe[connFd])
<1>1. TypeOK /\ Counted
  BY DEF Typed
<1>2. /\ connFd \in Conns /\ Len(pipe[connFd]) \in Nat /\ Len(pipe[connFd]) >= 1
      /\ msg = pipe[connFd][1] /\ msg \in Messages
      /\ pipe' \in [Conns -> Seq(Messages)]
      /\ Len(pipe'[connFd]) = Len(pipe[connFd]) - 1
      /\ \A i \in 1 .. Len(pipe'[connFd]) : pipe'[connFd][i] = pipe[connFd][i + 1]
      /\ \A c \in Conns \ {connFd} : pipe'[c] = pipe[c]
  BY <1>1, ReceiveEffect
<1>3. UNCHANGED <<fresh, server, emptying, sent, clean, inHand, ui, connFd, leaving, closed>>
  BY DEF Receive
<1>4. ReceiveAdd(msg) \/ ReceiveRemove(msg) \/ ReceiveState(msg)
  BY DEF Receive
<1>5. msg.buffer \in Buffers /\ msg.refcount \in 0 .. MaxRefs
  BY <1>2 DEF Messages
<1>6. msg.type = "add" => msg.refcount >= 1
  BY <1>1, <1>2 DEF Counted
<1>7. \A c \in Conns : \A i \in 1 .. Len(pipe'[c]) :
           pipe'[c][i].type = "add" => pipe'[c][i].refcount >= 1
  <2> SUFFICES ASSUME NEW c \in Conns, NEW i \in 1 .. Len(pipe'[c]), pipe'[c][i].type = "add"
               PROVE  pipe'[c][i].refcount >= 1
    OBVIOUS
  <2>1. CASE c = connFd
    <3>1. i + 1 \in 1 .. Len(pipe[c]) /\ pipe'[c][i] = pipe[c][i + 1]
      BY <1>2, <2>1
    <3> QED
      BY <1>1, <3>1 DEF Counted
  <2>2. CASE c # connFd
    BY <1>1, <1>2, <2>2 DEF Counted
  <2> QED
    BY <2>1, <2>2
<1> HIDE DEF msg
<1>8. /\ added' \subseteq Buffers /\ attached' \subseteq Buffers /\ removed' \subseteq Buffers
      /\ copied' \in [Buffers -> 0 .. MaxRefs] /\ lent' \subseteq Buffers /\ mapped' \in BOOLEAN
      /\ \A b \in added' : copied'[b] >= 1
  <2> USE DEF TypeOK, Counted
  <2>1. CASE ReceiveAdd(msg)
    <3>1. /\ added' = added \union {msg.buffer} /\ copied' = [copied EXCEPT ![msg.buffer] = msg.refcount]
          /\ msg.refcount >= 1 /\ UNCHANGED <<mapped, attached, removed>>
          /\ lent' = IF msg.refcount > 1 THEN lent \union {msg.buffer} ELSE lent
      BY <1>6, <2>1 DEF ReceiveAdd
    <3>2. copied' \in [Buffers -> 0 .. MaxRefs] /\ \A b \in added' : copied'[b] >= 1
      BY <1>1, <1>5, <3>1
    <3> QED
      BY <1>1, <1>5, <3>1, <3>2
  <2>2. CASE ReceiveRemove(msg)
    <3>1. UNCHANGED <<mapped, lent>>
      BY <2>2 DEF ReceiveRemove
    <3>2. CASE msg.buffer \in added
      <4>1. /\ copied' = [copied EXCEPT ![msg.buffer] = copied[msg.buffer] - 1]
            /\ added' = IF copied[msg.buffer] = 1 THEN added \ {msg.buffer} ELSE added
            /\ UNCHANGED <<attached, removed>>
        BY <2>2, <3>2 DEF ReceiveRemove, Held
      <4>2. copied[msg.buffer] \in 1 .. MaxRefs
        BY <1>1, <1>5, <3>2
      <4>3. copied' \in [Buffers -> 0 .. MaxRefs]
        BY <1>1, <1>5, <4>1, <4>2
      <4>4. \A b \in added' : copied'[b] >= 1
        BY <1>1, <1>5, <4>1, <4>2
      <4> QED
        BY <1>1, <3>1, <4>1, <4>3, <4>4
    <3>3. CASE msg.buffer \notin added
      BY <1>1, <1>5, <2>2, <3>1, <3>3 DEF ReceiveRemove
    <3> QED
      BY <3>2, <3>3
  <2>3. CASE ReceiveState(msg)
    BY <1>1, <2>3 DEF ReceiveState, lists
  <2> QED
    BY <1>4, <2>1, <2>2, <2>3
<1>9. TypeOK'
  BY <1>1, <1>2, <1>3, <1>8 DEF TypeOK, server
<1>10. Counted'
  BY <1>1, <1>3, <1>7, <1>8 DEF Counted, server
<1>11. PlanOK'
  BY <1>3, PlanOKSame DEF Typed, server
<1> QED
  BY <1>9, <1>10, <1>11 DEF Typed

LEMMA RendererRoundTyped ==
  ASSUME Typed, RendererRound PROVE Typed'
<1>1. UNCHANGED <<fresh, server, pipe>>
  BY DEF RendererRound
<1>2. PlanOK'
  BY <1>1, PlanOKSame DEF Typed, server
<1>3. added' = {} /\ copied' \in [Buffers -> 0 .. MaxRefs]
  BY DEF RendererRound
<1>4. Counted'
  BY <1>1, <1>3 DEF Typed, Counted, server
<1>5. TypeOK'
  BY <1>3 DEF RendererRound, Typed, TypeOK, server
<1> QED
  BY <1>2, <1>4, <1>5 DEF Typed

LEMMA TypedInit == Init => Typed
<1> SUFFICES ASSUME Init PROVE Typed
  OBVIOUS
<1>1. /\ work \in Seq(Conns) /\ plan \in Seq(Steps)
      /\ pipe \in [Conns -> Seq(Messages)] /\ sent \in [Conns -> SUBSET Buffers]
  BY DEF Init
<1>2. refcount \in [Buffers -> 0 .. MaxRefs] /\ copied \in [Buffers -> 0 .. MaxRefs]
  BY DEF Init
<1>3. emptying \in BOOLEAN /\ mapped \in BOOLEAN
  BY Zenon DEF Init
<1>4. /\ fresh \subseteq Conns \union Buffers /\ devs \subseteq Conns /\ closed \subseteq Conns
      /\ conn_fd \in Conns \union {None} /\ inHand \in Conns \union {None}
      /\ connFd \in Conns \union {None} /\ leaving \in Conns \union {None}
      /\ ui \in {"ready", "unmap", "forget", "adopt"}
      /\ registered \subseteq Buffers /\ root \in Roots
      /\ added \subseteq Buffers /\ attached \subseteq Buffers /\ removed \subseteq Buffers
      /\ lent \subseteq Buffers /\ clean \subseteq Conns
  BY DEF Init
<1>5. TypeOK
  BY <1>1, <1>2, <1>3, <1>4 DEF TypeOK
<1>6. PlanOK
  BY DEF Init, PlanOK, Idle
<1>7. \A c \in Conns : Len(pipe[c]) = 0
  BY DEF Init
<1>8. Counted
  BY <1>7 DEF Init, Counted, Buffers
<1> QED
  BY <1>5, <1>6, <1>8 DEF Typed

LEMMA TypedNext ==
  ASSUME Typed, [Next]_vars PROVE Typed'
<1>1. CASE UNCHANGED vars
  <2>1. PlanOK' /\ Counted'
    BY <1>1, PlanOKSame DEF vars, server, activity, lists, Typed, Counted
  <2>2. TypeOK'
    BY <1>1 DEF vars, server, activity, lists, Typed, TypeOK
  <2> QED
    BY <2>1, <2>2 DEF Typed
<1>2. CASE Next
  BY <1>2, GetXConnectionTyped, InputThreadTyped, RegisterDevTyped, ServerStepTyped,
     ServerCallTyped, UiTyped, ReceiveTyped, RendererRoundTyped DEF Next
<1> QED
  BY <1>1, <1>2

LEMMA AlwaysTyped == Spec => []Typed
BY TypedInit, TypedNext, PTL DEF Spec

(* Descriptors, lists, queues and reference counts keep their types: in     *)
(* particular LorieBuffer_release never takes a count below 0, in the       *)
(* server or in the activity, and no call of the server's thread loses a    *)
(* step when conn_fd becomes -1 under it.                                   *)
THEOREM TypeCorrect == Spec => []TypeOK
<1>1. Typed => TypeOK
  BY DEF Typed
<1> QED
  BY <1>1, AlwaysTyped, PTL

--------------------------------------------------------------------------------
(***************************************************************************)
(* What the two sides know of each other's buffers.                        *)
(***************************************************************************)
Doing(op, arg) == ~Idle /\ Head(plan) = Do(op, arg)

(* A connection is given out, queued, accepted and closed once. *)
Waiting(c) == c \in fresh \/ (\E i \in 1 .. Len(work) : work[i] = c) \/ Accepting(c)

(* While the UI thread is at the looper its connection is open; while it    *)
(* gives one up, connFd is that one, closed, or -1.                         *)
UiOK ==
  /\ IF ui = "ready" THEN connFd \notin closed ELSE connFd = None \/ connFd \in closed
  /\ leaving # None <=> ui \in {"unmap", "forget"}
  /\ leaving # None => leaving \in closed /\ (connFd = None \/ connFd = leaving)

OneLife ==
  /\ \A i, j \in 1 .. Len(work) : work[i] = work[j] => i = j
  /\ \A i \in 1 .. Len(work) : work[i] \notin fresh /\ ~Accepting(work[i])
  /\ \A c \in fresh : ~Accepting(c)
  /\ \A c \in Conns : Waiting(c) => c \notin clean /\ conn_fd # c /\ pipe[c] = <<>> /\ sent[c] = {}
  /\ \A c \in Conns \cap fresh : inHand # c /\ connFd # c /\ c \notin closed
  /\ inHand \notin closed /\ UiOK
  /\ inHand # None => inHand # connFd
  /\ \A c \in closed : pipe[c] = <<>>
  /\ emptying => conn_fd \notin clean

(* What travels on a connection, and what the renderer holds, was sent on it. *)
Sent ==
  /\ \A c \in Conns : sent[c] \cap fresh = {}
  /\ \A c \in Conns : \A i \in 1 .. Len(pipe[c]) :
       /\ pipe[c][i].buffer \notin fresh
       /\ pipe[c][i].type = "add" => pipe[c][i].buffer \in sent[c]
  /\ HeldIsCurrent

(* Message i on connection c adds or removes b. *)
Is(c, i, type, b) == pipe[c][i].type = type /\ pipe[c][i].buffer = b
InPipe(c, type, b) == \E i \in 1 .. Len(pipe[c]) : Is(c, i, type, b)

Shown(c, b) == InPipe(c, "add", b) \/ (c = connFd /\ b \in Held)
Gone(b) == refcount[b] = 0 \/ (refcount[b] = 1 /\ Doing("release", b))

Once ==
  \A c \in clean, b \in Buffers :
    /\ \A i, j \in 1 .. Len(pipe[c]) : Is(c, i, "add", b) /\ Is(c, j, "add", b) => i = j
    /\ c = connFd /\ b \in Held => ~InPipe(c, "add", b)
    /\ c = connFd => b \notin added \/ b \notin attached

(* The server's side of a connection that is clean and in use: a buffer the *)
(* activity was shown is in the list, or about to be, or is being given up  *)
(* and the activity will be told, or was told in vain because the reference *)
(* count came with the buffer.                                              *)
Tracked ==
  \A c \in clean, b \in Buffers :
    c = conn_fd /\ c \notin closed =>
      /\ Shown(c, b) => \/ b \in registered
                        \/ Doing("list", b)
                        \/ Gone(b) /\ (InPipe(c, "remove", b) \/ (c = connFd /\ b \in Held \cap lent))
      /\ InPipe(c, "remove", b) => Gone(b)
      /\ \A i, j \in 1 .. Len(pipe[c]) : Is(c, i, "remove", b) /\ Is(c, j, "add", b) => j < i

Unlent == \A b \in added : b \in lent \/ copied[b] = 1

(* What is about to be sent, or to be freed with a connection open, is not  *)
(* in the list.                                                             *)
NotListed ==
  \A b \in Buffers :
    /\ Doing("add", b) => b \notin registered
    /\ conn_fd # None /\ Doing("release", b) /\ refcount[b] = 1 => b \notin registered

Agreed == OneLife /\ Sent /\ Once /\ Tracked /\ Unlent /\ NotListed

--------------------------------------------------------------------------------
(* The effect of each step of the server's thread on its call. *)
LEMMA DoingOne ==
  ASSUME NEW op, NEW x, NEW op2, NEW y, Doing(op, x), Doing(op2, y) PROVE op = op2 /\ x = y
BY DoFields DEF Doing

LEMMA DoingOneNext ==
  ASSUME NEW op, NEW x, NEW op2, NEW y, Doing(op, x)', Doing(op2, y)' PROVE op = op2 /\ x = y
BY DoFields DEF Doing

LEMMA PlanHeads ==
  ASSUME NEW a, NEW b, NEW c
  PROVE  /\ plan' = <<a>> => ~Idle' /\ Head(plan') = a
         /\ plan' = <<a, b>> => ~Idle' /\ Head(plan') = a
         /\ plan' = <<a, b, c>> => ~Idle' /\ Head(plan') = a
BY Tuples DEF Idle

LEMMA AcceptEffect ==
  ASSUME Typed, ~Idle, AcceptStep, UNCHANGED root
  PROVE  \E c \in Conns :
           /\ Accepting(c) /\ conn_fd' = c /\ Doing("state", root)'
           /\ clean' = clean \/ (clean' = clean \union {c} /\ ~emptying /\ registered = {})
           /\ UNCHANGED <<registered, refcount, pipe, sent>>
<1>1. WhatFollows
  BY Heads DEF Typed
<1>2. PICK c \in Conns : Accepting(c) /\ Next1 = Do("accept", c) /\ Tail(plan) = <<>>
  BY <1>1 DEF WhatFollows, AcceptStep
<1>3. /\ conn_fd' = c /\ plan' = <<Do("state", root), Do("register", root)>>
      /\ UNCHANGED <<registered, refcount, pipe, sent>>
  BY <1>2, Joined, DoFields DEF AcceptStep, Then
<1>4. clean' = clean \union {x \in {c} : devs = {x} /\ ~emptying /\ registered = {}}
  BY <1>2, DoFields DEF AcceptStep
<1>5. Doing("state", root)'
  BY <1>3, PlanHeads DEF Doing
<1> QED
  BY <1>2, <1>3, <1>4, <1>5

LEMMA StateEffect ==
  ASSUME Typed, ~Idle, SendState, UNCHANGED root
  PROVE  /\ Doing("state", root) /\ Doing("register", root)' /\ Send(Msg("state", root))
         /\ UNCHANGED <<conn_fd, registered, refcount>>
<1>1. WhatFollows
  BY Heads DEF Typed
<1>2. Next1 = Do("state", root) /\ Tail(plan) = <<Do("register", root)>>
  BY <1>1 DEF WhatFollows, SendState
<1>3. plan' = <<Do("register", root)>>
  BY <1>2, Joined DEF SendState, Then
<1>4. Doing("register", root)'
  BY <1>3, PlanHeads DEF Doing
<1> QED
  BY <1>2, <1>4, DoFields DEF Doing, Next1, SendState

LEMMA RegisterEffect ==
  ASSUME Typed, ~Idle, CheckRegister
  PROVE  \E b \in Buffers :
           /\ Doing("register", b) /\ refcount[b] >= 1
           /\ \/ Idle' \/ Doing("acquire", b)'
              \/ conn_fd # None /\ b \notin registered /\ Doing("add", b)'
           /\ UNCHANGED <<conn_fd, registered, refcount, pipe, sent>>
<1>1. WhatFollows
  BY Heads DEF Typed
<1>2. PICK b \in Buffers :
        /\ Next1 = Do("register", b) /\ refcount[b] >= 1
        /\ Tail(plan) = <<>> \/ Tail(plan) = <<Do("acquire", b)>>
  BY <1>1 DEF WhatFollows, CheckRegister
<1>3. \/ Then(<<>>)
      \/ conn_fd # None /\ b \notin registered /\ Then(<<Do("add", b), Do("list", b)>>)
  BY <1>2, DoFields DEF CheckRegister
<1>4. \/ plan' = <<>> \/ plan' = <<Do("acquire", b)>>
      \/ /\ conn_fd # None /\ b \notin registered
         /\ \/ plan' = <<Do("add", b), Do("list", b)>>
            \/ plan' = <<Do("add", b), Do("list", b), Do("acquire", b)>>
  BY <1>2, <1>3, Joined DEF Then
<1>5. \/ Idle' \/ Doing("acquire", b)'
      \/ conn_fd # None /\ b \notin registered /\ Doing("add", b)'
  BY <1>4, PlanHeads DEF Doing, Idle
<1> QED
  BY <1>2, <1>5 DEF Doing, Next1, CheckRegister

LEMMA AddEffect ==
  ASSUME Typed, ~Idle, SendAdd
  PROVE  \E b \in Buffers :
           /\ Doing("add", b) /\ refcount[b] >= 1
           /\ \/ /\ conn_fd = None /\ (Idle' \/ Doing("acquire", b)')
                 /\ UNCHANGED <<pipe, sent>>
              \/ conn_fd # None /\ Send(Msg("add", b)) /\ Doing("list", b)'
           /\ UNCHANGED <<conn_fd, registered, refcount>>
<1>1. WhatFollows
  BY Heads DEF Typed
<1>2. PICK b \in Buffers :
        /\ Next1 = Do("add", b) /\ refcount[b] >= 1
        /\ Tail(plan) = <<Do("list", b)>> \/ Tail(plan) = <<Do("list", b), Do("acquire", b)>>
  BY <1>1 DEF WhatFollows, SendAdd
<1>3. Tail(Tail(plan)) = <<>> \/ Tail(Tail(plan)) = <<Do("acquire", b)>>
  <2>1. /\ Tail(<<Do("list", b)>>) = <<>>
        /\ Tail(<<Do("list", b), Do("acquire", b)>>) = <<Do("acquire", b)>>
    BY Tuples
  <2> QED
    BY <1>2, <2>1
<1>4. CASE conn_fd = None
  <2>1. Idle' \/ Doing("acquire", b)'
    BY <1>3, <1>4, PlanHeads DEF SendAdd, Doing, Idle
  <2> QED
    BY <1>2, <1>4, <2>1 DEF SendAdd, Doing, Next1
<1>5. CASE conn_fd # None
  <2>1. plan' = <<Do("list", b)>> \/ plan' = <<Do("list", b), Do("acquire", b)>>
    BY <1>2, <1>5, Joined DEF SendAdd, Then
  <2>2. Doing("list", b)'
    BY <2>1, PlanHeads DEF Doing
  <2> QED
    BY <1>2, <1>5, <2>2, DoFields DEF SendAdd, Doing, Next1
<1> QED
  BY <1>4, <1>5

LEMMA ListEffect ==
  ASSUME Typed, ~Idle, AddToList
  PROVE  \E b \in Buffers :
           /\ Doing("list", b) /\ refcount[b] >= 1 /\ (Idle' \/ Doing("acquire", b)')
           /\ registered' = registered \union {b} /\ UNCHANGED <<conn_fd, refcount, pipe, sent>>
<1>1. WhatFollows
  BY Heads DEF Typed
<1>2. PICK b \in Buffers :
        /\ Next1 = Do("list", b) /\ refcount[b] >= 1
        /\ Tail(plan) = <<>> \/ Tail(plan) = <<Do("acquire", b)>>
  BY <1>1 DEF WhatFollows, AddToList
<1>3. plan' = <<>> \/ plan' = <<Do("acquire", b)>>
  BY <1>2, Joined DEF AddToList, Then
<1>4. Idle' \/ Doing("acquire", b)'
  BY <1>3, PlanHeads DEF Doing, Idle
<1> QED
  BY <1>2, <1>4, DoFields DEF AddToList, Doing, Next1

LEMMA UnregisterEffect ==
  ASSUME Typed, ~Idle, CheckUnregister
  PROVE  \E b \in Buffers :
           /\ Doing("unregister", b) /\ refcount[b] = 1
           /\ IF b \in registered THEN Doing("remove", b)' ELSE Doing("release", b)'
           /\ UNCHANGED <<conn_fd, registered, refcount, pipe, sent>>
<1>1. WhatFollows
  BY Heads DEF Typed
<1>2. PICK b \in Buffers :
        /\ Next1 = Do("unregister", b) /\ refcount[b] = 1
        /\ \/ Tail(plan) = <<Do("release", b)>>
           \/ Tail(plan) = <<Do("release", b), Do("register", root)>>
  BY <1>1 DEF WhatFollows, CheckUnregister
<1>3. IF b \in registered THEN Then(<<Do("remove", b)>>) ELSE Then(<<>>)
  BY <1>2, DoFields DEF CheckUnregister
<1>4. /\ <<>> \o Tail(plan) = Tail(plan)
      /\ \/ <<Do("remove", b)>> \o Tail(plan) = <<Do("remove", b), Do("release", b)>>
         \/ <<Do("remove", b)>> \o Tail(plan)
              = <<Do("remove", b), Do("release", b), Do("register", root)>>
  BY <1>2, Joined
<1>5. IF b \in registered THEN Doing("remove", b)' ELSE Doing("release", b)'
  BY <1>2, <1>3, <1>4, PlanHeads DEF Then, Doing
<1> QED
  BY <1>2, <1>5 DEF CheckUnregister, Doing, Next1

LEMMA RemoveEffect ==
  ASSUME Typed, ~Idle, SendRemove
  PROVE  \E b \in Buffers :
           /\ Doing("remove", b) /\ refcount[b] = 1 /\ Doing("release", b)'
           /\ IF conn_fd = None THEN UNCHANGED <<registered, pipe, sent>>
              ELSE Send(Msg("remove", b)) /\ registered' = registered \ {b}
           /\ UNCHANGED <<conn_fd, refcount>>
<1>1. WhatFollows
  BY Heads DEF Typed
<1>2. PICK b \in Buffers :
        /\ Next1 = Do("remove", b) /\ refcount[b] = 1
        /\ \/ Tail(plan) = <<Do("release", b)>>
           \/ Tail(plan) = <<Do("release", b), Do("register", root)>>
  BY <1>1 DEF WhatFollows, SendRemove
<1>3. \/ plan' = <<Do("release", b)>>
      \/ plan' = <<Do("release", b), Do("register", root)>>
  BY <1>2, Joined DEF SendRemove, Then
<1>4. Doing("release", b)'
  BY <1>3, PlanHeads DEF Doing
<1> QED
  BY <1>2, <1>4, DoFields DEF SendRemove, Doing, Next1

LEMMA AcquireEffect ==
  ASSUME Typed, ~Idle, Acquire
  PROVE  \E b \in Buffers :
           /\ Doing("acquire", b) /\ refcount[b] >= 1 /\ Idle'
           /\ refcount'[b] = refcount[b] + 1 /\ \A y \in Buffers \ {b} : refcount'[y] = refcount[y]
           /\ UNCHANGED <<conn_fd, registered, pipe, sent>>
<1>1. WhatFollows /\ TypeOK
  BY Heads DEF Typed
<1>2. PICK b \in Buffers : Next1 = Do("acquire", b) /\ refcount[b] >= 1 /\ Tail(plan) = <<>>
  BY <1>1 DEF WhatFollows, Acquire, Buffers
<1>3. Idle'
  BY <1>2, Joined DEF Acquire, Then, Idle
<1>4. refcount' = [refcount EXCEPT ![b] = refcount[b] + 1]
  BY <1>2, DoFields DEF Acquire
<1>5. refcount'[b] = refcount[b] + 1 /\ \A y \in Buffers \ {b} : refcount'[y] = refcount[y]
  BY <1>1, <1>4 DEF TypeOK
<1> QED
  BY <1>2, <1>3, <1>5 DEF Acquire, Doing, Next1

LEMMA ReleaseEffect ==
  ASSUME Typed, ~Idle, Release, UNCHANGED root
  PROVE  \E b \in Buffers :
           /\ Doing("release", b) /\ refcount[b] >= 1 /\ (Idle' \/ Doing("register", root)')
           /\ refcount'[b] = refcount[b] - 1 /\ \A y \in Buffers \ {b} : refcount'[y] = refcount[y]
           /\ registered' = IF refcount[b] = 1 THEN registered \ {b} ELSE registered
           /\ UNCHANGED <<conn_fd, pipe, sent>>
<1>1. WhatFollows /\ TypeOK
  BY Heads DEF Typed
<1>2. PICK b \in Buffers :
        /\ Next1 = Do("release", b) /\ refcount[b] >= 1
        /\ Tail(plan) = <<>> \/ Tail(plan) = <<Do("register", root)>>
  BY <1>1 DEF WhatFollows, Release
<1>3. plan' = <<>> \/ plan' = <<Do("register", root)>>
  BY <1>2, Joined DEF Release, Then
<1>4. Idle' \/ Doing("register", root)'
  BY <1>3, PlanHeads DEF Doing, Idle
<1>5. refcount' = [refcount EXCEPT ![b] = refcount[b] - 1]
  BY <1>2, DoFields DEF Release
<1>6. refcount'[b] = refcount[b] - 1 /\ \A y \in Buffers \ {b} : refcount'[y] = refcount[y]
  BY <1>1, <1>5 DEF TypeOK
<1>7. /\ Doing("release", b) /\ UNCHANGED <<conn_fd, pipe, sent>>
      /\ registered' = IF refcount[b] = 1 THEN registered \ {b} ELSE registered
  <2>1. Next1.arg = b /\ Doing("release", b)
    BY <1>2, DoFields DEF Doing, Next1
  <2> QED
    BY <2>1 DEF Release
<1> QED
  BY <1>2, <1>4, <1>6, <1>7

(* A call begins with one of these steps, or has none. *)
LEMMA CallEffect ==
  ASSUME Typed, ServerCall
  PROVE  /\ Idle /\ UNCHANGED <<work, conn_fd, devs, registered, emptying, pipe, sent, clean, activity>>
         /\ fresh' \subseteq fresh
         /\ \A y \in Buffers : y \notin fresh => refcount'[y] = refcount[y]
         /\ \/ Idle'
            \/ \E b \in Buffers :
                 \/ Doing("unregister", b)' \/ Doing("register", b)'
                 \/ Doing("release", b)' /\ refcount'[b] > 1
<1>1. TypeOK /\ Counted /\ Roots \subseteq Buffers /\ Pixmaps \subseteq Buffers /\ root \in Roots
  BY DEF Typed, TypeOK, Buffers
<1>2. UNCHANGED <<work, conn_fd, devs, registered, emptying, pipe, sent, clean, activity>>
  BY DEF ServerCall
<1>3. ASSUME NEW b \in fresh \cap Buffers, Begin(b)
      PROVE  fresh' \subseteq fresh /\ \A y \in Buffers : y \notin fresh => refcount'[y] = refcount[y]
  BY <1>1, <1>3 DEF Begin, TypeOK
<1>4. ASSUME NEW b \in Roots, SetSize(b)
      PROVE  /\ Idle /\ fresh' \subseteq fresh
             /\ \A y \in Buffers : y \notin fresh => refcount'[y] = refcount[y]
             /\ \E y \in Buffers : Doing("unregister", y)'
  <2>1. /\ b \in fresh \cap Buffers /\ Begin(b) /\ Idle
        /\ plan' = <<Do("unregister", root), Do("release", root), Do("register", b)>>
    BY <1>1, <1>4 DEF SetSize, Call
  <2>2. PICK r \in Buffers : r = root
    BY <1>1
  <2>3. Doing("unregister", r)'
    BY <2>1, <2>2, PlanHeads DEF Doing
  <2> QED
    BY <1>3, <2>1, <2>3
<1>5. ASSUME NEW b \in Pixmaps, CreatePixmap(b)
      PROVE  /\ Idle /\ Idle' /\ fresh' \subseteq fresh
             /\ \A y \in Buffers : y \notin fresh => refcount'[y] = refcount[y]
  BY <1>1, <1>3, <1>5 DEF CreatePixmap, Call, Idle
<1>6. ASSUME NEW b \in Pixmaps, Flip(b) \/ SchedulePresent(b) \/ DestroyPixmap(b) \/ AckPresent(b)
      PROVE  /\ Idle /\ UNCHANGED <<fresh, refcount>>
             /\ \/ Doing("unregister", b)' \/ Doing("register", b)'
                \/ Doing("release", b)' /\ refcount'[b] > 1
  <2>1. /\ Idle /\ UNCHANGED <<fresh, refcount>>
        /\ \/ plan' = <<Do("register", b)>> \/ plan' = <<Do("register", b), Do("acquire", b)>>
           \/ plan' = <<Do("unregister", b), Do("release", b)>>
           \/ plan' = <<Do("release", b)>> /\ refcount[b] > 1
    BY <1>6 DEF Flip, SchedulePresent, DestroyPixmap, AckPresent, Call
  <2> QED
    BY <2>1, PlanHeads DEF Doing
<1> QED
  BY <1>1, <1>2, <1>4, <1>5, <1>6 DEF ServerCall

--------------------------------------------------------------------------------
(***************************************************************************)
(* Connections live once.                                                  *)
(***************************************************************************)

(* The thread is not at the step that accepts a connection. *)
LEMMA NotAccepting ==
  ASSUME Idle' \/ \E op \in {"state", "register", "add", "list", "unregister", "remove", "acquire",
                              "release"} : \E b : Doing(op, b)'
  PROVE  \A c : ~Accepting(c)'
<1> SUFFICES ASSUME NEW c, plan' = <<Do("accept", c)>> PROVE FALSE
  BY DEF Accepting
<1>1. ~Idle' /\ Head(plan') = Do("accept", c)
  BY PlanHeads
<1> QED
  BY <1>1, DoFields DEF Doing

(* A step that accepts nothing and gives out nothing. *)
LEMMA OneLifeSame ==
  ASSUME Typed, OneLife, UNCHANGED <<work, clean, inHand, ui, connFd, leaving, closed, pipe, sent>>,
         fresh' \subseteq fresh,
         \A c : Accepting(c)' => Accepting(c),
         conn_fd' = conn_fd \/ conn_fd' = None,
         emptying' => emptying \/ conn_fd' = None
  PROVE  OneLife'
<1>1. TypeOK /\ None \notin clean
  BY DEF Typed, TypeOK
<1>2. \A c \in Conns : Waiting(c)' => Waiting(c)
  BY DEF Waiting
<1>3. \A c \in Conns : Waiting(c)' => c \notin clean' /\ conn_fd' # c /\ pipe'[c] = <<>> /\ sent'[c] = {}
  BY <1>2 DEF OneLife
<1>4. emptying' => conn_fd' \notin clean'
  BY <1>1 DEF OneLife
<1> QED
  BY <1>3, <1>4 DEF OneLife, UiOK

(* A message is sent on the connection in use, which waits no longer. *)
LEMMA OneLifeSend ==
  ASSUME Typed, OneLife, NEW msg \in Messages, Send(msg),
         UNCHANGED <<fresh, work, conn_fd, clean, emptying, inHand, ui, connFd, leaving, closed>>,
         \A c : ~Accepting(c)'
  PROVE  OneLife'
<1>1. TypeOK
  BY DEF Typed
<1>2. \A c \in Conns : Waiting(c)' => Waiting(c)
  BY DEF Waiting
<1>3. \A c \in Conns : (c # conn_fd \/ c \in closed) => pipe'[c] = pipe[c] /\ sent'[c] = sent[c]
  BY <1>1, SendEffect DEF TypeOK
<1>4. \A c \in Conns : Waiting(c)' => c \notin clean' /\ conn_fd' # c /\ pipe'[c] = <<>> /\ sent'[c] = {}
  BY <1>2, <1>3 DEF OneLife
<1>5. \A c \in closed' : pipe'[c] = <<>>
  BY <1>1, <1>3 DEF OneLife, TypeOK
<1> QED
  BY <1>4, <1>5 DEF OneLife, UiOK

LEMMA OneLifeAccept ==
  ASSUME Typed, OneLife, ~Idle, AcceptStep,
         UNCHANGED <<fresh, work, devs, root, emptying, activity>>
  PROVE  OneLife'
<1>1. PICK c \in Conns :
        /\ Accepting(c) /\ conn_fd' = c /\ Doing("state", root)'
        /\ clean' = clean \/ (clean' = clean \union {c} /\ ~emptying)
        /\ UNCHANGED <<pipe, sent>>
  BY AcceptEffect
<1>2. \A x : ~Accepting(x)'
  BY <1>1, NotAccepting
<1>3. c \notin fresh /\ \A i \in 1 .. Len(work) : work[i] # c
  BY <1>1 DEF OneLife
<1>4. \A x \in Conns : Waiting(x)' => Waiting(x) /\ x # c
  BY <1>2, <1>3 DEF Waiting
<1>5. \A x \in Conns : Waiting(x)' => x \notin clean' /\ conn_fd' # x /\ pipe'[x] = <<>> /\ sent'[x] = {}
  BY <1>1, <1>4 DEF OneLife
<1>6. c \notin clean
  BY <1>1 DEF OneLife, Waiting
<1>7. emptying' => conn_fd' \notin clean'
  BY <1>1, <1>6
<1> QED
  BY <1>1, <1>2, <1>5, <1>7 DEF OneLife, UiOK, activity

LEMMA OneLifeServerStep ==
  ASSUME Typed, OneLife, ServerStep PROVE OneLife'
<1>1. ~Idle /\ UNCHANGED <<fresh, work, devs, root, emptying, activity>> /\ TypeOK /\ root \in Buffers
  BY DEF ServerStep, Typed, TypeOK, Buffers
<1>2. UNCHANGED <<inHand, ui, connFd, leaving, closed>>
  BY <1>1 DEF activity
<1>3. CASE AcceptStep
  BY <1>1, <1>3, OneLifeAccept
<1>4. ASSUME ~AcceptStep PROVE UNCHANGED clean
  BY <1>4 DEF ServerStep
<1>5. ASSUME UNCHANGED <<clean, conn_fd, pipe, sent>>, \A c : ~Accepting(c)' PROVE OneLife'
  BY <1>1, <1>2, <1>5, OneLifeSame
<1>6. ASSUME UNCHANGED <<clean, conn_fd>>, NEW b \in Buffers, NEW type \in {"state", "add", "remove"},
             Send(Msg(type, b)), \A c : ~Accepting(c)'
      PROVE  OneLife'
  BY <1>1, <1>2, <1>6, MsgTyped, OneLifeSend
<1>7. CASE SendState /\ UNCHANGED clean
  BY <1>1, <1>6, <1>7, StateEffect, NotAccepting
<1>8. CASE CheckRegister /\ UNCHANGED clean
  BY <1>1, <1>5, <1>8, RegisterEffect, NotAccepting
<1>9. CASE SendAdd /\ UNCHANGED clean
  BY <1>1, <1>5, <1>6, <1>9, AddEffect, NotAccepting
<1>10. CASE AddToList /\ UNCHANGED clean
  BY <1>1, <1>5, <1>10, ListEffect, NotAccepting
<1>11. CASE CheckUnregister /\ UNCHANGED clean
  BY <1>1, <1>5, <1>11, UnregisterEffect, NotAccepting
<1>12. CASE SendRemove /\ UNCHANGED clean
  BY <1>1, <1>5, <1>6, <1>12, RemoveEffect, NotAccepting
<1>13. CASE Acquire /\ UNCHANGED clean
  BY <1>1, <1>5, <1>13, AcquireEffect, NotAccepting
<1>14. CASE Release /\ UNCHANGED clean
  BY <1>1, <1>5, <1>14, ReleaseEffect, NotAccepting
<1> QED
  BY <1>3, <1>7, <1>8, <1>9, <1>10, <1>11, <1>12, <1>13, <1>14 DEF ServerStep

LEMMA OneLifeServerCall ==
  ASSUME Typed, OneLife, ServerCall PROVE OneLife'
<1>1. \A c : ~Accepting(c)'
  BY CallEffect, NotAccepting
<1> QED
  BY <1>1, CallEffect, OneLifeSame DEF activity

LEMMA OneLifeGetXConnection ==
  ASSUME Typed, OneLife, NEW c \in Conns, GetXConnection(c) PROVE OneLife'
<1>1. /\ c \in fresh /\ inHand = None /\ fresh' = fresh \ {c} /\ inHand' = c
      /\ work' = Append(work, c) /\ work \in Seq(Conns)
      /\ UNCHANGED <<conn_fd, plan, emptying, pipe, sent, clean, ui, connFd, leaving, closed>>
  BY DEF GetXConnection, Typed, TypeOK
<1>2. /\ Len(work') = Len(work) + 1 /\ work'[Len(work) + 1] = c /\ Len(work) \in Nat
      /\ \A i \in 1 .. Len(work) : work'[i] = work[i]
  BY <1>1, AppendProperties, LenProperties
<1>3. \A i \in 1 .. Len(work') : i \in 1 .. Len(work) \/ i = Len(work) + 1
  BY <1>2
<1>4. \A i \in 1 .. Len(work) : work[i] # c
  BY <1>1 DEF OneLife
<1>5. ~Accepting(c) /\ \A x : Accepting(x)' <=> Accepting(x)
  BY <1>1 DEF OneLife, Accepting
<1>6. \A i, j \in 1 .. Len(work') : work'[i] = work'[j] => i = j
  BY <1>2, <1>3, <1>4 DEF OneLife
<1>7. \A i \in 1 .. Len(work') : work'[i] \notin fresh' /\ plan' # <<Do("accept", work'[i])>>
  <2> SUFFICES ASSUME NEW i \in 1 .. Len(work') PROVE work'[i] \notin fresh' /\ plan' # <<Do("accept", work'[i])>>
    OBVIOUS
  <2>1. PICK x : x = work'[i]
    OBVIOUS
  <2>2. x \notin fresh' /\ ~Accepting(x)
    BY <1>1, <1>2, <1>3, <1>5, <2>1 DEF OneLife
  <2> QED
    BY <1>1, <2>1, <2>2 DEF Accepting
<1>8. \A x \in Conns : Waiting(x)' => Waiting(x)
  BY <1>1, <1>2, <1>3, <1>5 DEF Waiting
<1>9. \A x \in Conns : Waiting(x)' => x \notin clean' /\ conn_fd' # x /\ pipe'[x] = <<>> /\ sent'[x] = {}
  BY <1>1, <1>8 DEF OneLife
<1>10. c # None /\ c # connFd /\ c \notin closed
  BY <1>1 DEF OneLife
<1> QED
  BY <1>1, <1>5, <1>6, <1>7, <1>9, <1>10 DEF OneLife, UiOK

LEMMA OneLifeRegisterDev ==
  ASSUME Typed, OneLife, RegisterDev PROVE OneLife'
<1>1. /\ work # <<>> /\ work \in Seq(Conns) /\ work' = Tail(work) /\ ~emptying
      /\ plan' = <<Do("accept", Head(work))>> /\ Idle
      /\ UNCHANGED <<fresh, conn_fd, emptying, pipe, sent, clean, activity>>
  BY DEF RegisterDev, Typed, TypeOK
<1>2. PICK c \in Conns : c = Head(work)
  BY <1>1, HeadTailProperties
<1>3. /\ Len(work') = Len(work) - 1 /\ \A i \in 1 .. Len(work') : work'[i] = work[i + 1]
      /\ c = work[1] /\ Len(work) \in Nat /\ Len(work) >= 1
  BY <1>1, <1>2, HeadTailProperties, LenProperties
<1>4. \A i \in 1 .. Len(work') : i + 1 \in 1 .. Len(work) /\ work'[i] = work[i + 1] /\ i \in Nat
  BY <1>3
<1>5. 1 \in 1 .. Len(work) /\ c \notin fresh
  BY <1>3 DEF OneLife
<1>6. \A x : Accepting(x)' <=> x = c
  <2> SUFFICES ASSUME NEW x PROVE (plan' = <<Do("accept", x)>>) <=> x = c
    BY DEF Accepting
  <2>1. plan' = <<Do("accept", x)>> => Head(plan') = Do("accept", x)
    BY PlanHeads
  <2>2. Head(plan') = Do("accept", c)
    BY <1>1, <1>2, PlanHeads
  <2> QED
    BY <1>1, <1>2, <2>1, <2>2, DoFields
<1>7. \A i \in 1 .. Len(work') : work'[i] # c
  BY <1>3, <1>4, <1>5 DEF OneLife
<1>8. \A i, j \in 1 .. Len(work') : work'[i] = work'[j] => i = j
  BY <1>4 DEF OneLife
<1>9. \A i \in 1 .. Len(work') : work'[i] \notin fresh' /\ plan' # <<Do("accept", work'[i])>>
  <2> SUFFICES ASSUME NEW i \in 1 .. Len(work') PROVE work'[i] \notin fresh' /\ plan' # <<Do("accept", work'[i])>>
    OBVIOUS
  <2>1. PICK x : x = work'[i]
    OBVIOUS
  <2>2. x \notin fresh' /\ ~Accepting(x)'
    BY <1>1, <1>4, <1>6, <1>7, <2>1 DEF OneLife
  <2> QED
    BY <2>1, <2>2 DEF Accepting
<1>10. \A x \in Conns : Waiting(x)' => Waiting(x)
  BY <1>1, <1>3, <1>4, <1>5, <1>6 DEF Waiting
<1>11. \A x \in Conns : Waiting(x)' => x \notin clean' /\ conn_fd' # x /\ pipe'[x] = <<>> /\ sent'[x] = {}
  BY <1>1, <1>10 DEF OneLife
<1>12. \A x \in fresh' : ~Accepting(x)'
  BY <1>1, <1>5, <1>6
<1> QED
  BY <1>1, <1>8, <1>9, <1>11, <1>12 DEF OneLife, UiOK, activity, Accepting

LEMMA OneLifeInputThread ==
  ASSUME Typed, OneLife, (\E c \in Conns : Broken(c)) \/ EmptyList PROVE OneLife'
<1>1. /\ UNCHANGED <<fresh, work, clean, inHand, ui, connFd, leaving, closed, pipe, sent, plan>>
      /\ conn_fd' = conn_fd \/ conn_fd' = None
      /\ emptying' => emptying \/ conn_fd' = None
  BY DEF Broken, EmptyList, activity
<1>2. \A c : Accepting(c)' => Accepting(c)
  BY <1>1 DEF Accepting
<1> QED
  BY <1>1, <1>2, OneLifeSame

(* The UI thread closes a connection, lets the renderer let go of it, or    *)
(* takes up the next.                                                       *)
LEMMA OneLifeLeave ==
  ASSUME Typed, OneLife, Leave, connFd' = None \/ connFd' = connFd PROVE OneLife'
<1>1. TypeOK /\ connFd # None /\ CloseEnd /\ None \notin closed
  BY DEF Typed, TypeOK, Leave
<1>2. /\ connFd \in Conns /\ closed' = closed \union {connFd}
      /\ \A c \in Conns : pipe'[c] = IF c = connFd THEN <<>> ELSE pipe[c]
  BY <1>1, CloseEffect
<1>3. /\ UNCHANGED <<fresh, work, plan, conn_fd, emptying, sent, clean, inHand>>
      /\ ui' = "unmap" /\ leaving' = connFd
  BY DEF Leave, server
<1>4. \A x : Accepting(x)' <=> Accepting(x)
  BY <1>3 DEF Accepting
<1>5. \A x \in Conns : Waiting(x)' => Waiting(x)
  BY <1>3, <1>4 DEF Waiting
<1>6. \A x \in Conns : Waiting(x)' => x \notin clean' /\ conn_fd' # x /\ pipe'[x] = <<>> /\ sent'[x] = {}
  BY <1>2, <1>3, <1>5 DEF OneLife
<1>7. \A x \in closed' : pipe'[x] = <<>>
  BY <1>1, <1>2 DEF OneLife, TypeOK
<1>8. /\ \A c \in Conns \cap fresh : inHand' # c /\ connFd' # c /\ c \notin closed'
      /\ inHand' \notin closed' /\ (inHand' # None => inHand' # connFd')
  BY <1>1, <1>2, <1>3 DEF OneLife
<1>9. UiOK'
  BY <1>1, <1>2, <1>3 DEF UiOK
<1>10. \A i \in 1 .. Len(work') : work'[i] \notin fresh' /\ plan' # <<Do("accept", work'[i])>>
  BY <1>3 DEF OneLife, Accepting
<1> QED
  BY <1>3, <1>4, <1>6, <1>7, <1>8, <1>9, <1>10 DEF OneLife

LEMMA OneLifeUi ==
  ASSUME Typed, OneLife, Unmap \/ Forget \/ Adopt PROVE OneLife'
<1>1. TypeOK /\ None \notin closed
  BY DEF Typed, TypeOK
<1>2. UNCHANGED <<fresh, work, plan, conn_fd, emptying, clean, closed, pipe>>
  BY DEF Unmap, Forget, Adopt, server
<1>3. \A x \in Conns : sent'[x] \subseteq sent[x]
  BY <1>1 DEF Unmap, Forget, Adopt, TypeOK
<1>4. \A x \in Conns : Waiting(x)' => Waiting(x)
  BY <1>2 DEF Waiting, Accepting
<1>5. \A x \in Conns : Waiting(x)' => x \notin clean' /\ conn_fd' # x /\ pipe'[x] = <<>> /\ sent'[x] = {}
  BY <1>2, <1>3, <1>4 DEF OneLife
<1>6. UiOK /\ inHand \notin closed /\ (inHand # None => inHand # connFd)
  BY DEF OneLife
<1>7. /\ UiOK'
      /\ \A c \in Conns \cap fresh : inHand' # c /\ connFd' # c
      /\ inHand' \notin closed /\ (inHand' # None => inHand' # connFd')
  <2>1. CASE Unmap
    BY <1>6, <2>1 DEF Unmap, UiOK, OneLife
  <2>2. CASE Forget
    BY <1>1, <1>6, <2>2 DEF Forget, UiOK, OneLife
  <2>3. CASE Adopt
    BY <1>1, <1>6, <2>3 DEF Adopt, UiOK, OneLife
  <2> QED
    BY <2>1, <2>2, <2>3
<1> QED
  BY <1>2, <1>5, <1>7 DEF OneLife, Accepting

LEMMA OneLifeActivity ==
  ASSUME Typed, OneLife,
         Hangup \/ BeginConnect \/ Unmap \/ Forget \/ Adopt \/ Receive \/ RendererRound
  PROVE  OneLife'
<1>1. CASE Hangup \/ BeginConnect
  BY <1>1, OneLifeLeave DEF Hangup, BeginConnect
<1>2. CASE Unmap \/ Forget \/ Adopt
  BY <1>2, OneLifeUi
<1>3. CASE Receive
  <2>1. /\ UNCHANGED <<fresh, work, plan, conn_fd, emptying, sent, clean, inHand, ui, connFd, leaving, closed>>
    BY <1>3 DEF Receive, server
  <2>2. TypeOK
    BY DEF Typed
  <2>3. /\ connFd \in Conns /\ pipe[connFd] # <<>> /\ \A c \in Conns \ {connFd} : pipe'[c] = pipe[c]
    BY <1>3, <2>2, ReceiveEffect DEF Receive
  <2>4. connFd \notin closed
    BY <1>3 DEF OneLife, UiOK, Receive
  <2>5. \A x \in Conns : Waiting(x)' => Waiting(x)
    BY <2>1 DEF Waiting, Accepting
  <2>6. \A x \in Conns :
          Waiting(x)' => x \notin clean' /\ conn_fd' # x /\ pipe'[x] = <<>> /\ sent'[x] = {}
    BY <2>1, <2>3, <2>5 DEF OneLife
  <2>7. \A x \in closed' : pipe'[x] = <<>>
    BY <2>1, <2>2, <2>3, <2>4 DEF OneLife, TypeOK
  <2> QED
    BY <2>1, <2>6, <2>7 DEF OneLife, UiOK, Accepting
<1>4. CASE RendererRound
  <2>1. UNCHANGED <<fresh, work, plan, conn_fd, emptying, pipe, sent, clean, inHand, ui, connFd, leaving, closed>>
    BY <1>4 DEF RendererRound, server
  <2>2. \A c : Accepting(c)' => Accepting(c)
    BY <2>1 DEF Accepting
  <2> QED
    BY <2>1, <2>2, OneLifeSame
<1> QED
  BY <1>1, <1>2, <1>3, <1>4

LEMMA OneLifeNext ==
  ASSUME Typed, OneLife, [Next]_vars PROVE OneLife'
<1>1. CASE UNCHANGED vars
  <2>1. UNCHANGED <<fresh, work, plan, conn_fd, emptying, pipe, sent, clean, inHand, ui, connFd, leaving, closed>>
    BY <1>1 DEF vars, server, activity
  <2>2. \A c : Accepting(c)' => Accepting(c)
    BY <2>1 DEF Accepting
  <2> QED
    BY <2>1, <2>2, OneLifeSame
<1>2. CASE Next
  BY <1>2, OneLifeGetXConnection, OneLifeInputThread, OneLifeRegisterDev, OneLifeServerStep,
     OneLifeServerCall, OneLifeActivity DEF Next
<1> QED
  BY <1>1, <1>2

--------------------------------------------------------------------------------
(***************************************************************************)
(* What travels and what is held was sent.                                 *)
(***************************************************************************)

(* As far as the pipes are concerned, the server's thread accepts, or sends *)
(* something about a buffer that is alive, or does nothing.                 *)
LEMMA StepKinds ==
  ASSUME Typed, ServerStep
  PROVE  /\ UNCHANGED <<fresh, root, emptying, activity>> /\ ~Idle
         /\ \/ AcceptStep
            \/ UNCHANGED <<conn_fd, pipe, sent, clean>>
            \/ \E b \in Buffers, type \in {"state", "add", "remove"} :
                 /\ Send(Msg(type, b)) /\ refcount[b] >= 1 /\ UNCHANGED <<conn_fd, clean>>
                 /\ type = "add" => Doing("add", b)
<1>1. ~Idle /\ UNCHANGED <<fresh, root, emptying, activity>> /\ root \in Buffers /\ refcount[root] = 1
  BY DEF ServerStep, Typed, TypeOK, Counted, Buffers
<1>2. CASE AcceptStep
  BY <1>1, <1>2
<1>3. CASE SendState /\ UNCHANGED clean
  BY <1>1, <1>3, StateEffect
<1>4. CASE CheckRegister /\ UNCHANGED clean
  BY <1>1, <1>4 DEF CheckRegister
<1>5. CASE SendAdd /\ UNCHANGED clean
  BY <1>1, <1>5, AddEffect
<1>6. CASE AddToList /\ UNCHANGED clean
  BY <1>1, <1>6 DEF AddToList
<1>7. CASE CheckUnregister /\ UNCHANGED clean
  BY <1>1, <1>7 DEF CheckUnregister
<1>8. CASE SendRemove /\ UNCHANGED clean
  <2>1. PICK b \in Buffers :
          /\ refcount[b] = 1
          /\ conn_fd = None => UNCHANGED <<pipe, sent>>
          /\ conn_fd # None => Send(Msg("remove", b))
          /\ UNCHANGED <<conn_fd, refcount>>
    BY <1>1, <1>8, RemoveEffect
  <2>2. refcount[b] >= 1
    BY <2>1
  <2> QED
    BY <1>1, <1>8, <2>1, <2>2
<1>9. CASE (Acquire \/ Release) /\ UNCHANGED clean
  BY <1>1, <1>9 DEF Acquire, Release
<1> QED
  BY <1>2, <1>3, <1>4, <1>5, <1>6, <1>7, <1>8, <1>9 DEF ServerStep

LEMMA SentSame ==
  ASSUME Typed, Sent, UNCHANGED <<pipe, sent, ui, connFd, leaving, mapped, added, attached>>,
         fresh' \subseteq fresh
  PROVE  Sent'
<1>1. HeldIsCurrent'
  BY DEF Sent, HeldIsCurrent, Owner, Held
<1> QED
  BY <1>1 DEF Sent

LEMMA SentSend ==
  ASSUME Typed, Sent, NEW b \in Buffers, NEW type \in {"state", "add", "remove"},
         refcount[b] >= 1, Send(Msg(type, b)),
         UNCHANGED <<fresh, ui, connFd, leaving, mapped, added, attached>>
  PROVE  Sent'
<1>1. TypeOK /\ b \notin fresh
  BY DEF Typed, Counted
<1> DEFINE msg == Msg(type, b)
<1>2. msg \in Messages /\ msg.type = type /\ msg.buffer = b
  BY <1>1, MsgTyped
<1> HIDE DEF msg
<1>3. CASE UNCHANGED <<pipe, sent>>
  BY <1>3, SentSame
<1>4. CASE ~UNCHANGED <<pipe, sent>>
  <2>1. /\ conn_fd \in Conns
        /\ Len(pipe'[conn_fd]) = Len(pipe[conn_fd]) + 1
        /\ pipe'[conn_fd][Len(pipe[conn_fd]) + 1] = msg
        /\ \A i \in 1 .. Len(pipe[conn_fd]) : pipe'[conn_fd][i] = pipe[conn_fd][i]
        /\ \A c \in Conns \ {conn_fd} : pipe'[c] = pipe[c]
        /\ sent' = IF msg.type = "add"
                     THEN [sent EXCEPT ![conn_fd] = sent[conn_fd] \union {msg.buffer}] ELSE sent
    BY <1>1, <1>2, <1>4, SendEffect DEF msg
  <2>2. /\ \A c \in Conns : sent[c] \subseteq sent'[c] /\ sent'[c] \subseteq sent[c] \union {b}
        /\ type = "add" => b \in sent'[conn_fd]
    BY <1>1, <1>2, <2>1 DEF TypeOK
  <2>3. \A c \in Conns : sent'[c] \cap fresh' = {}
    BY <1>1, <2>2 DEF Sent
  <2>4. ASSUME NEW c \in Conns, NEW i \in 1 .. Len(pipe'[c])
        PROVE  /\ pipe'[c][i].buffer \notin fresh'
               /\ pipe'[c][i].type = "add" => pipe'[c][i].buffer \in sent'[c]
    <3>1. CASE c = conn_fd /\ i = Len(pipe[c]) + 1
      BY <1>1, <1>2, <2>1, <2>2, <3>1
    <3>2. CASE ~(c = conn_fd /\ i = Len(pipe[c]) + 1)
      <4>1. pipe[c] \in Seq(Messages)
        BY <1>1 DEF TypeOK
      <4>2. i \in 1 .. Len(pipe[c]) /\ pipe'[c][i] = pipe[c][i]
        BY <2>1, <2>4, <3>2, <4>1, LenProperties
      <4> QED
        BY <2>2, <4>2 DEF Sent
    <3> QED
      BY <3>1, <3>2
  <2>5. HeldIsCurrent'
    <3>1. Owner' = Owner /\ Held' = Held /\ Owner \in Conns \union {None}
      BY <1>1 DEF Owner, Held, TypeOK
    <3> QED
      BY <2>2, <3>1 DEF Sent, HeldIsCurrent
  <2> QED
    BY <2>3, <2>4, <2>5 DEF Sent
<1> QED
  BY <1>3, <1>4

LEMMA SentLeave ==
  ASSUME Typed, OneLife, Sent, Leave, connFd' = None \/ connFd' = connFd PROVE Sent'
<1>1. TypeOK /\ connFd # None /\ CloseEnd
  BY DEF Typed, Leave
<1>2. /\ UNCHANGED <<fresh, sent, mapped, added, attached>>
      /\ ui = "ready" /\ ui' = "unmap" /\ leaving' = connFd /\ leaving = None
  BY DEF Leave, lists, OneLife, UiOK
<1>3. Owner = connFd /\ Owner' = connFd /\ Held' = Held
  BY <1>1, <1>2 DEF Owner, Held
<1>4. HeldIsCurrent'
  BY <1>1, <1>2, <1>3 DEF Sent, HeldIsCurrent
<1>5. ASSUME NEW c \in Conns, NEW i \in 1 .. Len(pipe'[c])
      PROVE  /\ pipe'[c][i].buffer \notin fresh'
             /\ pipe'[c][i].type = "add" => pipe'[c][i].buffer \in sent'[c]
  <2>1. c # connFd
    BY <1>1, <1>5, CloseEffect
  <2>2. pipe'[c] = pipe[c]
    BY <1>1, <2>1, CloseEffect
  <2> QED
    BY <1>2, <2>2 DEF Sent
<1> QED
  BY <1>2, <1>4, <1>5 DEF Sent

(* The renderer lets go of the state and then of the buffers, and only then *)
(* does connFd name the next connection.                                    *)
LEMMA SentUi ==
  ASSUME Typed, OneLife, Sent, Unmap \/ Forget \/ Adopt PROVE Sent'
<1>1. TypeOK /\ UiOK /\ HeldIsCurrent
  BY DEF Typed, OneLife, Sent
<1>2. CASE Unmap
  <2>1. UNCHANGED <<fresh, pipe, sent>> /\ Held' = Held /\ Owner' = Owner /\ mapped' = FALSE
    BY <1>1, <1>2 DEF Unmap, lists, Held, Owner, UiOK
  <2>2. HeldIsCurrent'
    BY <1>1, <2>1 DEF HeldIsCurrent
  <2> QED
    BY <2>1, <2>2 DEF Sent
<1>3. CASE Forget
  <2>1. UNCHANGED <<fresh, pipe, connFd, closed, mapped>> /\ Held' = {} /\ mapped = FALSE
    BY <1>1, <1>3 DEF Forget, RemoveAllBuffers, Held, HeldIsCurrent, TypeOK
  <2>2. HeldIsCurrent'
    BY <2>1 DEF HeldIsCurrent
  <2>3. /\ leaving \in Conns
        /\ \A c \in Conns : sent'[c] = IF c = leaving THEN {} ELSE sent[c]
    BY <1>1, <1>3 DEF Forget, TypeOK, UiOK
  <2>4. leaving \in closed
    BY <1>1, <1>3 DEF Forget, UiOK
  <2>5. Len(pipe[leaving]) = 0
    BY <2>4 DEF OneLife
  <2>6. ASSUME NEW c \in Conns, NEW i \in 1 .. Len(pipe'[c])
        PROVE  /\ pipe'[c][i].buffer \notin fresh'
               /\ pipe'[c][i].type = "add" => pipe'[c][i].buffer \in sent'[c]
    <3>1. c # leaving
      BY <2>1, <2>5, <2>6
    <3> QED
      BY <2>1, <2>3, <2>6, <3>1 DEF Sent
  <2>7. \A c \in Conns : sent'[c] \cap fresh' = {}
    BY <2>1, <2>3 DEF Sent
  <2> QED
    BY <2>2, <2>6, <2>7 DEF Sent
<1>4. CASE Adopt
  <2>1. UNCHANGED <<fresh, pipe, sent, mapped>> /\ Held' = Held /\ leaving = None
    BY <1>1, <1>4 DEF Adopt, lists, Held, UiOK
  <2>2. Owner = None
    BY <1>4, <2>1 DEF Adopt, Owner
  <2>3. Held = {} /\ ~mapped
    BY <1>1, <2>2 DEF HeldIsCurrent
  <2>4. HeldIsCurrent'
    BY <2>1, <2>3 DEF HeldIsCurrent
  <2> QED
    BY <2>1, <2>4 DEF Sent
<1> QED
  BY <1>2, <1>3, <1>4

(* What the activity reads joins or leaves what it holds. *)
LEMMA ReceiveHeld ==
  ASSUME Typed, Receive
  PROVE  Held' \subseteq Held \union {b \in Buffers : Is(connFd, 1, "add", b)}
<1> DEFINE msg == Head(pipe[connFd])
<1>1. TypeOK
  BY DEF Typed
<1>2. msg = pipe[connFd][1] /\ msg \in Messages
  BY <1>1, ReceiveEffect
<1>3. ReceiveAdd(msg) \/ ReceiveRemove(msg) \/ ReceiveState(msg)
  BY DEF Receive
<1>4. msg.buffer \in Buffers
  BY <1>2 DEF Messages
<1> HIDE DEF msg
<1>5. CASE ReceiveAdd(msg)
  BY <1>2, <1>4, <1>5 DEF ReceiveAdd, Held, Is
<1>6. CASE ReceiveRemove(msg)
  BY <1>6 DEF ReceiveRemove, Held
<1>7. CASE ReceiveState(msg)
  BY <1>7 DEF ReceiveState, Held, lists
<1> QED
  BY <1>3, <1>5, <1>6, <1>7

LEMMA SentReceive ==
  ASSUME Typed, OneLife, Sent, Receive PROVE Sent'
<1>1. TypeOK
  BY DEF Typed
<1>2. /\ connFd \in Conns /\ Len(pipe[connFd]) \in Nat /\ Len(pipe[connFd]) >= 1
      /\ Len(pipe'[connFd]) = Len(pipe[connFd]) - 1
      /\ \A i \in 1 .. Len(pipe'[connFd]) : pipe'[connFd][i] = pipe[connFd][i + 1]
      /\ \A c \in Conns \ {connFd} : pipe'[c] = pipe[c]
  BY <1>1, ReceiveEffect
<1>3. UNCHANGED <<fresh, sent, ui, connFd, leaving>> /\ connFd # None /\ ui = "ready" /\ leaving = None
  BY DEF Receive, OneLife, UiOK
<1>4. ASSUME NEW c \in Conns, NEW i \in 1 .. Len(pipe'[c])
      PROVE  /\ pipe'[c][i].buffer \notin fresh'
             /\ pipe'[c][i].type = "add" => pipe'[c][i].buffer \in sent'[c]
  <2>1. CASE c = connFd
    <3>1. i + 1 \in 1 .. Len(pipe[c]) /\ pipe'[c][i] = pipe[c][i + 1]
      BY <1>2, <2>1
    <3> QED
      BY <1>3, <3>1 DEF Sent
  <2>2. CASE c # connFd
    BY <1>2, <1>3, <2>2 DEF Sent
  <2> QED
    BY <2>1, <2>2
<1>5. HeldIsCurrent'
  <2>1. 1 \in 1 .. Len(pipe[connFd])
    BY <1>2
  <2>2. \A b : Is(connFd, 1, "add", b) => b \in sent[connFd]
    BY <1>2, <2>1 DEF Sent, Is
  <2>3. Held \subseteq sent[connFd]
    BY <1>3 DEF Sent, HeldIsCurrent, Owner
  <2>4. Held' \subseteq sent'[connFd']
    BY <1>3, <2>2, <2>3, ReceiveHeld
  <2> QED
    BY <1>3, <2>4 DEF HeldIsCurrent, Owner
<1> QED
  BY <1>3, <1>4, <1>5 DEF Sent

LEMMA SentNext ==
  ASSUME Typed, OneLife, Sent, [Next]_vars PROVE Sent'
<1>1. CASE UNCHANGED vars
  BY <1>1, SentSame DEF vars, activity, lists
<1>2. CASE \E c \in Conns : GetXConnection(c) \/ Broken(c)
  BY <1>2, SentSame DEF GetXConnection, Broken, activity, lists
<1>3. CASE RegisterDev \/ EmptyList
  BY <1>3, SentSame DEF RegisterDev, EmptyList, activity, lists
<1>4. CASE ServerStep
  <2>1. UNCHANGED <<fresh, ui, connFd, leaving, mapped, added, attached>> /\ ~Idle /\ UNCHANGED root
    BY <1>4, StepKinds DEF activity, lists
  <2>2. CASE AcceptStep
    BY <2>1, <2>2, SentSame DEF AcceptStep
  <2>3. CASE UNCHANGED <<pipe, sent>>
    BY <2>1, <2>3, SentSame
  <2> QED
    BY <1>4, <2>1, <2>2, <2>3, StepKinds, SentSend
<1>5. CASE ServerCall
  BY <1>5, CallEffect, SentSame DEF activity, lists
<1>6. CASE Hangup \/ BeginConnect
  BY <1>6, SentLeave DEF Hangup, BeginConnect
<1>7. CASE Unmap \/ Forget \/ Adopt
  BY <1>7, SentUi
<1>8. CASE Receive
  BY <1>8, SentReceive
<1>9. CASE RendererRound
  <2>1. UNCHANGED <<fresh, pipe, sent, mapped, ui>> /\ Held' = Held /\ Owner' = Owner
    BY <1>9 DEF RendererRound, Held, Owner
  <2>2. HeldIsCurrent'
    BY <2>1 DEF Sent, HeldIsCurrent
  <2> QED
    BY <2>1, <2>2 DEF Sent
<1> QED
  BY <1>1, <1>2, <1>3, <1>4, <1>5, <1>6, <1>7, <1>8, <1>9 DEF Next

LEMMA SentInit == Init => OneLife /\ Sent
<1> SUFFICES ASSUME Init PROVE OneLife /\ Sent
  OBVIOUS
<1>1. work = <<>> /\ plan = <<>> /\ \A c \in Conns : pipe[c] = <<>> /\ sent[c] = {}
  BY DEF Init
<1>2. Len(work) = 0 /\ \A c \in Conns : Len(pipe[c]) = 0
  BY <1>1
<1>3. \A c : ~Accepting(c)
  BY <1>1, Tuples DEF Accepting
<1>4. OneLife
  BY <1>1, <1>2, <1>3 DEF Init, OneLife, UiOK
<1>5. HeldIsCurrent
  BY DEF Init, HeldIsCurrent, Held
<1> QED
  BY <1>1, <1>2, <1>4, <1>5 DEF Sent

LEMMA AlwaysSent == Spec => [](Typed /\ OneLife /\ Sent)
<1>1. Typed /\ OneLife /\ Sent /\ [Next]_vars => (Typed /\ OneLife /\ Sent)'
  BY TypedNext, OneLifeNext, SentNext
<1> QED
  BY <1>1, TypedInit, SentInit, PTL DEF Spec

(* The renderer never has buffers of one connection with the state of       *)
(* another, however often the activity is hung up on or connects anew while *)
(* the server is still sending: close, setSharedState(nullptr) and          *)
(* removeAllBuffers are separate steps, the renderer attaches buffers       *)
(* between them, and nothing is left when the next connection is read.      *)
THEOREM HeldIsCurrentAlways == Spec => []HeldIsCurrent
<1>1. Sent => HeldIsCurrent
  BY DEF Sent
<1> QED
  BY <1>1, AlwaysSent, PTL

--------------------------------------------------------------------------------
(***************************************************************************)
(* What the renderer and the server's thread may assume about the buffers  *)
(* in their hands.                                                         *)
(***************************************************************************)
LEMMA UnlentReceive ==
  ASSUME Typed, Unlent, Receive PROVE Unlent'
<1> DEFINE msg == Head(pipe[connFd])
<1>1. TypeOK /\ Counted
  BY DEF Typed
<1>2. msg = pipe[connFd][1] /\ msg \in Messages /\ connFd \in Conns /\ 1 \in 1 .. Len(pipe[connFd])
  BY <1>1, ReceiveEffect
<1>3. ReceiveAdd(msg) \/ ReceiveRemove(msg) \/ ReceiveState(msg)
  BY DEF Receive
<1>4. /\ msg.buffer \in Buffers /\ msg.refcount \in 0 .. MaxRefs
      /\ msg.type = "add" => msg.refcount >= 1
  BY <1>1, <1>2 DEF Messages, Counted
<1> HIDE DEF msg
<1>5. CASE ReceiveAdd(msg)
  <2>1. /\ added' = added \union {msg.buffer} /\ copied' = [copied EXCEPT ![msg.buffer] = msg.refcount]
        /\ lent' = IF msg.refcount > 1 THEN lent \union {msg.buffer} ELSE lent
        /\ msg.refcount >= 1
    BY <1>4, <1>5 DEF ReceiveAdd
  <2>2. \A b \in Buffers : copied'[b] = IF b = msg.buffer THEN msg.refcount ELSE copied[b]
    BY <1>1, <1>4, <2>1 DEF TypeOK
  <2>3. \A b \in added : b \in Buffers /\ (b \in lent \/ copied[b] = 1)
    BY <1>1 DEF TypeOK, Unlent
  <2> QED
    BY <1>4, <2>1, <2>2, <2>3 DEF Unlent
<1>6. CASE ReceiveRemove(msg)
  <2>1. CASE msg.buffer \in added
    <3>1. /\ copied' = [copied EXCEPT ![msg.buffer] = copied[msg.buffer] - 1]
          /\ added' = IF copied[msg.buffer] = 1 THEN added \ {msg.buffer} ELSE added
          /\ lent' = lent
      BY <1>6, <2>1 DEF ReceiveRemove, Held
    <3>2. \A b \in Buffers \ {msg.buffer} : copied'[b] = copied[b]
      BY <1>1, <1>4, <3>1 DEF TypeOK
    <3>3. \A b \in added : b \in Buffers /\ (b \in lent \/ copied[b] = 1)
      BY <1>1 DEF TypeOK, Unlent
    <3> QED
      BY <3>1, <3>2, <3>3 DEF Unlent
  <2>2. CASE msg.buffer \notin added
    BY <1>6, <2>2 DEF ReceiveRemove, Unlent
  <2> QED
    BY <2>1, <2>2
<1>7. CASE ReceiveState(msg)
  BY <1>7 DEF ReceiveState, Unlent, lists
<1> QED
  BY <1>3, <1>5, <1>6, <1>7

LEMMA UnlentNext ==
  ASSUME Typed, Unlent, [Next]_vars PROVE Unlent'
<1>1. CASE UNCHANGED <<added, copied, lent>>
  BY <1>1 DEF Unlent
<1>2. CASE added' = {}
  BY <1>2 DEF Unlent
<1>3. CASE Hangup \/ BeginConnect \/ Unmap \/ Forget \/ Adopt
  BY <1>1, <1>2, <1>3 DEF Hangup, BeginConnect, Leave, Unmap, Forget, Adopt, RemoveAllBuffers, lists
<1>4. CASE Receive
  BY <1>4, UnlentReceive
<1>5. CASE RendererRound
  BY <1>2, <1>5 DEF RendererRound
<1>6. CASE UNCHANGED vars \/ ServerStep \/ ServerCall \/ RegisterDev \/ EmptyList
  BY <1>1, <1>6 DEF vars, ServerStep, ServerCall, RegisterDev, EmptyList, activity, lists
<1>7. CASE \E c \in Conns : GetXConnection(c) \/ Broken(c)
  BY <1>1, <1>7 DEF GetXConnection, Broken, activity, lists
<1> QED
  BY <1>3, <1>4, <1>5, <1>6, <1>7 DEF Next

LEMMA NotListedSame ==
  ASSUME NotListed, UNCHANGED <<plan, refcount>>, registered' \subseteq registered,
         conn_fd' = conn_fd \/ conn_fd' = None
  PROVE  NotListed'
BY DEF NotListed, Doing, Idle

(* A step after which the thread is not at these steps. *)
LEMMA NotListedElsewhere ==
  ASSUME Idle' \/ \E op \in {"state", "register", "list", "unregister", "remove", "acquire", "accept"} :
                     \E b : Doing(op, b)'
  PROVE  NotListed'
<1>1. \A b : ~Doing("add", b)' /\ ~Doing("release", b)'
  BY DoingOneNext DEF Doing
<1> QED
  BY <1>1 DEF NotListed

LEMMA NotListedServerStep ==
  ASSUME Typed, NotListed, ServerStep PROVE NotListed'
<1>1. ~Idle /\ UNCHANGED root
  BY DEF ServerStep
<1>2. CASE AcceptStep
  BY <1>1, <1>2, AcceptEffect, NotListedElsewhere
<1>3. CASE SendState
  BY <1>1, <1>3, StateEffect, NotListedElsewhere
<1>4. CASE CheckRegister
  <2>1. PICK b \in Buffers :
          /\ Idle' \/ Doing("acquire", b)' \/ (b \notin registered /\ Doing("add", b)')
          /\ UNCHANGED registered
    BY <1>1, <1>4, RegisterEffect
  <2>2. CASE Doing("add", b)' /\ b \notin registered
    <3>1. \A y : ~Doing("release", y)' /\ (Doing("add", y)' => y = b)
      BY <2>2, DoingOneNext
    <3> QED
      BY <2>1, <2>2, <3>1 DEF NotListed
  <2> QED
    BY <2>1, <2>2, NotListedElsewhere
<1>5. CASE SendAdd
  BY <1>1, <1>5, AddEffect, NotListedElsewhere
<1>6. CASE AddToList
  BY <1>1, <1>6, ListEffect, NotListedElsewhere
<1>7. CASE CheckUnregister
  <2>1. PICK b \in Buffers :
          /\ IF b \in registered THEN Doing("remove", b)' ELSE Doing("release", b)'
          /\ UNCHANGED registered
    BY <1>1, <1>7, UnregisterEffect
  <2>2. CASE Doing("release", b)' /\ b \notin registered
    <3>1. \A y : ~Doing("add", y)' /\ (Doing("release", y)' => y = b)
      BY <2>2, DoingOneNext
    <3> QED
      BY <2>1, <2>2, <3>1 DEF NotListed
  <2> QED
    BY <2>1, <2>2, NotListedElsewhere
<1>8. CASE SendRemove
  <2>1. PICK b \in Buffers :
          /\ Doing("release", b)'
          /\ conn_fd # None => registered' = registered \ {b}
          /\ UNCHANGED conn_fd
    BY <1>1, <1>8, RemoveEffect
  <2>2. \A y : ~Doing("add", y)' /\ (Doing("release", y)' => y = b)
    BY <2>1, DoingOneNext
  <2> QED
    BY <2>1, <2>2 DEF NotListed
<1>9. CASE Acquire
  BY <1>1, <1>9, AcquireEffect, NotListedElsewhere
<1>10. CASE Release
  BY <1>1, <1>10, ReleaseEffect, NotListedElsewhere
<1> QED
  BY <1>2, <1>3, <1>4, <1>5, <1>6, <1>7, <1>8, <1>9, <1>10 DEF ServerStep

LEMMA NotListedNext ==
  ASSUME Typed, NotListed, [Next]_vars PROVE NotListed'
<1>1. CASE UNCHANGED vars \/ Receive \/ RendererRound \/ EmptyList
  BY <1>1, NotListedSame DEF vars, server, Receive, RendererRound, EmptyList
<1>6. CASE Hangup \/ BeginConnect \/ Unmap \/ Forget \/ Adopt
  BY <1>6, NotListedSame DEF server, Hangup, BeginConnect, Leave, Unmap, Forget, Adopt
<1>2. CASE \E c \in Conns : GetXConnection(c) \/ Broken(c)
  BY <1>2, NotListedSame DEF GetXConnection, Broken
<1>3. CASE RegisterDev
  <2>1. PICK c : c = Head(work)
    OBVIOUS
  <2>2. plan' = <<Do("accept", c)>>
    BY <1>3, <2>1 DEF RegisterDev
  <2>3. Doing("accept", c)'
    BY <2>2, PlanHeads DEF Doing
  <2> QED
    BY <2>3, NotListedElsewhere
<1>4. CASE ServerStep
  BY <1>4, NotListedServerStep
<1>5. CASE ServerCall
  <2>1. \/ Idle'
        \/ \E b \in Buffers :
             \/ Doing("unregister", b)' \/ Doing("register", b)'
             \/ Doing("release", b)' /\ refcount'[b] > 1
    BY <1>5, CallEffect
  <2>2. ASSUME NEW b \in Buffers, Doing("release", b)', refcount'[b] > 1 PROVE NotListed'
    <3>1. \A y : ~Doing("add", y)' /\ (Doing("release", y)' => y = b)
      BY <2>2, DoingOneNext
    <3> QED
      BY <2>2, <3>1 DEF NotListed
  <2> QED
    BY <2>1, <2>2, NotListedElsewhere
<1> QED
  BY <1>1, <1>2, <1>3, <1>4, <1>5, <1>6 DEF Next

--------------------------------------------------------------------------------
(***************************************************************************)
(* A buffer is sent once, and what the activity was shown is accounted for *)
(* by the server.  First what a message sent does to the queue.            *)
(***************************************************************************)
(* The message about b joins the queue of f, which had n messages. *)
Joins(f, n, m, type, b) ==
  /\ f = conn_fd /\ \A c \in Conns \ {f} : pipe'[c] = pipe[c]
  /\ m = n + 1 /\ Len(pipe[f]) = n /\ Len(pipe'[f]) = m
  /\ \A t, y : \A i \in 1 .. n : Is(f, i, t, y)' <=> Is(f, i, t, y)
  /\ \A t, y : Is(f, m, t, y)' <=> t = type /\ y = b

LEMMA PipeSend ==
  ASSUME Typed, NEW b \in Buffers, NEW type \in {"state", "add", "remove"}, Send(Msg(type, b)),
         ~UNCHANGED pipe
  PROVE  \E f \in Conns \ closed : \E n, m \in Nat : Joins(f, n, m, type, b)
<1>1. TypeOK
  BY DEF Typed
<1>2. Msg(type, b) \in Messages /\ Msg(type, b).type = type /\ Msg(type, b).buffer = b
  BY <1>1, MsgTyped
<1>3. PICK f \in Conns \ closed : f = conn_fd
  BY <1>1, <1>2, SendEffect
<1>4. /\ Len(pipe'[f]) = Len(pipe[f]) + 1
      /\ pipe'[f][Len(pipe[f]) + 1] = Msg(type, b)
      /\ \A i \in 1 .. Len(pipe[f]) : pipe'[f][i] = pipe[f][i]
      /\ \A c \in Conns \ {f} : pipe'[c] = pipe[c]
  BY <1>1, <1>2, <1>3, SendEffect
<1>5. pipe[f] \in Seq(Messages)
  BY <1>1 DEF TypeOK
<1>6. PICK n \in Nat : n = Len(pipe[f])
  BY <1>5, LenProperties
<1>7. \A t, y : \A i \in 1 .. n : Is(f, i, t, y)' <=> Is(f, i, t, y)
  BY <1>4, <1>6 DEF Is
<1>8. PICK m \in Nat : m = n + 1
  OBVIOUS
<1>9. \A t, y : Is(f, m, t, y)' <=> t = type /\ y = b
  BY <1>2, <1>4, <1>6, <1>8 DEF Is
<1>10. m = n + 1 /\ Len(pipe[f]) = n /\ Len(pipe'[f]) = m
  BY <1>4, <1>6, <1>8
<1> QED
  BY <1>3, <1>4, <1>7, <1>9, <1>10 DEF Joins

(* What is about to be sent was not shown, nor taken back. *)
LEMMA NotShown ==
  ASSUME Typed, Tracked, NotListed, NEW b \in Buffers, Doing("add", b), refcount[b] >= 1,
         conn_fd \in clean, conn_fd \notin closed
  PROVE  ~Shown(conn_fd, b) /\ ~InPipe(conn_fd, "remove", b)
<1>1. b \notin registered /\ ~Doing("list", b) /\ ~Doing("release", b)
  BY DoingOne DEF NotListed
<1>2. refcount[b] # 0
  OBVIOUS
<1>3. ~Gone(b)
  BY <1>1, <1>2 DEF Gone
<1> QED
  BY <1>1, <1>3 DEF Tracked

LEMMA OnceSame ==
  ASSUME Once, UNCHANGED <<pipe, connFd, added, attached, clean>> PROVE Once'
BY DEF Once, Is, InPipe, Held

LEMMA OnceSend ==
  ASSUME Typed, Once, NEW b \in Buffers, NEW type \in {"state", "add", "remove"},
         Send(Msg(type, b)), UNCHANGED <<conn_fd, connFd, added, attached, clean>>,
         type = "add" /\ conn_fd \in clean /\ conn_fd \notin closed => ~Shown(conn_fd, b)
  PROVE  Once'
<1>1. CASE UNCHANGED pipe
  BY <1>1, OnceSame
<1>2. CASE ~UNCHANGED pipe
  <2>0. PICK f \in Conns \ closed, n \in Nat, m \in Nat : Joins(f, n, m, type, b)
    BY <1>2, PipeSend
  <2>1. /\ f = conn_fd /\ \A c \in Conns \ {f} : pipe'[c] = pipe[c]
        /\ m = n + 1 /\ Len(pipe[f]) = n /\ Len(pipe'[f]) = m
        /\ \A t, y : \A i \in 1 .. n : Is(f, i, t, y)' <=> Is(f, i, t, y)
        /\ \A t, y : Is(f, m, t, y)' <=> t = type /\ y = b
    BY <2>0 DEF Joins
  <2>2. ASSUME NEW c \in clean, NEW y \in Buffers, c # f
        PROVE  /\ \A i, j \in 1 .. Len(pipe'[c]) : Is(c, i, "add", y)' /\ Is(c, j, "add", y)' => i = j
               /\ c = connFd' /\ y \in Held' => ~InPipe(c, "add", y)'
    <3>1. pipe'[c] = pipe[c]
      BY <2>1, <2>2 DEF Typed, TypeOK
    <3> QED
      BY <3>1 DEF Once, Is, InPipe, Held
  <2>3. ASSUME NEW y \in Buffers, f \in clean
        PROVE  /\ \A i, j \in 1 .. Len(pipe'[f]) : Is(f, i, "add", y)' /\ Is(f, j, "add", y)' => i = j
               /\ f = connFd' /\ y \in Held' => ~InPipe(f, "add", y)'
    <3>1. CASE type = "add" /\ y = b
      <4>1. ~Shown(f, b)
        BY <2>1, <2>3, <3>1
      <4>2. \A i \in 1 .. Len(pipe[f]) : ~Is(f, i, "add", y)'
        BY <2>1, <3>1, <4>1 DEF Shown, InPipe
      <4>3. \A i \in 1 .. Len(pipe'[f]) : Is(f, i, "add", y)' => i = m
        BY <2>1, <4>2
      <4>4. ~(f = connFd' /\ y \in Held')
        BY <3>1, <4>1 DEF Shown, Held
      <4> QED
        BY <4>3, <4>4
    <3>2. CASE ~(type = "add" /\ y = b)
      <4>1. ~Is(f, m, "add", y)'
        BY <2>1, <3>2
      <4>2. \A i \in 1 .. Len(pipe'[f]) : Is(f, i, "add", y)' => i \in 1 .. Len(pipe[f]) /\ Is(f, i, "add", y)
        BY <2>1, <4>1
      <4>3. InPipe(f, "add", y)' => InPipe(f, "add", y)
        BY <4>2 DEF InPipe
      <4>4. f = connFd' /\ y \in Held' => ~InPipe(f, "add", y)'
        BY <2>3, <4>3 DEF Once, Held
      <4> QED
        BY <2>3, <4>2, <4>4 DEF Once
    <3> QED
      BY <3>1, <3>2
  <2>4. \A c \in clean, y \in Buffers : c = connFd' => y \notin added' \/ y \notin attached'
    BY DEF Once
  <2> QED
    BY <2>2, <2>3, <2>4 DEF Once
<1> QED
  BY <1>1, <1>2

(* A connection just accepted has no messages and shows nothing. *)
LEMMA AcceptedEmpty ==
  ASSUME Typed, OneLife, Sent, NEW c \in Conns, Accepting(c)
  PROVE  /\ pipe[c] = <<>> /\ Len(pipe[c]) = 0 /\ c \notin clean
         /\ c = connFd => Held = {}
<1>1. c \notin clean /\ pipe[c] = <<>> /\ sent[c] = {} /\ c # None
  BY DEF OneLife, Waiting
<1> QED
  BY <1>1 DEF Sent, HeldIsCurrent, Owner, OneLife, UiOK

LEMMA OnceAccept ==
  ASSUME Typed, OneLife, Sent, Once, ~Idle, AcceptStep, UNCHANGED <<root, activity>>
  PROVE  Once'
<1>1. PICK c \in Conns :
        /\ Accepting(c) /\ conn_fd' = c /\ UNCHANGED pipe
        /\ clean' = clean \/ clean' = clean \union {c}
  BY AcceptEffect
<1>2. Len(pipe[c]) = 0 /\ (c = connFd => Held = {})
  BY <1>1, AcceptedEmpty
<1>3. UNCHANGED <<connFd, added, attached>>
  BY DEF activity, lists
<1> QED
  BY <1>1, <1>2, <1>3 DEF Once, Is, InPipe, Held

LEMMA OnceReceive ==
  ASSUME Typed, Once, Receive PROVE Once'
<1> DEFINE msg == Head(pipe[connFd])
<1>1. TypeOK
  BY DEF Typed
<1>2. /\ connFd \in Conns /\ Len(pipe[connFd]) \in Nat /\ Len(pipe[connFd]) >= 1
      /\ msg = pipe[connFd][1] /\ msg \in Messages
      /\ Len(pipe'[connFd]) = Len(pipe[connFd]) - 1
      /\ \A i \in 1 .. Len(pipe'[connFd]) : pipe'[connFd][i] = pipe[connFd][i + 1]
      /\ \A c \in Conns \ {connFd} : pipe'[c] = pipe[c]
  BY <1>1, ReceiveEffect
<1>3. UNCHANGED <<connFd, clean>>
  BY DEF Receive
<1>4. PICK f \in Conns : f = connFd
  BY <1>2
<1>5. \A i \in 1 .. Len(pipe'[f]) : i + 1 \in 2 .. Len(pipe[f]) /\ i + 1 \in 1 .. Len(pipe[f])
  BY <1>2, <1>4
<1>6. \A t, y : \A i \in 1 .. Len(pipe'[f]) : Is(f, i, t, y)' <=> Is(f, i + 1, t, y)
  BY <1>2, <1>4 DEF Is
<1>7. \A t, y : InPipe(f, t, y)' => InPipe(f, t, y)
  BY <1>5, <1>6 DEF InPipe
<1>8. ReceiveAdd(msg) \/ ReceiveRemove(msg) \/ ReceiveState(msg)
  BY DEF Receive
<1>9. msg.buffer \in Buffers
  BY <1>2 DEF Messages
<1> HIDE DEF msg
<1>10. ASSUME NEW c \in clean, NEW y \in Buffers, c # f
       PROVE  /\ \A i, j \in 1 .. Len(pipe'[c]) : Is(c, i, "add", y)' /\ Is(c, j, "add", y)' => i = j
              /\ c # connFd'
  <2>1. pipe'[c] = pipe[c]
    BY <1>1, <1>2, <1>4, <1>10 DEF TypeOK
  <2> QED
    BY <1>3, <1>4, <1>10, <2>1 DEF Once, Is
<1>11. ASSUME NEW y \in Buffers, f \in clean
       PROVE  /\ \A i, j \in 1 .. Len(pipe'[f]) : Is(f, i, "add", y)' /\ Is(f, j, "add", y)' => i = j
              /\ y \in Held' => ~InPipe(f, "add", y)'
              /\ y \notin added' \/ y \notin attached'
  <2>1. \A i, j \in 1 .. Len(pipe[f]) : Is(f, i, "add", y) /\ Is(f, j, "add", y) => i = j
    BY <1>11 DEF Once
  <2>2. ASSUME NEW i \in 1 .. Len(pipe'[f]), NEW j \in 1 .. Len(pipe'[f]),
               Is(f, i, "add", y)', Is(f, j, "add", y)'
        PROVE  i = j
    <3>1. i + 1 = j + 1
      BY <1>5, <1>6, <2>1, <2>2
    <3> QED
      BY <1>2, <1>4, <2>2, <3>1
  <2>3. y \in Held => ~InPipe(f, "add", y)
    BY <1>4, <1>11 DEF Once
  <2>4. y \notin added \/ y \notin attached
    BY <1>4, <1>11 DEF Once
  <2>5. CASE ReceiveAdd(msg) /\ y = msg.buffer
    <3>1. 1 \in 1 .. Len(pipe[f]) /\ Is(f, 1, "add", y)
      BY <1>2, <1>4, <2>5 DEF ReceiveAdd, Is
    <3>2. ~InPipe(f, "add", y)'
      <4> SUFFICES ASSUME NEW i \in 1 .. Len(pipe'[f]), Is(f, i, "add", y)' PROVE FALSE
        BY DEF InPipe
      <4>1. i + 1 = 1
        BY <1>5, <1>6, <2>1, <3>1
      <4> QED
        BY <1>2, <1>4, <4>1
    <3>3. y \notin Held
      BY <2>3, <3>1 DEF InPipe
    <3>4. y \notin attached'
      BY <2>5, <3>3 DEF ReceiveAdd, Held
    <3> QED
      BY <2>2, <3>2, <3>4
  <2>6. CASE ~(ReceiveAdd(msg) /\ y = msg.buffer)
    <3>1. /\ y \in added' => y \in added
          /\ y \in attached' => y \in attached
      BY <1>8, <2>6 DEF ReceiveAdd, ReceiveRemove, ReceiveState, lists
    <3>2. y \in Held' => y \in Held
      BY <3>1 DEF Held
    <3>3. y \in Held' => ~InPipe(f, "add", y)'
      BY <1>7, <2>3, <3>2
    <3> QED
      BY <2>2, <2>4, <3>1, <3>3
  <2> QED
    BY <2>5, <2>6
<1> QED
  BY <1>3, <1>4, <1>10, <1>11 DEF Once

(* The UI thread's steps: a closed connection has no messages, and connFd   *)
(* names another only when nothing is held.                                 *)
LEMMA OnceUi ==
  ASSUME Typed, OneLife, Sent, Once, Hangup \/ BeginConnect \/ Unmap \/ Forget \/ Adopt
  PROVE  Once'
<1>1. TypeOK /\ clean \subseteq Conns /\ UNCHANGED clean
  BY DEF Typed, TypeOK, Hangup, BeginConnect, Leave, Unmap, Forget, Adopt
<1>2. CASE Hangup \/ BeginConnect
  <2>1. /\ connFd # None /\ CloseEnd /\ (connFd' = None \/ connFd' = connFd)
        /\ UNCHANGED <<added, attached>>
    BY <1>2 DEF Hangup, BeginConnect, Leave, lists
  <2>2. /\ connFd \in Conns /\ Len(pipe'[connFd]) = 0
        /\ \A c \in Conns \ {connFd} : pipe'[c] = pipe[c]
    BY <1>1, <2>1, CloseEffect
  <2>3. \A c \in clean, y \in Buffers :
          \A i, j \in 1 .. Len(pipe'[c]) : Is(c, i, "add", y)' /\ Is(c, j, "add", y)' => i = j
    <3> SUFFICES ASSUME NEW c \in clean, NEW y \in Buffers, c # connFd
                 PROVE  \A i, j \in 1 .. Len(pipe'[c]) : Is(c, i, "add", y)' /\ Is(c, j, "add", y)' => i = j
      BY <2>2
    <3>1. pipe'[c] = pipe[c]
      BY <1>1, <2>2
    <3> QED
      BY <3>1 DEF Once, Is
  <2>4. \A c \in clean, y \in Buffers : c = connFd' => ~InPipe(c, "add", y)'
    BY <1>1, <2>1, <2>2 DEF InPipe
  <2>5. \A c \in clean, y \in Buffers : c = connFd' => y \notin added' \/ y \notin attached'
    BY <1>1, <2>1 DEF Once
  <2> QED
    BY <1>1, <2>3, <2>4, <2>5 DEF Once
<1>3. CASE Unmap
  BY <1>3, OnceSame DEF Unmap, lists
<1>4. CASE Forget \/ Adopt
  <2>1. UNCHANGED pipe
    BY <1>4 DEF Forget, Adopt
  <2>2. Held' = {} /\ added' = {}
    <3>1. CASE Forget
      BY <3>1 DEF Forget, RemoveAllBuffers, Held
    <3>2. CASE Adopt
      <4>1. leaving = None /\ Owner = None
        BY <3>2 DEF Adopt, Owner, OneLife, UiOK
      <4>2. Held = {} /\ added = {}
        BY <4>1 DEF Sent, HeldIsCurrent, Held
      <4> QED
        BY <3>2, <4>2 DEF Adopt, lists, Held
    <3> QED
      BY <1>4, <3>1, <3>2
  <2> QED
    BY <1>1, <2>1, <2>2 DEF Once, Is
<1> QED
  BY <1>2, <1>3, <1>4

LEMMA OnceNext ==
  ASSUME Typed, Agreed, [Next]_vars PROVE Once'
<1>1. OneLife /\ Sent /\ Once /\ Tracked /\ NotListed
  BY DEF Agreed
<1>2. CASE UNCHANGED vars \/ ServerCall \/ RegisterDev \/ EmptyList
  BY <1>1, <1>2, OnceSame DEF vars, ServerCall, RegisterDev, EmptyList, activity, lists
<1>3. CASE \E c \in Conns : GetXConnection(c) \/ Broken(c)
  BY <1>1, <1>3, OnceSame DEF GetXConnection, Broken, activity, lists
<1>4. CASE ServerStep
  <2>1. UNCHANGED <<connFd, added, attached, root, activity>> /\ ~Idle
    BY <1>4, StepKinds DEF activity, lists
  <2>2. CASE AcceptStep
    BY <1>1, <2>1, <2>2, OnceAccept
  <2>3. CASE UNCHANGED <<conn_fd, pipe, sent, clean>>
    BY <1>1, <2>1, <2>3, OnceSame
  <2>4. ASSUME NEW b \in Buffers, NEW type \in {"state", "add", "remove"},
               Send(Msg(type, b)), refcount[b] >= 1, UNCHANGED <<conn_fd, clean>>,
               type = "add" => Doing("add", b)
        PROVE  Once'
    BY <1>1, <2>1, <2>4, OnceSend, NotShown
  <2> QED
    BY <1>4, <2>2, <2>3, <2>4, StepKinds
<1>5. CASE Hangup \/ BeginConnect \/ Unmap \/ Forget \/ Adopt
  BY <1>1, <1>5, OnceUi
<1>6. CASE Receive
  BY <1>1, <1>6, OnceReceive
<1>7. CASE RendererRound
  <2>1. UNCHANGED <<pipe, connFd, clean>> /\ Held' = Held /\ added' = {}
    BY <1>7 DEF RendererRound, Held
  <2> QED
    BY <1>1, <2>1 DEF Once, Is, InPipe
<1> QED
  BY <1>2, <1>3, <1>4, <1>5, <1>6, <1>7 DEF Next

--------------------------------------------------------------------------------
(* What is written to a connection that is not closed arrives. *)
LEMMA SendArrives ==
  ASSUME Typed, NEW b \in Buffers, NEW type \in {"state", "add", "remove"}, Send(Msg(type, b)),
         conn_fd \in Conns \ closed
  PROVE  ~UNCHANGED pipe
<1>1. TypeOK /\ conn_fd # None
  BY DEF Typed
<1>2. Msg(type, b) \in Messages
  BY <1>1, MsgTyped
<1>3. pipe' = [pipe EXCEPT ![conn_fd] = Append(pipe[conn_fd], Msg(type, b))]
  BY <1>1 DEF Send
<1>4. pipe[conn_fd] \in Seq(Messages) /\ pipe'[conn_fd] = Append(pipe[conn_fd], Msg(type, b))
  BY <1>1, <1>3 DEF TypeOK
<1>5. Len(pipe'[conn_fd]) = Len(pipe[conn_fd]) + 1 /\ Len(pipe[conn_fd]) \in Nat
  BY <1>2, <1>4, AppendProperties, LenProperties
<1> QED
  BY <1>5

(* A step that leaves the queues and the activity alone keeps a buffer that *)
(* was shown in the list, and one that is gone stays so.                    *)
Kept(b) ==
  /\ Gone(b) => Gone(b)'
  /\ b \in registered \/ Doing("list", b) => (b \in registered \/ Doing("list", b))'

LEMMA TrackedSame ==
  ASSUME Typed, Sent, Tracked, UNCHANGED <<pipe, connFd, added, attached, lent, clean>>,
         closed' = closed, conn_fd' = conn_fd \/ conn_fd' = None,
         conn_fd' \in clean => \A b \in Buffers : b \notin fresh => Kept(b)
  PROVE  Tracked'
<1> SUFFICES ASSUME NEW c \in clean, NEW b \in Buffers, c = conn_fd', c \notin closed
             PROVE  /\ Shown(c, b)' => \/ (b \in registered \/ Doing("list", b))'
                                       \/ /\ Gone(b)'
                                          /\ InPipe(c, "remove", b)' \/ (c = connFd /\ b \in Held \cap lent)'
                    /\ InPipe(c, "remove", b)' => Gone(b)'
                    /\ \A i, j \in 1 .. Len(pipe[c]) : Is(c, i, "remove", b)' /\ Is(c, j, "add", b)' => j < i
  BY DEF Tracked
<1>1. c \in Conns /\ c = conn_fd
  BY DEF Typed, TypeOK
<1>2. /\ InPipe(c, "remove", b)' <=> InPipe(c, "remove", b)
      /\ Shown(c, b)' <=> Shown(c, b)
      /\ \A i, t : Is(c, i, t, b)' <=> Is(c, i, t, b)
      /\ Held' = Held
  BY DEF InPipe, Shown, Is, Held
<1>3. Shown(c, b) \/ InPipe(c, "remove", b) => b \notin fresh
  <2>1. \A t : InPipe(c, t, b) => b \notin fresh
    BY <1>1 DEF InPipe, Is, Sent
  <2>2. c = connFd /\ b \in Held => b \notin fresh
    BY <1>1 DEF Sent, HeldIsCurrent, Owner, Typed, TypeOK
  <2> QED
    BY <2>1, <2>2 DEF Shown
<1>4. Shown(c, b) \/ InPipe(c, "remove", b) => Kept(b)
  BY <1>3
<1>5. /\ Shown(c, b) => \/ b \in registered \/ Doing("list", b)
                        \/ Gone(b) /\ (InPipe(c, "remove", b) \/ (c = connFd /\ b \in Held \cap lent))
      /\ InPipe(c, "remove", b) => Gone(b)
      /\ \A i, j \in 1 .. Len(pipe[c]) : Is(c, i, "remove", b) /\ Is(c, j, "add", b) => j < i
  BY <1>1 DEF Tracked
<1> QED
  BY <1>2, <1>4, <1>5 DEF Kept

LEMMA TrackedSend ==
  ASSUME Typed, Tracked, NEW b \in Buffers, NEW type \in {"state", "add", "remove"},
         Send(Msg(type, b)), UNCHANGED <<conn_fd, connFd, added, attached, lent, clean, closed>>,
         conn_fd \in clean /\ conn_fd \notin closed =>
           /\ type = "add" => Doing("list", b)' /\ ~InPipe(conn_fd, "remove", b)
           /\ type = "remove" => Gone(b)'
           /\ \A y \in Buffers : Kept(y) \/ (type = "remove" /\ y = b)
  PROVE  Tracked'
<1> SUFFICES ASSUME NEW c \in clean, NEW y \in Buffers, c = conn_fd, c \notin closed
             PROVE  /\ Shown(c, y)' => \/ (y \in registered \/ Doing("list", y))'
                                       \/ /\ Gone(y)'
                                          /\ InPipe(c, "remove", y)' \/ (c = connFd /\ y \in Held \cap lent)'
                    /\ InPipe(c, "remove", y)' => Gone(y)'
                    /\ \A i, j \in 1 .. Len(pipe'[c]) : Is(c, i, "remove", y)' /\ Is(c, j, "add", y)' => j < i
  BY DEF Tracked
<1>1. conn_fd \in Conns \ closed
  BY DEF Typed, TypeOK
<1>2. PICK f \in Conns \ closed, n \in Nat, m \in Nat : Joins(f, n, m, type, b)
  BY <1>1, SendArrives, PipeSend
<1>3. f = c
  BY <1>2 DEF Joins
<1>4. /\ m = n + 1 /\ Len(pipe[c]) = n /\ Len(pipe'[c]) = m
      /\ \A t : \A i \in 1 .. n : Is(c, i, t, y)' <=> Is(c, i, t, y)
      /\ \A t : Is(c, m, t, y)' <=> t = type /\ y = b
  BY <1>2, <1>3 DEF Joins
<1>5. \A i \in 1 .. m : i = m \/ i \in 1 .. n
  BY <1>4
<1>6. \A t : InPipe(c, t, y)' <=> InPipe(c, t, y) \/ (t = type /\ y = b)
  <2>1. \A i \in 1 .. n : i \in 1 .. m
    BY <1>4
  <2>2. m \in 1 .. m
    BY <1>4
  <2> QED
    BY <1>4, <1>5, <2>1, <2>2 DEF InPipe
<1>7. /\ Shown(c, y) => \/ y \in registered \/ Doing("list", y)
                        \/ Gone(y) /\ (InPipe(c, "remove", y) \/ (c = connFd /\ y \in Held \cap lent))
      /\ InPipe(c, "remove", y) => Gone(y)
      /\ \A i, j \in 1 .. Len(pipe[c]) : Is(c, i, "remove", y) /\ Is(c, j, "add", y) => j < i
  BY DEF Tracked
<1>8. /\ type = "add" => Doing("list", b)' /\ ~InPipe(c, "remove", b)
      /\ type = "remove" => Gone(b)'
      /\ Kept(y) \/ (type = "remove" /\ y = b)
  OBVIOUS
<1>9. Shown(c, y)' => Shown(c, y) \/ (type = "add" /\ y = b)
  BY <1>6 DEF Shown, Held
<1>10. Shown(c, y)' => \/ (y \in registered \/ Doing("list", y))'
                       \/ /\ Gone(y)'
                          /\ InPipe(c, "remove", y)' \/ (c = connFd /\ y \in Held \cap lent)'
  <2>1. CASE type = "add" /\ y = b
    BY <1>8, <2>1
  <2>2. CASE type = "remove" /\ y = b
    BY <1>6, <1>8, <2>2
  <2>3. CASE Shown(c, y) /\ Kept(y)
    BY <1>6, <1>7, <2>3 DEF Kept, Held
  <2> QED
    BY <1>8, <1>9, <2>1, <2>2, <2>3
<1>11. InPipe(c, "remove", y)' => Gone(y)'
  BY <1>6, <1>7, <1>8 DEF Kept
<1>12. ASSUME NEW i \in 1 .. m, NEW j \in 1 .. m, Is(c, i, "remove", y)', Is(c, j, "add", y)'
       PROVE  j < i
  <2>1. CASE i = m
    <3>1. j # m
      BY <1>4, <1>12, <2>1
    <3> QED
      BY <1>4, <2>1, <3>1
  <2>2. CASE i \in 1 .. n /\ j = m
    <3>1. type = "add" /\ y = b /\ InPipe(c, "remove", b)
      BY <1>4, <1>12, <2>2 DEF InPipe
    <3> QED
      BY <1>8, <3>1
  <2>3. CASE i \in 1 .. n /\ j \in 1 .. n
    BY <1>4, <1>7, <1>12, <2>3
  <2> QED
    BY <1>5, <2>1, <2>2, <2>3
<1> QED
  BY <1>4, <1>10, <1>11, <1>12

LEMMA TrackedAccept ==
  ASSUME Typed, OneLife, Sent, Tracked, ~Idle, AcceptStep, UNCHANGED <<root, activity>>
  PROVE  Tracked'
<1>1. PICK c \in Conns :
        /\ Accepting(c) /\ conn_fd' = c /\ UNCHANGED pipe
  BY AcceptEffect
<1>2. Len(pipe[c]) = 0 /\ (c = connFd => Held = {})
  BY <1>1, AcceptedEmpty
<1>3. UNCHANGED <<connFd, added, attached>>
  BY DEF activity, lists
<1>4. \A y : ~Shown(c, y)' /\ ~InPipe(c, "remove", y)'
  BY <1>1, <1>2, <1>3 DEF Shown, InPipe, Held
<1> QED
  BY <1>1, <1>2, <1>4 DEF Tracked

LEMMA KeptQuiet ==
  ASSUME NEW op, op # "release", op # "list", NEW x, Doing(op, x), UNCHANGED refcount,
         NEW b, b \in registered => b \in registered'
  PROVE  Kept(b)
<1>1. ~Doing("release", b) /\ ~Doing("list", b)
  BY DoingOne
<1> QED
  BY <1>1 DEF Kept, Gone

LEMMA TrackedServerStep ==
  ASSUME Typed, Agreed, ServerStep PROVE Tracked'
<1>1. OneLife /\ Sent /\ Tracked /\ NotListed
  BY DEF Agreed
<1>2. /\ ~Idle /\ UNCHANGED <<root, activity>>
      /\ UNCHANGED <<connFd, added, attached, lent, closed>>
  BY DEF ServerStep, activity, lists
<1>3. CASE AcceptStep
  BY <1>1, <1>2, <1>3, TrackedAccept
<1>4. CASE SendState /\ UNCHANGED clean
  <2>1. PICK r \in Buffers : r = root
    BY DEF Typed, TypeOK, Buffers
  <2>2. Doing("state", r) /\ Send(Msg("state", r)) /\ UNCHANGED <<conn_fd, registered, refcount>>
    BY <1>2, <1>4, <2>1, StateEffect
  <2>3. \A y \in Buffers : Kept(y)
    BY <2>2, KeptQuiet
  <2> QED
    BY <1>1, <1>2, <1>4, <2>2, <2>3, TrackedSend
<1>5. CASE CheckRegister /\ UNCHANGED clean
  <2>1. PICK b \in Buffers : Doing("register", b) /\ UNCHANGED <<conn_fd, registered, refcount, pipe>>
    BY <1>2, <1>5, RegisterEffect
  <2>2. \A y \in Buffers : Kept(y)
    BY <2>1, KeptQuiet
  <2> QED
    BY <1>1, <1>2, <1>5, <2>1, <2>2, TrackedSame
<1>6. CASE SendAdd /\ UNCHANGED clean
  <2>1. PICK b \in Buffers :
           /\ Doing("add", b) /\ refcount[b] >= 1
           /\ \/ conn_fd = None /\ UNCHANGED pipe
              \/ Send(Msg("add", b)) /\ Doing("list", b)'
           /\ UNCHANGED <<conn_fd, registered, refcount>>
    BY <1>2, <1>6, AddEffect
  <2>2. \A y \in Buffers : Kept(y)
    BY <2>1, KeptQuiet
  <2>3. CASE conn_fd = None /\ UNCHANGED pipe
    BY <1>1, <1>2, <1>6, <2>1, <2>2, <2>3, TrackedSame
  <2>4. CASE Send(Msg("add", b)) /\ Doing("list", b)'
    <3>1. conn_fd \in clean /\ conn_fd \notin closed => ~InPipe(conn_fd, "remove", b)
      BY <1>1, <2>1, NotShown
    <3> QED
      BY <1>1, <1>2, <1>6, <2>1, <2>2, <2>4, <3>1, TrackedSend
  <2> QED
    BY <2>1, <2>3, <2>4
<1>7. CASE AddToList /\ UNCHANGED clean
  <2>1. PICK b \in Buffers :
           /\ Doing("list", b)
           /\ registered' = registered \union {b} /\ UNCHANGED <<conn_fd, refcount, pipe>>
    BY <1>2, <1>7, ListEffect
  <2>2. ASSUME NEW y \in Buffers PROVE Kept(y)
    <3>1. ~Doing("release", y) /\ (Doing("list", y) => y = b)
      BY <2>1, DoingOne
    <3> QED
      BY <2>1, <3>1 DEF Kept, Gone
  <2> QED
    BY <1>1, <1>2, <1>7, <2>1, <2>2, TrackedSame
<1>8. CASE CheckUnregister /\ UNCHANGED clean
  <2>1. PICK b \in Buffers : Doing("unregister", b) /\ UNCHANGED <<conn_fd, registered, refcount, pipe>>
    BY <1>2, <1>8, UnregisterEffect
  <2>2. \A y \in Buffers : Kept(y)
    BY <2>1, KeptQuiet
  <2> QED
    BY <1>1, <1>2, <1>8, <2>1, <2>2, TrackedSame
<1>9. CASE SendRemove /\ UNCHANGED clean
  <2>1. PICK b \in Buffers :
           /\ Doing("remove", b) /\ refcount[b] = 1 /\ Doing("release", b)'
           /\ conn_fd = None => UNCHANGED <<registered, pipe>>
           /\ conn_fd # None => Send(Msg("remove", b)) /\ registered' = registered \ {b}
           /\ UNCHANGED <<conn_fd, refcount>>
    BY <1>2, <1>9, RemoveEffect
  <2>2. Gone(b)'
    BY <2>1 DEF Gone
  <2>3. CASE conn_fd = None
    <3>1. \A y \in Buffers : Kept(y)
      BY <2>1, <2>3, KeptQuiet
    <3> QED
      BY <1>1, <1>2, <1>9, <2>1, <2>3, <3>1, TrackedSame
  <2>4. CASE conn_fd # None
    <3>1. \A y \in Buffers : Kept(y) \/ y = b
      BY <2>1, <2>4, KeptQuiet
    <3> QED
      BY <1>1, <1>2, <1>9, <2>1, <2>2, <2>4, <3>1, TrackedSend
  <2> QED
    BY <2>3, <2>4
<1>10. CASE Acquire /\ UNCHANGED clean
  <2>1. PICK b \in Buffers :
           /\ Doing("acquire", b) /\ refcount[b] >= 1
           /\ \A y \in Buffers \ {b} : refcount'[y] = refcount[y]
           /\ UNCHANGED <<conn_fd, registered, pipe>>
    BY <1>2, <1>10, AcquireEffect
  <2>2. refcount[b] # 0
    BY <2>1
  <2>3. ASSUME NEW y \in Buffers PROVE Kept(y)
    <3>1. ~Doing("release", y) /\ ~Doing("list", y)
      BY <2>1, DoingOne
    <3> QED
      BY <2>1, <2>2, <3>1 DEF Kept, Gone
  <2> QED
    BY <1>1, <1>2, <1>10, <2>1, <2>3, TrackedSame
<1>11. CASE Release /\ UNCHANGED clean
  <2>1. PICK b \in Buffers :
           /\ Doing("release", b) /\ refcount[b] >= 1
           /\ refcount'[b] = refcount[b] - 1 /\ \A y \in Buffers \ {b} : refcount'[y] = refcount[y]
           /\ registered' = IF refcount[b] = 1 THEN registered \ {b} ELSE registered
           /\ UNCHANGED <<conn_fd, pipe>>
    BY <1>2, <1>11, ReleaseEffect
  <2>2. ASSUME NEW y \in Buffers, conn_fd # None PROVE Kept(y)
    <3>1. ~Doing("list", y) /\ (Doing("release", y) => y = b)
      BY <2>1, DoingOne
    <3>2. refcount[b] = 1 => b \notin registered
      BY <1>1, <2>1, <2>2 DEF NotListed
    <3>3. Gone(y) => refcount'[y] = 0
      <4>1. CASE y = b
        BY <2>1, <4>1 DEF Gone
      <4>2. CASE y # b
        BY <2>1, <3>1, <4>2 DEF Gone
      <4> QED
        BY <4>1, <4>2
    <3>4. Gone(y) => Gone(y)'
      BY <3>3 DEF Gone
    <3>5. y \in registered => y \in registered'
      BY <2>1, <3>2
    <3> QED
      BY <3>1, <3>4, <3>5 DEF Kept
  <2>3. None \notin clean
    BY DEF Typed, TypeOK
  <2> QED
    BY <1>1, <1>2, <1>11, <2>1, <2>2, <2>3, TrackedSame
<1> QED
  BY <1>3, <1>4, <1>5, <1>6, <1>7, <1>8, <1>9, <1>10, <1>11 DEF ServerStep

LEMMA TrackedServerCall ==
  ASSUME Typed, Sent, Tracked, ServerCall PROVE Tracked'
<1>1. /\ Idle /\ UNCHANGED <<conn_fd, registered, pipe, clean, activity>>
      /\ \A y \in Buffers : y \notin fresh => refcount'[y] = refcount[y]
  BY CallEffect
<1>2. UNCHANGED <<connFd, added, attached, lent, closed>>
  BY <1>1 DEF activity, lists
<1>3. ASSUME NEW b \in Buffers, b \notin fresh PROVE Kept(b)
  <2>1. ~Doing("release", b) /\ ~Doing("list", b)
    BY <1>1 DEF Doing
  <2> QED
    BY <1>1, <1>3, <2>1 DEF Kept, Gone
<1> QED
  BY <1>1, <1>2, <1>3, TrackedSame

(* The binder thread and the input thread, and a connection being taken     *)
(* from the work queue.                                                     *)
LEMMA TrackedOthers ==
  ASSUME Typed, OneLife, Sent, Tracked,
         \/ \E c \in Conns : GetXConnection(c) \/ Broken(c)
         \/ RegisterDev \/ EmptyList \/ UNCHANGED vars
  PROVE  Tracked'
<1>1. /\ UNCHANGED <<pipe, connFd, added, attached, lent, clean, closed, refcount>>
      /\ conn_fd' = conn_fd \/ conn_fd' = None
  BY DEF GetXConnection, Broken, RegisterDev, EmptyList, vars, server, activity, lists
<1>2. None \notin clean
  BY DEF Typed, TypeOK
<1>3. CASE UNCHANGED <<plan, registered>>
  <2>1. \A b : Kept(b)
    BY <1>1, <1>3 DEF Kept, Gone, Doing, Idle
  <2> QED
    BY <1>1, <2>1, TrackedSame
<1>4. CASE RegisterDev
  <2>1. Idle /\ UNCHANGED registered
    BY <1>4 DEF RegisterDev
  <2>2. \A b : Kept(b)
    BY <1>1, <2>1 DEF Kept, Gone, Doing
  <2> QED
    BY <1>1, <2>2, TrackedSame
<1>5. CASE EmptyList
  <2>1. conn_fd' \notin clean
    BY <1>5 DEF EmptyList, OneLife
  <2> QED
    BY <1>1, <2>1, TrackedSame
<1> QED
  BY <1>3, <1>4, <1>5 DEF GetXConnection, Broken, vars, server

(* The UI thread's steps concern connections that are closed, or that the   *)
(* activity has nothing of yet.                                             *)
LEMMA TrackedUi ==
  ASSUME Typed, OneLife, Sent, Tracked, Hangup \/ BeginConnect \/ Unmap \/ Forget \/ Adopt
  PROVE  Tracked'
<1>1. TypeOK /\ UiOK /\ clean \subseteq Conns
  BY DEF Typed, TypeOK, OneLife
<1>2. UNCHANGED <<clean, conn_fd, registered, refcount, plan>> /\ closed \subseteq closed'
  BY DEF Hangup, BeginConnect, Leave, CloseEnd, Unmap, Forget, Adopt, server
<1> SUFFICES ASSUME NEW c \in clean, NEW b \in Buffers, c = conn_fd, c \notin closed'
             PROVE  /\ Shown(c, b)' => \/ (b \in registered \/ Doing("list", b))'
                                       \/ Gone(b)' /\ InPipe(c, "remove", b)'
                    /\ InPipe(c, "remove", b)' => Gone(b)'
                    /\ \A i, j \in 1 .. Len(pipe'[c]) : Is(c, i, "remove", b)' /\ Is(c, j, "add", b)' => j < i
  BY <1>2 DEF Tracked
<1>3. c \in Conns /\ c # None /\ c \notin closed
  BY <1>1, <1>2
<1>4. /\ pipe'[c] = pipe[c]
      /\ c = connFd => Held = {}
      /\ c = connFd' => Held' = {}
  <2>1. CASE Hangup \/ BeginConnect
    <3>1. connFd # None /\ CloseEnd /\ (connFd' = None \/ connFd' = connFd)
      BY <2>1 DEF Hangup, BeginConnect, Leave
    <3>2. c # connFd
      BY <1>1, <3>1, CloseEffect
    <3> QED
      BY <1>1, <1>3, <3>1, <3>2, CloseEffect
  <2>2. CASE Unmap \/ Forget
    <3>1. UNCHANGED <<pipe, connFd>> /\ ui # "ready"
      BY <2>2 DEF Unmap, Forget
    <3> QED
      BY <1>1, <1>3, <3>1 DEF UiOK
  <2>3. CASE Adopt
    <3>1. leaving = None /\ Owner = None
      BY <1>1, <2>3 DEF Adopt, Owner, UiOK
    <3>2. Held = {} /\ Held' = Held
      BY <2>3, <3>1 DEF Sent, HeldIsCurrent, Adopt, lists, Held
    <3> QED
      BY <2>3, <3>2 DEF Adopt
  <2> QED
    BY <2>1, <2>2, <2>3
<1>5. /\ \A i, t : Is(c, i, t, b)' <=> Is(c, i, t, b)
      /\ \A t : InPipe(c, t, b)' <=> InPipe(c, t, b)
  BY <1>4 DEF Is, InPipe
<1>6. Shown(c, b)' => Shown(c, b)
  BY <1>4, <1>5 DEF Shown
<1>7. (Gone(b)' <=> Gone(b)) /\ (Doing("list", b)' <=> Doing("list", b))
  BY <1>2 DEF Gone, Doing, Idle
<1>8. /\ Shown(c, b) => b \in registered \/ Doing("list", b) \/ (Gone(b) /\ InPipe(c, "remove", b))
      /\ InPipe(c, "remove", b) => Gone(b)
      /\ \A i, j \in 1 .. Len(pipe[c]) : Is(c, i, "remove", b) /\ Is(c, j, "add", b) => j < i
  BY <1>3, <1>4 DEF Tracked
<1> QED
  BY <1>2, <1>4, <1>5, <1>6, <1>7, <1>8

(* A removal read: the buffer leaves what the activity holds, unless more   *)
(* references came with it.  Any other buffer stays.                        *)
LEMMA ReceiveRemoves ==
  ASSUME Typed, Unlent, Once, connFd \in clean, Receive, NEW y \in Buffers
  PROVE  /\ Is(connFd, 1, "remove", y) /\ y \in Held' => y \in lent'
         /\ ~Is(connFd, 1, "remove", y) /\ y \in Held => y \in Held'
         /\ y \in lent => y \in lent'
<1> DEFINE msg == Head(pipe[connFd])
<1>1. TypeOK
  BY DEF Typed
<1>2. msg = pipe[connFd][1] /\ msg \in Messages
  BY <1>1, ReceiveEffect
<1>3. ReceiveAdd(msg) \/ ReceiveRemove(msg) \/ ReceiveState(msg)
  BY DEF Receive
<1>4. y \notin added \/ y \notin attached
  BY DEF Once
<1>5. \A t : Is(connFd, 1, t, y) <=> msg.type = t /\ msg.buffer = y
  BY <1>2 DEF Is
<1> HIDE DEF msg
<1>6. CASE ReceiveAdd(msg)
  BY <1>5, <1>6 DEF ReceiveAdd, Held
<1>7. CASE ReceiveState(msg)
  BY <1>5, <1>7 DEF ReceiveState, lists, Held
<1>8. CASE ReceiveRemove(msg)
  <2>1. lent' = lent
    BY <1>8 DEF ReceiveRemove
  <2>2. CASE msg.buffer # y
    BY <1>5, <1>8, <2>1, <2>2 DEF ReceiveRemove, Held
  <2>3. CASE msg.buffer = y
    <3>1. Is(connFd, 1, "remove", y)
      BY <1>5, <1>8, <2>3 DEF ReceiveRemove
    <3>2. CASE y \in added
      <4>1. /\ added' = IF copied[y] = 1 THEN added \ {y} ELSE added
            /\ attached' = attached
        BY <1>8, <2>3, <3>2 DEF ReceiveRemove, Held
      <4>2. y \in lent \/ copied[y] = 1
        BY <3>2 DEF Unlent
      <4> QED
        BY <1>4, <2>1, <3>1, <3>2, <4>1, <4>2 DEF Held
    <3>3. CASE y \notin added
      BY <1>8, <2>1, <2>3, <3>1, <3>3 DEF ReceiveRemove, Held
    <3> QED
      BY <3>2, <3>3
  <2> QED
    BY <2>2, <2>3
<1> QED
  BY <1>3, <1>6, <1>7, <1>8

LEMMA TrackedReceive ==
  ASSUME Typed, Agreed, Receive PROVE Tracked'
<1>1. TypeOK /\ Tracked /\ Once /\ Unlent
  BY DEF Typed, Agreed
<1>2. /\ connFd \in Conns /\ Len(pipe[connFd]) \in Nat /\ Len(pipe[connFd]) >= 1
      /\ Len(pipe'[connFd]) = Len(pipe[connFd]) - 1
      /\ \A i \in 1 .. Len(pipe'[connFd]) : pipe'[connFd][i] = pipe[connFd][i + 1]
      /\ \A c \in Conns \ {connFd} : pipe'[c] = pipe[c]
  BY <1>1, ReceiveEffect
<1>3. UNCHANGED <<connFd, clean, closed, conn_fd, registered, refcount, plan>>
  BY DEF Receive, server
<1>4. \A b : (Gone(b)' <=> Gone(b)) /\ (Doing("list", b)' <=> Doing("list", b))
  BY <1>3 DEF Gone, Doing, Idle
<1> SUFFICES ASSUME NEW c \in clean, NEW b \in Buffers, c = conn_fd, c \notin closed
             PROVE  /\ Shown(c, b)' => \/ b \in registered \/ Doing("list", b)
                                       \/ /\ Gone(b)
                                          /\ InPipe(c, "remove", b)' \/ (c = connFd /\ b \in Held' \cap lent')
                    /\ InPipe(c, "remove", b)' => Gone(b)
                    /\ \A i, j \in 1 .. Len(pipe'[c]) : Is(c, i, "remove", b)' /\ Is(c, j, "add", b)' => j < i
  BY <1>3, <1>4 DEF Tracked
<1>5. /\ Shown(c, b) => \/ b \in registered \/ Doing("list", b)
                        \/ Gone(b) /\ (InPipe(c, "remove", b) \/ (c = connFd /\ b \in Held \cap lent))
      /\ InPipe(c, "remove", b) => Gone(b)
      /\ \A i, j \in 1 .. Len(pipe[c]) : Is(c, i, "remove", b) /\ Is(c, j, "add", b) => j < i
  BY <1>1 DEF Tracked
<1>6. CASE c # connFd
  <2>1. pipe'[c] = pipe[c]
    BY <1>1, <1>2, <1>6 DEF TypeOK
  <2>2. /\ \A i, t : Is(c, i, t, b)' <=> Is(c, i, t, b)
        /\ \A t : InPipe(c, t, b)' <=> InPipe(c, t, b)
        /\ Shown(c, b)' => Shown(c, b)
    BY <1>3, <1>6, <2>1 DEF Is, InPipe, Shown
  <2> QED
    BY <1>5, <1>6, <2>1, <2>2
<1>7. CASE c = connFd
  <2>1. PICK n \in Nat : n = Len(pipe'[c]) /\ Len(pipe[c]) = n + 1
    <3>1. Len(pipe'[c]) = Len(pipe[c]) - 1 /\ Len(pipe[c]) \in Nat /\ Len(pipe[c]) >= 1
      BY <1>2, <1>7
    <3>2. Len(pipe'[c]) \in Nat /\ Len(pipe[c]) = Len(pipe'[c]) + 1
      BY <3>1
    <3> QED
      BY <3>2
  <2>2. \A i \in 1 .. n : i + 1 \in 1 .. Len(pipe[c])
    BY <2>1
  <2>3. \A t : \A i \in 1 .. n : Is(c, i, t, b)' <=> Is(c, i + 1, t, b)
    BY <1>2, <1>7, <2>1 DEF Is
  <2>4. \A t : InPipe(c, t, b)' => InPipe(c, t, b)
    BY <2>1, <2>2, <2>3 DEF InPipe
  <2>5. \A t : InPipe(c, t, b) => InPipe(c, t, b)' \/ Is(c, 1, t, b)
    <3> SUFFICES ASSUME NEW t, NEW i \in 1 .. Len(pipe[c]), Is(c, i, t, b), i # 1
                 PROVE  InPipe(c, t, b)'
      BY DEF InPipe
    <3>1. PICK j \in 1 .. n : i = j + 1
      <4>1. i - 1 \in 1 .. n /\ i = (i - 1) + 1
        BY <2>1
      <4> QED
        BY <4>1
    <3>2. Is(c, j, t, b)'
      BY <2>3, <3>1
    <3> QED
      BY <2>1, <3>2 DEF InPipe
  <2>6. ASSUME NEW i \in 1 .. n, NEW j \in 1 .. n, Is(c, i, "remove", b)', Is(c, j, "add", b)'
        PROVE  j < i
    <3>1. j + 1 < i + 1
      BY <1>5, <2>2, <2>3, <2>6
    <3> QED
      BY <3>1
  <2>7. /\ Is(c, 1, "remove", b) /\ b \in Held' => b \in lent'
        /\ ~Is(c, 1, "remove", b) /\ b \in Held => b \in Held'
        /\ b \in lent => b \in lent'
    BY <1>1, <1>7, ReceiveRemoves
  <2>8. Shown(c, b)' => Shown(c, b)
    <3>1. 1 \in 1 .. Len(pipe[c])
      BY <2>1
    <3>2. b \in Held' => b \in Held \/ Is(c, 1, "add", b)
      BY <1>7, ReceiveHeld
    <3> QED
      BY <1>3, <1>7, <2>4, <3>1, <3>2 DEF Shown, InPipe
  <2>9. CASE Is(c, 1, "remove", b)
    <3>1. 1 \in 1 .. Len(pipe[c])
      BY <2>1
    <3>2. Gone(b)
      BY <1>5, <2>9, <3>1 DEF InPipe
    <3>3. ~InPipe(c, "add", b)
      <4> SUFFICES ASSUME NEW j \in 1 .. Len(pipe[c]), Is(c, j, "add", b) PROVE FALSE
        BY DEF InPipe
      <4>1. j < 1
        BY <1>5, <2>9, <3>1
      <4> QED
        BY <2>1, <4>1
    <3>4. Shown(c, b)' => b \in Held' \cap lent'
      BY <2>4, <2>7, <2>9, <3>3 DEF Shown
    <3> QED
      BY <1>7, <2>1, <2>6, <3>2, <3>4
  <2>10. CASE ~Is(c, 1, "remove", b)
    <3>1. InPipe(c, "remove", b)' <=> InPipe(c, "remove", b)
      BY <2>4, <2>5, <2>10
    <3>2. b \in Held \cap lent => b \in Held' \cap lent'
      BY <2>7, <2>10
    <3> QED
      BY <1>5, <1>7, <2>1, <2>6, <2>8, <3>1, <3>2
  <2> QED
    BY <2>9, <2>10
<1> QED
  BY <1>6, <1>7

LEMMA TrackedNext ==
  ASSUME Typed, Agreed, [Next]_vars PROVE Tracked'
<1>1. OneLife /\ Sent /\ Tracked
  BY DEF Agreed
<1>2. CASE \/ \E c \in Conns : GetXConnection(c) \/ Broken(c)
           \/ RegisterDev \/ EmptyList \/ UNCHANGED vars
  BY <1>1, <1>2, TrackedOthers
<1>3. CASE ServerStep
  BY <1>3, TrackedServerStep
<1>4. CASE ServerCall
  BY <1>1, <1>4, TrackedServerCall
<1>5. CASE Hangup \/ BeginConnect \/ Unmap \/ Forget \/ Adopt
  BY <1>1, <1>5, TrackedUi
<1>6. CASE Receive
  BY <1>6, TrackedReceive
<1>7. CASE RendererRound
  <2>1. /\ UNCHANGED <<clean, conn_fd, registered, refcount, plan, pipe, connFd, closed, lent>>
        /\ Held' = Held
    BY <1>7 DEF RendererRound, server, Held
  <2>2. \A c, b : /\ \A i, t : Is(c, i, t, b)' <=> Is(c, i, t, b)
                  /\ \A t : InPipe(c, t, b)' <=> InPipe(c, t, b)
                  /\ Shown(c, b)' <=> Shown(c, b)
    BY <2>1 DEF Is, InPipe, Shown
  <2>3. \A b : (Gone(b)' <=> Gone(b)) /\ (Doing("list", b)' <=> Doing("list", b))
    BY <2>1 DEF Gone, Doing, Idle
  <2> QED
    BY <1>1, <2>1, <2>2, <2>3 DEF Tracked
<1> QED
  BY <1>2, <1>3, <1>4, <1>5, <1>6, <1>7 DEF Next

LEMMA AgreedInit == Init => Agreed
<1> SUFFICES ASSUME Init PROVE Agreed
  OBVIOUS
<1>1. Idle /\ clean = {} /\ added = {}
  BY DEF Init, Idle
<1>2. Once /\ Tracked /\ Unlent
  BY <1>1 DEF Once, Tracked, Unlent
<1>3. NotListed
  BY <1>1 DEF NotListed, Doing
<1> QED
  BY <1>2, <1>3, SentInit DEF Agreed

LEMMA AlwaysAgreed == Spec => [](Typed /\ Agreed)
<1>1. ASSUME Typed, Agreed, [Next]_vars PROVE Typed' /\ Agreed'
  <2>1. OneLife /\ Sent /\ Unlent /\ NotListed
    BY <1>1 DEF Agreed
  <2>2. Typed' /\ OneLife' /\ Sent' /\ Unlent' /\ NotListed'
    BY <1>1, <2>1, TypedNext, OneLifeNext, SentNext, UnlentNext, NotListedNext
  <2>3. Once' /\ Tracked'
    BY <1>1, OnceNext, TrackedNext
  <2> QED
    BY <2>2, <2>3 DEF Agreed
<1> QED
  BY <1>1, TypedInit, AgreedInit, PTL DEF Spec

(* A set with no two different elements. *)
LEMMA AtMostOne ==
  ASSUME NEW S, \A x, y \in S : x = y PROVE Cardinality(S) <= 1
<1>1. CASE S = {}
  BY <1>1, FS_EmptySet
<1>2. CASE S # {}
  <2>1. PICK x : S = {x}
    BY <1>2
  <2> QED
    BY <2>1, FS_Singleton
<1> QED
  BY <1>1, <1>2

(* lorieRegisterBuffer sends a buffer at most once on a connection that was *)
(* accepted cleanly: the check of the list, the write and the insertion are *)
(* separate steps, and resizing, presenting and destroying go on between    *)
(* them and what the activity reads, but nothing is sent that is still in   *)
(* the socket or in the activity's hands.                                   *)
THEOREM SentOnceAlways == Spec => []SentOnce
<1>1. ASSUME Typed, Agreed PROVE SentOnce
  <2> SUFFICES ASSUME NEW c \in clean, NEW b \in Buffers
               PROVE  Cardinality(Adds(c, b)) <= IF c = connFd /\ b \in Held THEN 0 ELSE 1
    BY DEF SentOnce
  <2>1. pipe[c] \in Seq(Messages)
    BY <1>1 DEF Typed, TypeOK
  <2>2. Adds(c, b) = {i \in 1 .. Len(pipe[c]) : Is(c, i, "add", b)}
    BY <2>1 DEF Adds, Is
  <2>3. /\ \A i, j \in 1 .. Len(pipe[c]) : Is(c, i, "add", b) /\ Is(c, j, "add", b) => i = j
        /\ c = connFd /\ b \in Held => ~InPipe(c, "add", b)
    BY <1>1 DEF Agreed, Once
  <2>4. \A i, j \in Adds(c, b) : i = j
    BY <2>2, <2>3
  <2>5. CASE c = connFd /\ b \in Held
    <3>1. Adds(c, b) = {}
      BY <2>2, <2>3, <2>5 DEF InPipe
    <3> QED
      BY <2>5, <3>1, FS_EmptySet
  <2>6. CASE ~(c = connFd /\ b \in Held)
    BY <2>4, <2>6, AtMostOne
  <2> QED
    BY <2>5, <2>6
<1> QED
  BY <1>1, AlwaysAgreed, PTL

(* On such a connection, once everything was read and the server is not in  *)
(* a call, the activity holds no buffer that lorieUnregisterBuffer dropped, *)
(* except one whose reference count travelled with it.                      *)
THEOREM NothingStaleAlways == Spec => []NothingStale
<1>1. ASSUME Typed, Agreed PROVE NothingStale
  <2> SUFFICES ASSUME ui = "ready", connFd \in clean, connFd = conn_fd, Idle, pipe[connFd] = <<>>, NEW b \in Held
               PROVE  b \in registered \union lent
    BY DEF NothingStale
  <2>1. b \in Buffers
    BY <1>1 DEF Typed, TypeOK, Held
  <2>2. connFd \notin closed
    BY <1>1 DEF Agreed, OneLife, UiOK
  <2>3. Len(pipe[connFd]) = 0
    OBVIOUS
  <2>4. ~InPipe(connFd, "remove", b)
    BY <2>3 DEF InPipe
  <2>5. ~Doing("list", b) /\ Shown(connFd, b)
    BY DEF Doing, Shown
  <2> QED
    BY <1>1, <2>1, <2>2, <2>4, <2>5 DEF Agreed, Tracked
<1> QED
  BY <1>1, AlwaysAgreed, PTL
===============================================================================
