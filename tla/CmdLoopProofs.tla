---------------------------- MODULE CmdLoopProofs ---------------------------
(***************************************************************************)
(* Proofs about CmdLoop: what the handlers keep whoever calls, the command *)
(* loop keeps.                                                             *)
(***************************************************************************)
EXTENDS CmdLoop, NamespaceProofs

\* The calls are of Namespace's types; the loop itself touches nothing else.
CInv == NInv /\ put \in [path : Paths, word : Words \cup {0}]

LEMMA NoPutType == NoPut \in [path : Paths, word : Words \cup {0}]
<1>1. <<>> \in Paths
  BY Ranges DEF Paths
<1>. QED  BY <1>1 DEF NoPut

LEMMA CmdInitKeeps == CmdInit => CInv
BY InitKeeps, NoPutType DEF CmdInit, CInv

LEMMA CmdStepKeeps == CInv /\ [CmdNext]_cmdVars /\ InPlace' => CInv'
<1>. SUFFICES ASSUME CInv, [CmdNext]_cmdVars, InPlace' PROVE CInv'
  OBVIOUS
<1>. DEFINE Puts == [path : Paths, word : Words \cup {0}]
<1>1. NInv /\ put \in Puts /\ NoPut \in Puts
  BY NoPutType DEF CInv
<1>2. <<>> \in Paths /\ {"mknod", "write"} \subseteq Ops
  BY Ranges, CmdLoopAssumption DEF Paths
<1>. SUFFICES NInv' /\ put' \in Puts
  BY DEF CInv
<1>. HIDE DEF Puts
<1>3. ASSUME NEW arg \in Arguments \cup {<<>>}, NEW absolute \in BOOLEAN,
             NEW slash \in BOOLEAN, do_cd(arg, absolute, slash)
      PROVE  NInv' /\ put' \in Puts
  BY <1>1, <1>3, StepKeeps DEF do_cd
<1>4. ASSUME NEW slash \in BOOLEAN, NEW p \in Typed(slash),
             NEW op \in Ops \cap {"mkdir", "rmdir", "unlink", "chmod"}, Command(op, p, slash)
      PROVE  NInv' /\ put' \in Puts
  <2>1. p \in Paths /\ op \in Ops /\ 0 \in Words \cup {0}
    BY DEF Typed
  <2>2. Call(op, p, <<>>, slash, 0) /\ put' = put
    BY <1>4 DEF Command
  <2>. QED  BY <1>1, <1>2, <2>1, <2>2, CallKeeps
<1>5. ASSUME NEW slash \in BOOLEAN, NEW p \in Typed(slash), NEW w \in Words, do_put(p, slash, w)
      PROVE  NInv' /\ put' \in Puts
  <2>1. p \in Paths /\ "mknod" \in Ops /\ 0 \in Words \cup {0}
    BY <1>2 DEF Typed
  <2>2. Call("mknod", p, <<>>, slash, 0) /\ put' = [path |-> p, word |-> w]
    BY <1>5 DEF do_put
  <2>3. put' \in Puts
    BY <2>1, <2>2 DEF Puts
  <2>. QED  BY <1>1, <1>2, <2>1, <2>2, <2>3, CallKeeps
<1>6. CASE PutReturn
  BY <1>1, <1>6, ReturnKeeps DEF PutReturn
<1>7. CASE PutWrite
  <2>1. put.path \in Paths /\ put.word \in Words \cup {0} /\ "write" \in Ops /\ FALSE \in BOOLEAN
    BY <1>1, <1>2 DEF Puts
  <2>2. Call("write", put.path, <<>>, FALSE, put.word) /\ put' = put
    BY <1>7 DEF PutWrite
  <2>. QED  BY <1>1, <1>2, <2>1, <2>2, CallKeeps
<1>8. CASE PutWriteUndefined
  BY <1>1, <1>8, StepKeeps DEF PutWriteUndefined
<1>9. CASE RmdirRoot
  <2>1. pc \notin {"clear", "mark"} /\ Abort /\ UNCHANGED image /\ put' = put
    BY <1>9 DEF RmdirRoot, Starts
  <2>. QED  BY <1>1, <2>1, EndKeeps
<1>10. CASE Handle
  BY <1>1, <1>10, HandlerKeeps DEF Handle
<1>11. CASE Restart
  BY <1>1, <1>11, ReturnKeeps DEF Restart
<1>12. CASE UNCHANGED cmdVars
  BY <1>1, <1>12, StepKeeps DEF cmdVars
<1>. QED
  BY <1>3, <1>4, <1>5, <1>6, <1>7, <1>8, <1>9, <1>10, <1>11, <1>12 DEF CmdNext

\* What has been written out of its place ends the commands, too.
LEMMA CmdOverrunEnds == ~InPlace /\ [CmdNext]_cmdVars => ~InPlace'
<1>. SUFFICES ASSUME pc = "overrun", [CmdNext]_cmdVars PROVE pc' = "overrun"
  BY DEF InPlace
<1>1. ASSUME NEW op, NEW p, NEW d, NEW slash, NEW w, Call(op, p, d, slash, w) PROVE FALSE
  BY <1>1 DEF Call
<1>2. CASE Handle
  <2>1. UNCHANGED vars
    BY <1>2, OverrunEnds DEF Handle, Next, InPlace
  <2>. QED  BY <2>1 DEF vars
<1>3. CASE UNCHANGED cmdVars
  BY <1>3 DEF cmdVars, vars
<1>. QED
  BY <1>1, <1>2, <1>3 DEF CmdNext, do_cd, Command, do_put, PutReturn, Return, PutWrite,
     PutWriteUndefined, RmdirRoot, Starts, Restart, Mount

\* No sequence of commands, typed in any working directory and with a "/" at the
\* end of their paths or not, makes two linked inodes share a block.
THEOREM CommandsKeepBlocksApart == CmdSpec => []BlocksApart
<1>1. (InPlace => CInv) /\ [CmdNext]_cmdVars => (InPlace' => CInv')
  BY CmdStepKeeps, CmdOverrunEnds
<1>2. (InPlace => CInv) => BlocksApart
  BY HeldApart DEF CInv
<1>. QED  BY <1>1, <1>2, CmdInitKeeps, PTL DEF CmdSpec
-----------------------------------------------------------------------------
(***************************************************************************)
(* What is typed is below the working directory.                           *)
(***************************************************************************)
Typable == Names \cup {DotDot}

\* What holds of 0, and of a number if of the one before it, holds up to n.
LEMMA CountingUp ==
    ASSUME NEW n \in Nat, NEW S, 0 \in S, \A k \in 1 .. n : k - 1 \in S => k \in S
    PROVE  0 .. n \subseteq S
<1>. DEFINE T == (0 .. n) \ S
<1>. SUFFICES ASSUME T # {} PROVE FALSE
  OBVIOUS
<1>0. T \in SUBSET Nat
  OBVIOUS
<1>1. PICK k \in T : \A x \in T : k <= x
  <2>. HIDE DEF T
  <2>. QED  BY <1>0, LeastExists
<1>2. k \in 1 .. n /\ k - 1 \in 0 .. n
  BY <1>1
<1>3. k - 1 \in S
  BY <1>1, <1>2
<1>. QED  BY <1>1, <1>2, <1>3

\* The names that are left of a path are defined for every path.
LEMMA WithoutIsDefined ==
    ASSUME NEW p \in Seq(Typable)
    PROVE  without(p) = [n \in 0 .. Len(p) |->
               IF n = 0 THEN <<>>
               ELSE IF p[n] = DotDot THEN without(p)[n - 1]
               ELSE Append(without(p)[n - 1], p[n])]
<1>. DEFINE Step(f, n) == IF n = 0 THEN <<>>
                          ELSE IF p[n] = DotDot THEN f[n - 1] ELSE Append(f[n - 1], p[n])
            S == {k \in 0 .. Len(p) : \E f : f = [n \in 0 .. k |-> Step(f, n)]}
<1>1. Len(p) \in Nat
  OBVIOUS
<1>2. 0 \in S
  <2>1. [n \in 0 .. 0 |-> <<>>] = [n \in 0 .. 0 |-> Step([m \in 0 .. 0 |-> <<>>], n)]
    OBVIOUS
  <2>2. \E f : f = [n \in 0 .. 0 |-> Step(f, n)]
    BY <2>1
  <2>3. 0 \in 0 .. Len(p)
    BY <1>1
  <2>. HIDE DEF Step
  <2>. QED  BY <2>2, <2>3
<1>3. ASSUME NEW k \in 1 .. Len(p), k - 1 \in S
      PROVE  k \in S
  <2>1. PICK g : g = [n \in 0 .. k - 1 |-> Step(g, n)]
    BY <1>3
  <2>. DEFINE new == IF p[k] = DotDot THEN g[k - 1] ELSE Append(g[k - 1], p[k])
              f == [n \in 0 .. k |-> IF n = k THEN new ELSE g[n]]
  <2>2. \A n \in 0 .. k - 1 : f[n] = g[n]
    BY <1>1
  <2>3. ASSUME NEW n \in 0 .. k
        PROVE  f[n] = Step(f, n)
    <3>1. CASE n = 0
      <4>1. f[0] = g[0] /\ g[0] = <<>>
        BY <1>1, <2>1, <2>2
      <4>. QED  BY <3>1, <4>1
    <3>2. CASE n = k
      <4>1. f[k - 1] = g[k - 1] /\ f[k] = new
        BY <1>1, <2>2
      <4>. QED  BY <1>1, <3>2, <4>1
    <3>3. CASE n \in 1 .. k - 1
      <4>1. f[n] = g[n] /\ f[n - 1] = g[n - 1] /\ n # 0
        BY <1>1, <2>2, <3>3
      <4>2. g[n] = Step(g, n)
        <5>1. n \in 0 .. k - 1
          BY <3>3
        <5>. HIDE DEF Step
        <5>. QED  BY <2>1, <5>1
      <4>. QED  BY <4>1, <4>2
    <3>. QED  BY <1>1, <3>1, <3>2, <3>3
  <2>4. f = [n \in 0 .. k |-> Step(f, n)]
    <3>1. f = [n \in 0 .. k |-> f[n]]
      OBVIOUS
    <3>. HIDE DEF f
    <3>. QED  BY <2>3, <3>1
  <2>5. k \in 0 .. Len(p)
    BY <1>1
  <2>. QED  BY <2>4, <2>5
<1>4. Len(p) \in S
  <2>. HIDE DEF S
  <2>1. 0 .. Len(p) \subseteq S
    BY <1>1, <1>2, <1>3, CountingUp
  <2>. QED  BY <1>1, <2>1
<1>5. \E f : f = [n \in 0 .. Len(p) |-> Step(f, n)]
  BY <1>4
<1>6. without(p) = CHOOSE f : f = [n \in 0 .. Len(p) |-> Step(f, n)]
  BY DEF without
<1>. HIDE DEF Step
<1>7. without(p) = [n \in 0 .. Len(p) |-> Step(without(p), n)]
  BY <1>5, <1>6
<1>. QED  BY <1>7 DEF Step

\* They are names, and the first ones are those of the path's beginning.
LEMMA WithoutStarts ==
    ASSUME NEW p \in Seq(Typable), NEW q \in Seq(Typable)
    PROVE  LET w == without(p)
               v == without(p \o q)
           IN  /\ \A n \in 0 .. Len(p) : w[n] \in Seq(Names) /\ v[n] = w[n]
               /\ \A n \in 0 .. Len(q) :
                     /\ v[Len(p) + n] \in Seq(Names)
                     /\ Len(v[Len(p) + n]) >= Len(w[Len(p)])
                     /\ \A i \in 1 .. Len(w[Len(p)]) : v[Len(p) + n][i] = w[Len(p)][i]
<1>. DEFINE w == without(p)
            v == without(p \o q)
            W == w[Len(p)]
            S == {n \in 0 .. Len(p) : w[n] \in Seq(Names) /\ v[n] = w[n]}
            T == {n \in 0 .. Len(q) :
                     /\ v[Len(p) + n] \in Seq(Names)
                     /\ Len(v[Len(p) + n]) >= Len(W)
                     /\ \A i \in 1 .. Len(W) : v[Len(p) + n][i] = W[i]}
<1>1. /\ Len(p) \in Nat /\ Len(q) \in Nat /\ Len(p \o q) = Len(p) + Len(q)
      /\ \A n \in 1 .. Len(p) : (p \o q)[n] = p[n] /\ p[n] \in Typable
      /\ \A n \in 1 .. Len(q) : (p \o q)[Len(p) + n] = q[n] /\ q[n] \in Typable
      /\ p \o q \in Seq(Typable)
  OBVIOUS
<1>2. /\ w[0] = <<>> /\ v[0] = <<>>
      /\ \A n \in 1 .. Len(p) :
            w[n] = IF p[n] = DotDot THEN w[n - 1] ELSE Append(w[n - 1], p[n])
      /\ \A n \in 1 .. Len(p) + Len(q) :
            v[n] = IF (p \o q)[n] = DotDot THEN v[n - 1] ELSE Append(v[n - 1], (p \o q)[n])
  <2>1. w = [n \in 0 .. Len(p) |->
                IF n = 0 THEN <<>>
                ELSE IF p[n] = DotDot THEN w[n - 1] ELSE Append(w[n - 1], p[n])]
    BY WithoutIsDefined
  <2>2. v = [n \in 0 .. Len(p) + Len(q) |->
                IF n = 0 THEN <<>>
                ELSE IF (p \o q)[n] = DotDot THEN v[n - 1] ELSE Append(v[n - 1], (p \o q)[n])]
    BY <1>1, WithoutIsDefined
  <2>. HIDE DEF w, v
  <2>3. w[0] = <<>> /\ v[0] = <<>>
    <3>1. 0 \in 0 .. Len(p) /\ 0 \in 0 .. Len(p) + Len(q)
      BY <1>1
    <3>. QED  BY <2>1, <2>2, <3>1
  <2>4. ASSUME NEW n \in 1 .. Len(p)
        PROVE  w[n] = IF p[n] = DotDot THEN w[n - 1] ELSE Append(w[n - 1], p[n])
    <3>1. n \in 0 .. Len(p) /\ n # 0
      BY <1>1
    <3>. QED  BY <2>1, <3>1
  <2>5. ASSUME NEW n \in 1 .. Len(p) + Len(q)
        PROVE  v[n] = IF (p \o q)[n] = DotDot THEN v[n - 1] ELSE Append(v[n - 1], (p \o q)[n])
    <3>1. n \in 0 .. Len(p) + Len(q) /\ n # 0
      BY <1>1
    <3>. QED  BY <2>2, <3>1
  <2>. QED  BY <2>3, <2>4, <2>5
<1>. HIDE DEF w, v
<1>3. 0 .. Len(p) \subseteq S
  <2>1. 0 \in S
    <3>1. 0 \in 0 .. Len(p) /\ <<>> \in Seq(Names)
      BY <1>1
    <3>. QED  BY <1>2, <3>1
  <2>2. ASSUME NEW n \in 1 .. Len(p), n - 1 \in S
        PROVE  n \in S
    <3>1. w[n - 1] \in Seq(Names) /\ v[n - 1] = w[n - 1] /\ (p \o q)[n] = p[n]
      BY <1>1, <2>2
    <3>2. p[n] = DotDot \/ p[n] \in Names
      BY <1>1 DEF Typable
    <3>3. w[n] = (IF p[n] = DotDot THEN w[n - 1] ELSE Append(w[n - 1], p[n]))
      BY <1>2
    <3>4. v[n] = w[n]
      BY <1>1, <1>2, <3>1, <3>3
    <3>5. w[n] \in Seq(Names)
      BY <3>1, <3>2, <3>3
    <3>. QED  BY <1>1, <3>4, <3>5
  <2>. HIDE DEF S
  <2>. QED  BY <1>1, <2>1, <2>2, CountingUp
<1>4. W \in Seq(Names) /\ v[Len(p)] = W
  BY <1>1, <1>3
<1>. HIDE DEF W
<1>5. 0 .. Len(q) \subseteq T
  <2>1. 0 \in T
    BY <1>1, <1>4
  <2>2. ASSUME NEW n \in 1 .. Len(q), n - 1 \in T
        PROVE  n \in T
    <3>. DEFINE u == v[Len(p) + (n - 1)]
    <3>1. u \in Seq(Names) /\ Len(u) >= Len(W) /\ \A i \in 1 .. Len(W) : u[i] = W[i]
      BY <1>1, <2>2
    <3>2. q[n] = DotDot \/ q[n] \in Names
      BY <1>1 DEF Typable
    <3>3. v[Len(p) + n] = IF q[n] = DotDot THEN u ELSE Append(u, q[n])
      <4>1. Len(p) + n \in 1 .. Len(p) + Len(q) /\ (Len(p) + n) - 1 = Len(p) + (n - 1)
        BY <1>1
      <4>2. v[Len(p) + n] = IF (p \o q)[Len(p) + n] = DotDot THEN v[(Len(p) + n) - 1]
                            ELSE Append(v[(Len(p) + n) - 1], (p \o q)[Len(p) + n])
        BY <1>2, <4>1
      <4>. QED  BY <1>1, <4>1, <4>2
    <3>. HIDE DEF u
    <3>4. CASE q[n] = DotDot
      BY <1>1, <3>1, <3>3, <3>4
    <3>5. CASE q[n] # DotDot
      <4>1. Append(u, q[n]) \in Seq(Names) /\ Len(Append(u, q[n])) = Len(u) + 1
            /\ \A i \in 1 .. Len(u) : Append(u, q[n])[i] = u[i]
        BY <3>1, <3>2, <3>5
      <4>2. Len(W) \in Nat /\ Len(u) \in Nat
        BY <1>4, <3>1
      <4>3. v[Len(p) + n] = Append(u, q[n])
        BY <3>3, <3>5
      <4>4. /\ v[Len(p) + n] \in Seq(Names) /\ Len(v[Len(p) + n]) >= Len(W)
            /\ \A i \in 1 .. Len(W) : v[Len(p) + n][i] = W[i]
        BY <3>1, <4>1, <4>2, <4>3
      <4>5. n \in 0 .. Len(q)
        BY <1>1
      <4>. QED  BY <4>4, <4>5
    <3>. QED  BY <3>4, <3>5
  <2>. HIDE DEF T
  <2>. QED  BY <1>1, <2>1, <2>2, CountingUp
<1>. QED  BY <1>3, <1>5 DEF W, w, v

\* The directory that commands work in.
Base == fix_path(cwd, TRUE)

\* Every path that a command makes is below it.
LEMMA TypedBelow ==
    ASSUME cwd \in Seq(Typable), NEW slash \in BOOLEAN, NEW p \in Typed(slash)
    PROVE  p \in Paths /\ Below(p, Base)
<1>1. PICK arg \in Arguments : p = fix_path(cwd \o arg, slash)
  BY DEF Typed
<1>2. p \in Paths
  BY DEF Typed
<1>3. arg \in Seq(Typable)
  <2>1. PICK n \in 1 .. MaxDepth : arg \in [1 .. n -> Names \cup {DotDot}]
    BY <1>1 DEF Arguments
  <2>. QED  BY <2>1, Ranges DEF Typable
<1>. DEFINE path == cwd \o arg
            names == without(path)[Len(path)]
            base == without(cwd)[Len(cwd)]
<1>4. Len(path) = Len(cwd) + Len(arg) /\ Len(arg) \in Nat /\ Len(cwd) \in Nat
  BY <1>3
<1>5. /\ names \in Seq(Names) /\ base \in Seq(Names)
      /\ Len(names) >= Len(base) /\ \A i \in 1 .. Len(base) : names[i] = base[i]
  BY <1>3, <1>4, WithoutStarts
<1>6. Base = base
  BY DEF Base, fix_path
<1>7. p = names
  <2>1. p = names \/ p = Append(names, DotDot)
    BY <1>1 DEF fix_path
  <2>2. ASSUME p = Append(names, DotDot)
        PROVE  FALSE
    <3>. HIDE DEF names
    <3>1. p # <<>> /\ p[Len(p)] = DotDot
      BY <1>5, <2>2
    <3>. QED  BY <1>2, <3>1, PathShape, CmdLoopAssumption
  <2>. QED  BY <2>1, <2>2
<1>. HIDE DEF names, base
<1>8. SubSeq(names, 1, Len(base)) = base
  BY <1>5
<1>. QED  BY <1>2, <1>5, <1>6, <1>7, <1>8 DEF Below
-----------------------------------------------------------------------------
(***************************************************************************)
(* Where paths lead, and when a step leaves it alone.                      *)
(***************************************************************************)
\* Where a path leads, from where its father leads: nowhere, or by the last entry
\* with its name.
Onward(p) ==
    LET at == Reached(trancate_path(p))
        n == p[Len(p)]
    IN  /\ at.inode < 0 => Reached(p).inode < 0 /\ Reached(p) = at
        /\ ~(at.inode < 0) /\ ~at.isDir => Reached(p) = [inode |-> ENOTDIR, isDir |-> FALSE]
        /\ ~(at.inode < 0) /\ at.isDir => \A d \in Inodes : d = at.inode =>
              /\ Named(d, n) = {} => Reached(p) = [inode |-> ENOENT, isDir |-> FALSE]
              /\ Named(d, n) # {} =>
                    \E s \in Named(d, n) : /\ Reached(p) = Entries(d)[s]
                                           /\ \A t \in Named(d, n) : t <= s
WalksOn ==
    /\ Reached(<<>>) = Root
    /\ \A p \in Paths : translate(p) = Reached(p).inode
    /\ \A p \in Paths \ {<<>>} : Onward(p)

LEMMA WalkOn == WalksOn
<1>. SUFFICES ASSUME NEW p \in Paths \ {<<>>} PROVE Onward(p)
  BY ReachedByFather DEF WalksOn
<1>. DEFINE at == Reached(trancate_path(p))
            n == p[Len(p)]
<1>1. Reached(p) = follow(at, n)
  BY ReachedByFather
<1>. HIDE DEF at, n
<1>2. at.inode < 0 => Reached(p) = at
  BY <1>1 DEF follow
<1>3. ~(at.inode < 0) /\ ~at.isDir => Reached(p) = [inode |-> ENOTDIR, isDir |-> FALSE]
  BY <1>1 DEF follow
<1>4. ~(at.inode < 0) /\ at.isDir /\ Named(at.inode, n) = {}
      => Reached(p) = [inode |-> ENOENT, isDir |-> FALSE]
  BY <1>1 DEF follow
<1>5. ~(at.inode < 0) /\ at.isDir /\ Named(at.inode, n) # {}
      => \E s \in Named(at.inode, n) : /\ Reached(p) = Entries(at.inode)[s]
                                       /\ \A t \in Named(at.inode, n) : t <= s
  BY <1>1, LastEntry
<1>. QED  BY <1>2, <1>3, <1>4, <1>5 DEF Onward, at, n

\* The entries of directory d with name n are the same after a step.
SameNames(d, n) ==
    /\ Named(d, n)' = Named(d, n)
    /\ \A s \in Named(d, n) : Entries(d)[s]' = Entries(d)[s]

\* If they are on every path, but for those in Stop, then these lead where they
\* did.
LEMMA WalkKept ==
    ASSUME NInv, NEW Stop,
           \A q \in Paths \ {<<>>} : trancate_path(q) \in Stop => q \in Stop,
           \A q \in Paths \ {<<>>}, d \in Inodes :
              /\ q \notin Stop /\ d > 0
              /\ d = Reached(trancate_path(q)).inode /\ Reached(trancate_path(q)).isDir
              /\ Reached(trancate_path(q))' = Reached(trancate_path(q))
              => SameNames(d, q[Len(q)])
    PROVE  \A q \in Paths : q \notin Stop =>
              Reached(q)' = Reached(q) /\ translate(q)' = translate(q)
<1>. DEFINE S == {q \in Paths : q \in Stop \/ Reached(q)' = Reached(q)}
<1>1. WalksOn /\ WalksOn'
  BY WalkOn, PTL
<1>2. <<>> \in S
  <2>1. <<>> \in Paths
    BY Ranges DEF Paths
  <2>2. Reached(<<>>) = Root /\ Reached(<<>>)' = Root
    BY <1>1 DEF WalksOn, Root
  <2>. QED  BY <2>1, <2>2
<1>3. ASSUME NEW q \in Paths, q # <<>>, trancate_path(q) \in S
      PROVE  q \in S
  <2>. SUFFICES ASSUME q \notin Stop PROVE Reached(q)' = Reached(q)
    OBVIOUS
  <2>. DEFINE n == q[Len(q)]
  <2>1. q \in Paths \ {<<>>} /\ trancate_path(q) \in Paths /\ trancate_path(q) \notin Stop
    BY <1>3, PathShape
  <2>2. PICK at : at = Reached(trancate_path(q)) /\ at = Reached(trancate_path(q))'
    BY <1>3, <2>1
  <2>3. at.inode \in Answers
    BY <2>1, <2>2, Answered DEF NInv
  <2>4. Onward(q) /\ Onward(q)'
    BY <1>1, <2>1 DEF WalksOn
  <2>5. CASE at.inode < 0
    BY <2>2, <2>4, <2>5 DEF Onward
  <2>6. CASE ~(at.inode < 0) /\ ~at.isDir
    BY <2>2, <2>4, <2>6 DEF Onward, ENOTDIR
  <2>7. CASE ~(at.inode < 0) /\ at.isDir
    <3>1. PICK d \in Inodes : d = at.inode /\ d > 0
      BY <2>3, <2>7, Ranges DEF Answers, Inodes, ENOENT, ENOTDIR
    <3>2. SameNames(d, n)
      BY <2>1, <2>2, <2>7, <3>1
    <3>3. /\ Named(d, n) = {} => Reached(q) = [inode |-> ENOENT, isDir |-> FALSE]
          /\ Named(d, n) # {} =>
                \E s \in Named(d, n) : /\ Reached(q) = Entries(d)[s]
                                       /\ \A t \in Named(d, n) : t <= s
      BY <2>2, <2>4, <2>7, <3>1 DEF Onward
    <3>4. /\ Named(d, n)' = {} => Reached(q)' = [inode |-> ENOENT, isDir |-> FALSE]
          /\ Named(d, n)' # {} =>
                \E s \in Named(d, n)' : /\ Reached(q)' = Entries(d)[s]'
                                        /\ \A t \in Named(d, n)' : t <= s
      BY <2>2, <2>4, <2>7, <3>1 DEF Onward, ENOENT
    <3>. HIDE DEF n
    <3>5. CASE Named(d, n) = {}
      BY <3>2, <3>3, <3>4, <3>5 DEF SameNames
    <3>6. CASE Named(d, n) # {}
      <4>1. PICK s \in Named(d, n) : /\ Reached(q) = Entries(d)[s]
                                     /\ \A t \in Named(d, n) : t <= s
        BY <3>3, <3>6
      <4>2. PICK r \in Named(d, n)' : /\ Reached(q)' = Entries(d)[r]'
                                      /\ \A t \in Named(d, n)' : t <= r
        BY <3>2, <3>4, <3>6 DEF SameNames
      <4>3. r \in Named(d, n) /\ s <= r /\ r <= s /\ s \in 1 .. NDIRENTS /\ r \in 1 .. NDIRENTS
        BY <3>2, <4>1, <4>2 DEF SameNames, Named
      <4>4. r = s
        BY <4>3, Ranges
      <4>. QED  BY <3>2, <4>1, <4>2, <4>4 DEF SameNames
    <3>. QED  BY <3>5, <3>6
  <2>. QED  BY <2>5, <2>6, <2>7
<1>4. Paths \subseteq S
  <2>. HIDE DEF S
  <2>. QED  BY <1>2, <1>3, PathInduction
<1>5. ASSUME NEW q \in Paths, q \notin Stop
      PROVE  Reached(q)' = Reached(q) /\ translate(q)' = translate(q)
  <2>1. Reached(q)' = Reached(q)
    BY <1>4, <1>5
  <2>2. translate(q) = Reached(q).inode /\ translate(q)' = Reached(q)'.inode
    BY <1>1 DEF WalksOn
  <2>. QED  BY <2>1, <2>2
<1>. QED  BY <1>5

\* The valid entries of every inode are the same after a step: then so is where
\* paths lead.
SameEntries ==
    \A d \in Inodes \ {0}, s \in 1 .. NDIRENTS :
        Entries(d)[s].valid \/ Entries(d)[s]'.valid => Entries(d)[s]' = Entries(d)[s]

LEMMA EntriesKept ==
    ASSUME NInv, SameEntries
    PROVE  \A q \in Paths : Reached(q)' = Reached(q) /\ translate(q)' = translate(q)
<1>1. ASSUME NEW d \in Inodes, d > 0, NEW n
      PROVE  SameNames(d, n)
  <2>1. d \in Inodes \ {0}
    BY <1>1
  <2>2. ASSUME NEW s \in 1 .. NDIRENTS
        PROVE  s \in Named(d, n)' <=> s \in Named(d, n)
    BY <2>1 DEF SameEntries, Named
  <2>3. Named(d, n)' \subseteq 1 .. NDIRENTS /\ Named(d, n) \subseteq 1 .. NDIRENTS
    BY DEF Named
  <2>4. \A s \in Named(d, n) : Entries(d)[s]' = Entries(d)[s]
    BY <2>1 DEF SameEntries, Named
  <2>. QED  BY <2>2, <2>3, <2>4 DEF SameNames
<1>. DEFINE Stop == {}
<1>2. \A q \in Paths : q \notin Stop => Reached(q)' = Reached(q) /\ translate(q)' = translate(q)
  <2>1. \A q \in Paths \ {<<>>} : trancate_path(q) \in Stop => q \in Stop
    OBVIOUS
  <2>2. \A q \in Paths \ {<<>>}, d \in Inodes :
           /\ q \notin Stop /\ d > 0
           /\ d = Reached(trancate_path(q)).inode /\ Reached(trancate_path(q)).isDir
           /\ Reached(trancate_path(q))' = Reached(trancate_path(q))
           => SameNames(d, q[Len(q)])
    BY <1>1
  <2>. HIDE DEF Stop
  <2>. QED  BY <2>1, <2>2, WalkKept
<1>. QED  BY <1>2

\* A path leads to an inode, or to an error.
LeadsOrNot ==
    \A p \in Paths : LET t == translate(p)
                     IN  /\ t = Reached(p).inode
                         /\ (t > 0) <=> ~(t < 0)
                         /\ (t > 0) <=> t \in Inodes \ {0}
LEMMA Leads == NInv => LeadsOrNot
<1>. SUFFICES ASSUME NInv, NEW p \in Paths
              PROVE  LET t == translate(p)
                     IN  /\ t = Reached(p).inode
                         /\ (t > 0) <=> ~(t < 0)
                         /\ (t > 0) <=> t \in Inodes \ {0}
  BY DEF LeadsOrNot
<1>1. translate(p) = Reached(p).inode /\ translate(p) \in Answers
  BY Answered, ReachedByFather DEF NInv
<1>. QED  BY <1>1, Ranges DEF Answers, Inodes, ENOENT, ENOTDIR

\* What a path leads to, if it leads to an inode and is not "/", is an entry.
LEMMA ReachedEntry ==
    ASSUME NInv, NEW p \in Paths \ {<<>>}, ~(Reached(p).inode < 0)
    PROVE  LET at == Reached(trancate_path(p))
           IN  /\ trancate_path(p) \in Paths
               /\ at.isDir /\ at.inode \in Inodes \ {0}
               /\ translate(trancate_path(p)) = at.inode
               /\ translate(p) = Reached(p).inode
               /\ Reached(p).inode \in Inodes \ {0, 1}
               /\ \E s \in Named(at.inode, p[Len(p)]) : Reached(p) = Entries(at.inode)[s]
<1>. DEFINE at == Reached(trancate_path(p))
            n == p[Len(p)]
<1>1. WalksOn /\ Onward(p) /\ trancate_path(p) \in Paths /\ p \in Paths
  BY WalkOn, PathShape DEF WalksOn
<1>2. at.inode \in Answers /\ translate(trancate_path(p)) = at.inode
      /\ translate(p) = Reached(p).inode
  BY <1>1, Answered DEF NInv, WalksOn
<1>3. ~(at.inode < 0) /\ at.isDir
  BY <1>1 DEF Onward, ENOTDIR
<1>4. at.inode \in Inodes \ {0}
  BY <1>2, <1>3 DEF Answers, ENOENT, ENOTDIR
<1>5. PICK s \in Named(at.inode, n) : Reached(p) = Entries(at.inode)[s]
  BY <1>1, <1>3, <1>4 DEF Onward, ENOENT
<1>6. s \in 1 .. NDIRENTS /\ Entries(at.inode)[s].valid
  BY <1>5 DEF Named
<1>7. Reached(p).inode \in Inodes \ {0, 1}
  <2>1. Entries(at.inode)[s] = blk[first(at.inode)].ent[s] /\ first(at.inode) \in Blocks
    BY <1>4, <1>6, EntryType DEF NInv
  <2>. QED  BY <1>5, <1>6, <2>1 DEF NInv, EntriesLead
<1>. QED  BY <1>1, <1>2, <1>3, <1>4, <1>5, <1>7
-----------------------------------------------------------------------------
(***************************************************************************)
(* In a tree.                                                              *)
(***************************************************************************)
\* What a path leads to is a directory if the last entry says so, and but for "/"
\* that entry is one of the tree's links.
LEMMA ReachedLink ==
    ASSUME NInv, InPlace, IsTree
    PROVE  \A p \in Paths : ~(Reached(p).inode < 0) =>
              /\ Reached(p).isDir => /\ Reached(p).inode \in Dirs
                                     /\ Reached(p).inode # 1 => Type(Reached(p).inode) = "dir"
              /\ p # <<>> => \E l \in Links : /\ l[1] = translate(trancate_path(p))
                                              /\ Link(l) = Reached(p)
                                              /\ Link(l).name = p[Len(p)]
<1>. DEFINE Ok(p) == ~(Reached(p).inode < 0) =>
                /\ Reached(p).isDir => /\ Reached(p).inode \in Dirs
                                       /\ Reached(p).inode # 1 => Type(Reached(p).inode) = "dir"
                /\ p # <<>> => \E l \in Links : /\ l[1] = translate(trancate_path(p))
                                                /\ Link(l) = Reached(p)
                                                /\ Link(l).name = p[Len(p)]
            S == {p \in Paths : Ok(p)}
<1>1. <<>> \in S
  <2>1. <<>> \in Paths
    BY Ranges DEF Paths
  <2>2. Reached(<<>>).inode = 1 /\ 1 \in Dirs
    BY ReachedByFather DEF Root, Dirs
  <2>. QED  BY <2>1, <2>2
<1>2. ASSUME NEW p \in Paths, p # <<>>, trancate_path(p) \in S
      PROVE  p \in S
  <2>. SUFFICES ASSUME ~(Reached(p).inode < 0) PROVE Ok(p)
    OBVIOUS
  <2>. DEFINE at == Reached(trancate_path(p))
              n == p[Len(p)]
              i == Reached(p).inode
  <2>1. /\ at.isDir /\ at.inode \in Inodes \ {0}
        /\ translate(trancate_path(p)) = at.inode /\ translate(p) = i
        /\ i \in Inodes \ {0, 1}
    BY <1>2, ReachedEntry
  <2>2. PICK s \in Named(at.inode, n) : Reached(p) = Entries(at.inode)[s]
    BY <1>2, ReachedEntry
  <2>3. s \in 1 .. NDIRENTS /\ Entries(at.inode)[s].valid /\ Entries(at.inode)[s].name = n
    BY <2>2 DEF Named
  <2>4. at.inode \in Dirs
    <3>1. ~(at.inode < 0)
      BY <2>1, Ranges DEF Inodes
    <3>. QED  BY <1>2, <2>1, <3>1
  <2>5. <<at.inode, s>> \in Links /\ Link(<<at.inode, s>>) = Reached(p)
    BY <2>2, <2>3, <2>4 DEF Links, Link
  <2>6. Type(i) = IF Reached(p).isDir THEN "dir" ELSE "file"
    BY <2>5 DEF IsTree, InPlace
  <2>7. i > 0
    BY <2>1, Ranges DEF Inodes
  <2>8. Reached(p).isDir => i \in Dirs /\ Type(i) = "dir"
    BY <1>2, <2>1, <2>6, <2>7 DEF Dirs
  <2>9. Link(<<at.inode, s>>).name = n
    BY <2>2, <2>3, <2>5
  <2>. HIDE DEF i, n
  <2>10. \E l \in Links : l[1] = translate(trancate_path(p)) /\ Link(l) = Reached(p) /\ Link(l).name = n
    BY <2>1, <2>5, <2>9
  <2>. QED  BY <2>8, <2>10 DEF i, n
<1>3. Paths \subseteq S
  <2>. HIDE DEF S
  <2>. QED  BY <1>1, <1>2, PathInduction
<1>. QED  BY <1>3

\* No inode is at two paths.
LEMMA OnePath ==
    ASSUME NInv, InPlace, IsTree
    PROVE  \A p, q \in Paths : translate(p) > 0 /\ translate(p) = translate(q) => p = q
<1>. DEFINE S == {p \in Paths : translate(p) > 0 =>
                      \A q \in Paths : translate(p) = translate(q) => p = q}
<1>0. \A p \in Paths : translate(p) = Reached(p).inode
  BY ReachedByFather
<1>1. ASSUME NEW p \in Paths \ {<<>>}, translate(p) > 0
      PROVE  /\ translate(p) # 1 /\ trancate_path(p) \in Paths /\ translate(trancate_path(p)) > 0
             /\ \E l \in Links : /\ l[1] = translate(trancate_path(p))
                                 /\ Link(l).inode = translate(p) /\ Link(l).name = p[Len(p)]
  <2>1. ~(Reached(p).inode < 0)
    BY <1>1, Leads DEF LeadsOrNot
  <2>2. /\ translate(p) \in Inodes \ {0, 1} /\ trancate_path(p) \in Paths
        /\ translate(trancate_path(p)) \in Inodes \ {0}
    BY <2>1, ReachedEntry
  <2>3. translate(trancate_path(p)) > 0
    BY <2>2, Ranges DEF Inodes
  <2>. QED  BY <1>0, <2>1, <2>2, <2>3, ReachedLink
<1>2. <<>> \in Paths /\ translate(<<>>) = 1 /\ 1 > 0
  <2>1. <<>> \in Paths
    BY Ranges DEF Paths
  <2>. QED  BY <2>1, ReachedByFather DEF Root
<1>3. <<>> \in S
  <2>1. ASSUME NEW q \in Paths, translate(q) = 1, q # <<>>
        PROVE  FALSE
    BY <1>1, <1>2, <2>1
  <2>. QED  BY <1>2, <2>1
<1>4. ASSUME NEW p \in Paths, p # <<>>, trancate_path(p) \in S
      PROVE  p \in S
  <2>. SUFFICES ASSUME translate(p) > 0, NEW q \in Paths, translate(p) = translate(q)
                PROVE  p = q
    OBVIOUS
  <2>1. q # <<>>
    BY <1>1, <1>2, <1>4
  <2>2. PICK l \in Links : /\ l[1] = translate(trancate_path(p))
                           /\ Link(l).inode = translate(p) /\ Link(l).name = p[Len(p)]
    BY <1>1, <1>4
  <2>3. PICK m \in Links : /\ m[1] = translate(trancate_path(q))
                           /\ Link(m).inode = translate(q) /\ Link(m).name = q[Len(q)]
    BY <1>1, <2>1
  <2>4. l = m
    BY <2>2, <2>3 DEF IsTree, InPlace
  <2>5. trancate_path(p) = trancate_path(q)
    <3>1. translate(trancate_path(p)) = translate(trancate_path(q)) /\ trancate_path(q) \in Paths
          /\ translate(trancate_path(p)) > 0
      BY <1>1, <1>4, <2>1, <2>2, <2>3, <2>4
    <3>. QED  BY <1>4, <3>1
  <2>6. p[Len(p)] = q[Len(q)]
    BY <2>2, <2>3, <2>4
  <2>. QED  BY <1>4, <2>1, <2>5, <2>6, SamePath
<1>5. Paths \subseteq S
  <2>. HIDE DEF S
  <2>. QED  BY <1>3, <1>4, PathInduction
<1>. QED  BY <1>5
-----------------------------------------------------------------------------
(***************************************************************************)
(* The inductive invariant of the command loop.                            *)
(***************************************************************************)
\* Block 0, which an inode without blocks points to, has no entries, and an inode
\* that is not marked has no block: to take one adds nothing to what is below it.
Barren ==
    /\ \A s \in 1 .. NDIRENTS : ~blk[0].ent[s].valid
    /\ \A i \in Inodes \ inode_map : first(i) = 0

\* Commands are about what is below the working directory.
Placed ==
    /\ cwd \in Seq(Typable)
    /\ call.op \notin {"rename", "truncate"}
    /\ pc \notin {"idle", "dead"} => Below(call.path, Base)
    /\ put # NoPut => Below(put.path, Base)

\* What the handlers know on their way.  (To free a file's block can cut off the
\* way to its own father, where a directory entry leads to the file.)
Target == translate(call.path)
Father == translate(trancate_path(call.path))
Knows ==
    /\ pc = "called" /\ call.op = "unlink" /\ call.path = <<>> => Type(1) = "dir"
    /\ Creating =>
          /\ loc.father = Father
          /\ ~Entries(loc.father)[loc.slot].valid
          /\ ~(Target > 0)
          /\ pc # "entry" /\ call.op = "mkdir" =>
                \A s \in 1 .. NDIRENTS : ~blk[loc.block].ent[s].valid
          /\ pc # "mkdir" => loc.inum \in inode_map
          /\ pc = "inode" /\ loc.inum \in Inodes => first(loc.inum) = 0
    /\ Removing =>
          /\ call.path # <<>> /\ loc.inum # 1
          /\ pc # "clear" => first(loc.inum) = 0
          /\ \/ Father > 0
             \/ \E q \in Paths : Reached(q).isDir /\ Reached(q).inode = loc.inum
    /\ pc = "rmdir" => call.op = "rmdir" /\ call.path # <<>> /\ Father > 0

\* do_put writes to the file that it has made, if to any.
Made ==
    /\ pc = "called" /\ call.op = "write" => Target \in inode_map
    /\ put # NoPut /\ call.op = "mknod" /\ pc \notin {"idle", "dead"} => call.path = put.path
    /\ put # NoPut /\ (pc = "idle" \/ (pc = "return" /\ ret = 0 /\ call.op = "mknod")) =>
          (translate(put.path) > 0 => translate(put.path) \in inode_map)

BInv == CInv /\ Barren /\ Placed /\ Knows /\ Made

LEMMA CmdInitBelow == CmdInit => BInv
<1>. SUFFICES ASSUME CmdInit PROVE BInv
  OBVIOUS
<1>1. /\ inode_map = {0, 1} /\ blk = [b \in Blocks |-> ZeroBlock]
      /\ inode_region = [i \in Inodes |->
            [type |-> IF i = 1 THEN "dir" ELSE "none",
             direct0 |-> IF i = 1 THEN RootBlock ELSE 0]]
      /\ pc = "idle" /\ call = NoCall /\ cwd = <<>> /\ put = NoPut
  BY DEF CmdInit, Init
<1>2. Barren
  <2>1. 0 \in Blocks
    BY Ranges DEF Blocks
  <2>2. \A s \in 1 .. NDIRENTS : ~blk[0].ent[s].valid
    BY <1>1, <2>1 DEF ZeroBlock, NoEntry
  <2>3. \A i \in Inodes \ inode_map : first(i) = 0
    BY <1>1 DEF first
  <2>. QED  BY <2>2, <2>3 DEF Barren
<1>3. Placed
  BY <1>1 DEF Placed, NoCall
<1>4. Knows /\ Made
  BY <1>1 DEF Knows, Made, Creating, Removing
<1>. QED  BY <1>2, <1>3, <1>4, CmdInitKeeps DEF BInv

\* Steps that leave the entries alone.
LEMMA NothingMoves == UNCHANGED <<inode_region, blk>> => SameEntries
BY DEF SameEntries, Entries

LEMMA BarrenStays ==
    ASSUME Barren, UNCHANGED <<inode_region, blk>>, inode_map \subseteq inode_map'
    PROVE  Barren'
BY DEF Barren, first

\* A handler ends.
LEMMA EndBelow ==
    ASSUME Placed, Made, pc \notin {"idle", "dead", "return"}, UNCHANGED <<call, cwd, put>>,
           pc' \in {"return", "dead"},
           pc' = "return" => ret' # 0 \/ call.op # "mknod"
    PROVE  Placed' /\ Knows' /\ Made'
<1>1. Base' = Base
  BY DEF Base
<1>2. Placed'
  BY <1>1 DEF Placed
<1>3. Knows'
  BY DEF Knows, Creating, Removing
<1>4. Made'
  BY DEF Made
<1>. QED  BY <1>2, <1>3, <1>4

\* It goes on.
LEMMA PlacedStays ==
    ASSUME Placed, pc \notin {"idle", "dead"}, UNCHANGED <<call, cwd, put>>
    PROVE  Placed'
BY DEF Placed, Base

LEMMA MadeStays ==
    ASSUME Made, pc \notin {"idle", "dead", "return"}, UNCHANGED <<call, put>>,
           pc' \notin {"called", "idle", "return"}
    PROVE  Made'
BY DEF Made

\* The handlers that end with one step.
LEMMA EndingKnows ==
    BInv /\ UNCHANGED <<cwd, put>>
    /\ ( \/ Refuse \/ MkdirNoBlock \/ MkdirNoInode \/ CreateAborts \/ WriteNoBlock
         \/ UnlinkEntry \/ RmdirEntry \/ Chmod \/ WriteData \/ RmdirRoot)
    => Placed' /\ Knows' /\ Made'
<1>. SUFFICES ASSUME BInv, UNCHANGED <<cwd, put>>,
                     \/ Refuse \/ MkdirNoBlock \/ MkdirNoInode \/ CreateAborts \/ WriteNoBlock
                     \/ UnlinkEntry \/ RmdirEntry \/ Chmod \/ WriteData \/ RmdirRoot
              PROVE  Placed' /\ Knows' /\ Made'
  OBVIOUS
<1>1. Placed /\ Knows /\ Made /\ AtWork
  BY DEF BInv, CInv, NInv
<1>2. /\ pc \notin {"idle", "dead", "return"} /\ call' = call
      /\ pc' \in {"return", "dead"}
      /\ pc' = "return" => ret' # 0 \/ call.op # "mknod"
  <2>1. CASE Refuse
    BY <2>1 DEF Refuse, Answer
  <2>2. CASE MkdirNoBlock \/ RmdirRoot
    BY <2>2 DEF MkdirNoBlock, RmdirRoot, Starts, Abort
  <2>3. CASE MkdirNoInode
    BY <1>1, <2>3 DEF MkdirNoInode, Answer, AtWork, Creating, ENOSPC
  <2>4. CASE CreateAborts
    BY <2>4 DEF CreateAborts, Abort
  <2>5. CASE WriteNoBlock \/ Chmod
    BY <2>5 DEF WriteNoBlock, Chmod, Starts, Answer
  <2>8. CASE WriteData
    BY <2>8 DEF WriteData, Answer
  <2>6. CASE UnlinkEntry
    BY <1>1, <2>6 DEF UnlinkEntry, Answer, AtWork, Removing
  <2>7. CASE RmdirEntry
    BY <1>1, <2>7 DEF RmdirEntry, Answer, Knows
  <2>. QED  BY <2>1, <2>2, <2>3, <2>4, <2>5, <2>6, <2>7, <2>8
<1>. QED  BY <1>1, <1>2, EndBelow

LEMMA EndingBarren ==
    BInv /\ (Refuse \/ MkdirNoBlock \/ MkdirNoInode \/ CreateAborts \/ WriteNoBlock \/ RmdirRoot)
    => Barren'
<1>. SUFFICES ASSUME BInv, \/ Refuse \/ MkdirNoBlock \/ MkdirNoInode \/ CreateAborts
                           \/ WriteNoBlock \/ RmdirRoot
              PROVE  Barren'
  OBVIOUS
<1>1. UNCHANGED image
  BY DEF Refuse, MkdirNoBlock, MkdirNoInode, CreateAborts, WriteNoBlock, RmdirRoot
<1>. QED  BY <1>1, BarrenStays DEF BInv, image

LEMMA EntryGoneBarren == BInv /\ (UnlinkEntry \/ RmdirEntry) => Barren'
<1>. SUFFICES ASSUME BInv, UnlinkEntry \/ RmdirEntry PROVE Barren'
  OBVIOUS
<1>1. PICK d, n : blk' = WithoutEntries(d, n) /\ UNCHANGED <<inode_map, inode_region>>
  BY DEF UnlinkEntry, RmdirEntry
<1>2. 0 \in Blocks /\ ImageOK /\ ~NoEntry.valid
  BY TypeParts, Ranges DEF BInv, CInv, NInv, Blocks, NoEntry
<1>3. \A s \in 1 .. NDIRENTS : ~blk'[0].ent[s].valid
  BY <1>1, <1>2, EntriesRemoved DEF BInv, Barren
<1>. QED  BY <1>1, <1>3 DEF BInv, Barren, first

LEMMA WriteBlockBelow ==
    BInv /\ WriteBlock /\ UNCHANGED <<cwd, put>>
    => SameEntries /\ Barren' /\ Placed' /\ Knows' /\ Made'
<1>. SUFFICES ASSUME BInv, WriteBlock, UNCHANGED <<cwd, put>>
              PROVE  SameEntries /\ Barren' /\ Placed' /\ Knows' /\ Made'
  OBVIOUS
<1>1. NInv /\ Barren /\ Target \in inode_map /\ ~NoEntry.valid
  <2>1. pc = "called" /\ call.op = "write"
    BY DEF WriteBlock, Starts
  <2>. QED  BY <2>1 DEF BInv, CInv, Made, NoEntry
<1>2. /\ pc = "called" /\ pc' = "mark" /\ UNCHANGED <<inode_map, call>>
      /\ Target \in Inodes /\ first(Target) = 0
  BY <1>1, WriteBlockChanges DEF Target
<1>3. PICK b :
        /\ b # 0 /\ \A i \in Inodes : first(i) # b
        /\ \A i \in Inodes : first(i)' = IF i = Target THEN b ELSE first(i)
        /\ blk' = [blk EXCEPT ![b] = ZeroBlock]
  BY <1>1, WriteBlockChanges DEF Target
<1>4. \A c \in Blocks, s \in 1 .. NDIRENTS :
         blk'[c].ent[s] = IF c = b THEN NoEntry ELSE blk[c].ent[s]
  <2>1. blk \in [Blocks -> Block]
    BY <1>1 DEF NInv, TypeOK
  <2>. QED  BY <1>3, <2>1 DEF ZeroBlock
<1>5. Barren'
  <2>1. 0 \in Blocks
    BY Ranges DEF Blocks
  <2>. QED  BY <1>1, <1>2, <1>3, <1>4, <2>1 DEF Barren
<1>6. ASSUME NEW d \in Inodes, NEW s \in 1 .. NDIRENTS, Entries(d)[s].valid \/ Entries(d)[s]'.valid
      PROVE  Entries(d)[s]' = Entries(d)[s]
  <2>1. first(d) \in Blocks /\ Entries(d)[s] = blk[first(d)].ent[s]
        /\ Entries(d)[s]' = blk'[first(d)'].ent[s] /\ first(d)' \in Blocks
    <3>1. inode_region' \in [Inodes -> Inode]
      BY <1>1, WriteBlockChanges
    <3>. QED  BY <1>1, <3>1, EntryType DEF NInv, Entries, first, Inode
  <2>2. CASE d # Target
    BY <1>3, <1>4, <2>1, <2>2
  <2>3. CASE d = Target
    BY <1>1, <1>2, <1>3, <1>4, <1>6, <2>1, <2>3 DEF Barren
  <2>. QED  BY <2>2, <2>3
<1>7. Placed' /\ Made'
  BY <1>2, PlacedStays, MadeStays DEF BInv
<1>8. Knows'
  BY <1>2 DEF Knows, Creating, Removing
<1>. QED  BY <1>5, <1>6, <1>7, <1>8 DEF SameEntries

LEMMA WriteGoesOnBelow ==
    BInv /\ (WriteMark \/ WriteFound) /\ UNCHANGED <<cwd, put>>
    => SameEntries /\ Barren' /\ Placed' /\ Knows' /\ Made'
<1>. SUFFICES ASSUME BInv, WriteMark \/ WriteFound, UNCHANGED <<cwd, put>>
              PROVE  SameEntries /\ Barren' /\ Placed' /\ Knows' /\ Made'
  OBVIOUS
<1>1. /\ pc \in {"called", "mark"} /\ pc' = "data"
      /\ UNCHANGED <<inode_map, inode_region, blk, call>>
  BY DEF WriteMark, WriteFound, Starts, image
<1>2. SameEntries /\ Barren'
  BY <1>1, NothingMoves, BarrenStays DEF BInv
<1>3. Placed' /\ Made'
  BY <1>1, PlacedStays, MadeStays DEF BInv
<1>4. Knows'
  BY <1>1 DEF Knows, Creating, Removing
<1>. QED  BY <1>2, <1>3, <1>4

LEMMA WriteDataBarren == BInv /\ WriteData => Barren' /\ SameEntries
<1>. SUFFICES ASSUME BInv, WriteData PROVE Barren' /\ SameEntries
  OBVIOUS
<1>1. NInv /\ Barren
  BY DEF BInv, CInv
<1>2. /\ UNCHANGED <<inode_map, inode_region>>
      /\ \A c \in Blocks : blk'[c].ent = blk[c].ent
  BY <1>1, WriteDataChanges
<1>3. 0 \in Blocks /\ \A d \in Inodes : first(d) \in Blocks
  BY <1>1, Ranges, EntryType DEF NInv, Blocks
<1>. QED  BY <1>1, <1>2, <1>3 DEF Barren, SameEntries, Entries, first

LEMMA ChmodBarren == BInv /\ Chmod => Barren' /\ SameEntries
<1>. SUFFICES ASSUME BInv, Chmod PROVE Barren' /\ SameEntries
  OBVIOUS
<1>1. NInv /\ Barren
  BY DEF BInv, CInv
<1>2. \A i \in Inodes : first(i)' = first(i)
  <2>1. inode_region \in [Inodes -> Inode]
    BY <1>1 DEF NInv, TypeOK
  <2>2. \E t : inode_region' = [inode_region EXCEPT ![Target].type = t]
    BY DEF Chmod, Target
  <2>. QED  BY <2>1, <2>2 DEF first, Inode
<1>3. UNCHANGED <<inode_map, blk>>
  BY DEF Chmod
<1>. QED  BY <1>1, <1>2, <1>3 DEF Barren, SameEntries, Entries, first

\* The call's paths lead where they did.
LEMMA TargetStays ==
    ASSUME NInv, SameEntries, UNCHANGED call
    PROVE  /\ Target' = Target
           /\ call.path # <<>> => Father' = Father
<1>1. call.path \in Paths
  BY DEF NInv, TypeOK
<1>2. \A q \in Paths : translate(q)' = translate(q)
  BY EntriesKept
<1>3. call.path # <<>> => trancate_path(call.path) \in Paths
  BY <1>1, PathShape
<1>. QED  BY <1>1, <1>2, <1>3 DEF Target, Father

\* What fs_mknod and fs_mkdir know when they start.
LEMMA StartKnows ==
    ASSUME BInv, pc = "called", call.op \in {"mknod", "mkdir"}, Error = 0
    PROVE  /\ call.path \in Paths \ {<<>>} /\ Father \in Inodes \ {0} /\ ~(Target > 0)
           /\ \E s \in 1 .. NDIRENTS :
                 /\ ~Entries(Father)[s].valid
                 /\ Place = [inum |-> 0, father |-> Father, slot |-> s, block |-> 0]
<1>1. TypeOK /\ EntriesLead /\ loc = NoLoc
  BY DEF BInv, CInv, NInv, AtWork, Creating, Removing, Writing
<1>2. /\ call.path \in Paths \ {<<>>} /\ Father \in Inodes \ {0}
      /\ Target \in {ENOENT, ENOTDIR}
  BY <1>1, MayCreate DEF Father, Target
<1>3. PICK s \in 1 .. NDIRENTS : /\ ~Entries(Father)[s].valid
                                 /\ Place = [loc EXCEPT !.father = Father, !.slot = s]
  BY <1>1, PlaceIsFree DEF Father
<1>4. Place = [inum |-> 0, father |-> Father, slot |-> s, block |-> 0]
  BY <1>1, <1>3 DEF NoLoc
<1>5. ~(Target > 0)
  BY <1>2 DEF ENOENT, ENOTDIR
<1>. QED  BY <1>2, <1>3, <1>4, <1>5

LEMMA MknodStartBelow ==
    BInv /\ MknodStart /\ UNCHANGED <<cwd, put>>
    => SameEntries /\ Barren' /\ Placed' /\ Knows' /\ Made'
<1>. SUFFICES ASSUME BInv, MknodStart, UNCHANGED <<cwd, put>>
              PROVE  SameEntries /\ Barren' /\ Placed' /\ Knows' /\ Made'
  OBVIOUS
<1>1. /\ pc = "called" /\ call.op = "mknod" /\ Error = 0 /\ pc' = "inode"
      /\ UNCHANGED <<block_map, inode_region, blk, call, ret>>
  BY DEF MknodStart, Starts
<1>2. PICK i \in Bits : /\ FreeInode(i) /\ inode_map' = inode_map \cup {i}
                        /\ loc' = [Place EXCEPT !.inum = i]
  BY DEF MknodStart
<1>3. call.path # <<>> /\ Father \in Inodes /\ ~(Target > 0)
  BY <1>1, StartKnows
<1>4. PICK s \in 1 .. NDIRENTS :
         /\ ~Entries(Father)[s].valid
         /\ Place = [inum |-> 0, father |-> Father, slot |-> s, block |-> 0]
  BY <1>1, StartKnows
<1>5. loc' = [inum |-> i, father |-> Father, slot |-> s, block |-> 0]
  BY <1>2, <1>4
<1>6. SameEntries
  BY <1>1, NothingMoves
<1>7. Target' = Target /\ Father' = Father
  BY <1>1, <1>3, <1>6, TargetStays DEF BInv, CInv
<1>8. Barren'
  BY <1>1, <1>2, BarrenStays DEF BInv
<1>9. Placed' /\ Made'
  BY <1>1, PlacedStays, MadeStays DEF BInv
<1>10. Knows'
  <2>1. loc'.father = Father /\ loc'.slot = s /\ loc'.inum = i
    BY <1>5
  <2>2. ~Entries(loc.father)[loc.slot]'.valid
    BY <1>1, <1>4, <2>1 DEF Entries
  <2>3. i \in inode_map' /\ (i \in Inodes => first(i)' = 0)
    BY <1>1, <1>2 DEF BInv, Barren, FreeInode, first
  <2>. QED  BY <1>1, <1>3, <1>7, <2>1, <2>2, <2>3 DEF Knows, Creating, Removing
<1>. QED  BY <1>6, <1>8, <1>9, <1>10

LEMMA MkdirBlockBelow ==
    BInv /\ MkdirBlock /\ UNCHANGED <<cwd, put>>
    => SameEntries /\ Barren' /\ Placed' /\ Knows' /\ Made'
<1>. SUFFICES ASSUME BInv, MkdirBlock, UNCHANGED <<cwd, put>>
              PROVE  SameEntries /\ Barren' /\ Placed' /\ Knows' /\ Made'
  OBVIOUS
<1>1. /\ pc = "called" /\ call.op = "mkdir" /\ Error = 0 /\ pc' = "mkdir"
      /\ UNCHANGED <<inode_map, inode_region, call, ret>>
  BY DEF MkdirBlock, Starts
<1>2. PICK b \in Blocks : /\ FreeBlock(b)
                          /\ blk' = [blk EXCEPT ![b] = ZeroBlock]
                          /\ loc' = [Place EXCEPT !.block = b]
  BY DEF MkdirBlock
<1>3. NInv /\ Barren
  BY DEF BInv, CInv
<1>4. b # 0 /\ \A i \in Inodes : first(i) # b
  BY <1>1, <1>2, <1>3, TakenBlock
<1>5. call.path # <<>> /\ Father \in Inodes /\ ~(Target > 0)
  BY <1>1, StartKnows
<1>6. PICK s \in 1 .. NDIRENTS :
         /\ ~Entries(Father)[s].valid
         /\ Place = [inum |-> 0, father |-> Father, slot |-> s, block |-> 0]
  BY <1>1, StartKnows
<1>7. loc' = [inum |-> 0, father |-> Father, slot |-> s, block |-> b]
  BY <1>2, <1>6
<1>8. blk'[b] = ZeroBlock /\ \A c \in Blocks \ {b} : blk'[c] = blk[c]
  BY <1>2, <1>3 DEF NInv, TypeOK
<1>9. \A d \in Inodes : Entries(d)' = Entries(d)
  <2>1. \A d \in Inodes : first(d) \in Blocks \ {b}
    BY <1>3, <1>4, Ranges, EntryType DEF NInv
  <2>. QED  BY <1>1, <1>8, <2>1 DEF Entries, first
<1>10. SameEntries
  BY <1>9 DEF SameEntries
<1>11. Target' = Target /\ Father' = Father
  BY <1>1, <1>3, <1>5, <1>10, TargetStays
<1>12. Barren'
  <2>1. 0 \in Blocks \ {b}
    BY <1>4, Ranges DEF Blocks
  <2>. QED  BY <1>1, <1>3, <1>8, <2>1 DEF Barren, first
<1>13. Placed' /\ Made'
  BY <1>1, PlacedStays, MadeStays DEF BInv
<1>14. Knows'
  <2>1. loc'.father = Father /\ loc'.slot = s /\ loc'.block = b
    BY <1>7
  <2>2. ~Entries(loc.father)[loc.slot]'.valid
    BY <1>5, <1>6, <1>9, <2>1
  <2>3. \A t \in 1 .. NDIRENTS : ~blk'[b].ent[t].valid
    <3>1. \A t \in 1 .. NDIRENTS : ~ZeroBlock.ent[t].valid
      BY DEF ZeroBlock, NoEntry
    <3>. QED  BY <1>8, <3>1
  <2>. QED  BY <1>1, <1>5, <1>11, <2>1, <2>2, <2>3 DEF Knows, Creating, Removing
<1>. QED  BY <1>10, <1>12, <1>13, <1>14

LEMMA MkdirInodeBelow ==
    BInv /\ MkdirInode /\ UNCHANGED <<cwd, put>>
    => SameEntries /\ Barren' /\ Placed' /\ Knows' /\ Made'
<1>. SUFFICES ASSUME BInv, MkdirInode, UNCHANGED <<cwd, put>>
              PROVE  SameEntries /\ Barren' /\ Placed' /\ Knows' /\ Made'
  OBVIOUS
<1>1. /\ pc = "mkdir" /\ pc' = "inode"
      /\ UNCHANGED <<block_map, inode_region, blk, call, ret>>
  BY DEF MkdirInode
<1>2. PICK i \in Bits : /\ FreeInode(i) /\ inode_map' = inode_map \cup {i}
                        /\ loc' = [loc EXCEPT !.inum = i]
  BY DEF MkdirInode
<1>3. NInv /\ Barren /\ Knows /\ call.path # <<>>
  BY <1>1 DEF BInv, CInv, NInv, AtWork, Creating
<1>4. loc'.inum = i /\ loc'.father = loc.father /\ loc'.slot = loc.slot /\ loc'.block = loc.block
  BY <1>2, <1>3 DEF NInv, TypeOK
<1>5. SameEntries
  BY <1>1, NothingMoves
<1>6. Target' = Target /\ Father' = Father
  BY <1>1, <1>3, <1>5, TargetStays
<1>7. Barren'
  BY <1>1, <1>2, BarrenStays DEF BInv
<1>8. Placed' /\ Made'
  BY <1>1, PlacedStays, MadeStays DEF BInv
<1>9. Knows'
  <2>1. i \in inode_map' /\ (i \in Inodes => first(i)' = 0)
    BY <1>1, <1>2, <1>3 DEF Barren, FreeInode, first
  <2>2. /\ loc.father = Father /\ ~(Target > 0)
        /\ ~Entries(loc.father)[loc.slot].valid
        /\ call.op = "mkdir" => \A s \in 1 .. NDIRENTS : ~blk[loc.block].ent[s].valid
    BY <1>1, <1>3 DEF Knows, Creating
  <2>3. ~Entries(loc.father)[loc.slot]'.valid
    BY <1>1, <1>4, <2>2 DEF Entries
  <2>. QED  BY <1>1, <1>4, <1>6, <2>1, <2>2, <2>3 DEF Knows, Creating, Removing
<1>. QED  BY <1>5, <1>7, <1>8, <1>9

LEMMA CreateInodeBelow ==
    BInv /\ CreateInode /\ UNCHANGED <<cwd, put>>
    => SameEntries /\ Barren' /\ Placed' /\ Knows' /\ Made'
<1>. SUFFICES ASSUME BInv, CreateInode, UNCHANGED <<cwd, put>>
              PROVE  SameEntries /\ Barren' /\ Placed' /\ Knows' /\ Made'
  OBVIOUS
<1>1. /\ pc = "inode" /\ pc' = "entry" /\ loc.inum \in Inodes
      /\ UNCHANGED <<inode_map, block_map, blk, call, loc, ret>>
  BY DEF CreateInode
<1>2. NInv /\ Barren /\ Knows /\ call.path # <<>> /\ loc.father \in Inodes
      /\ loc.slot \in 1 .. NDIRENTS /\ loc.father # 0
      /\ call.op \in {"mknod", "mkdir"} /\ (call.op = "mknod" => loc.block = 0)
  BY <1>1 DEF BInv, CInv, NInv, AtWork, Creating
<1>3. \A i \in Inodes : first(i)' = IF i = loc.inum THEN loc.block ELSE first(i)
  <2>1. inode_region \in [Inodes -> Inode]
    BY <1>2 DEF NInv, TypeOK
  <2>. QED  BY <1>1, <2>1 DEF CreateInode, first
<1>4. /\ first(loc.inum) = 0 /\ loc.inum \in inode_map
      /\ \A s \in 1 .. NDIRENTS : ~blk[loc.block].ent[s].valid
  BY <1>1, <1>2 DEF Knows, Creating, Barren
<1>5. SameEntries
  <2>. SUFFICES ASSUME NEW d \in Inodes, NEW s \in 1 .. NDIRENTS
                PROVE  Entries(d)[s].valid \/ Entries(d)[s]'.valid
                       => Entries(d)[s]' = Entries(d)[s]
    BY DEF SameEntries
  <2>1. CASE d # loc.inum
    BY <1>1, <1>3, <2>1 DEF Entries, first
  <2>2. CASE d = loc.inum
    <3>1. ~Entries(d)[s].valid
      BY <1>2, <1>4, <2>2 DEF Entries, first, Barren
    <3>2. ~Entries(d)[s]'.valid
      BY <1>1, <1>3, <1>4, <2>2 DEF Entries, first
    <3>. QED  BY <3>1, <3>2
  <2>. QED  BY <2>1, <2>2
<1>6. Target' = Target /\ Father' = Father
  BY <1>1, <1>2, <1>5, TargetStays
<1>7. Barren'
  BY <1>1, <1>2, <1>3, <1>4 DEF Barren
<1>8. Placed' /\ Made'
  BY <1>1, PlacedStays, MadeStays DEF BInv
<1>9. Knows'
  <2>1. loc.father = Father /\ ~(Target > 0) /\ ~Entries(loc.father)[loc.slot].valid
    BY <1>1, <1>2 DEF Knows, Creating
  <2>2. ~Entries(loc.father)[loc.slot]'.valid
    <3>1. \A d \in Inodes \ {0}, s \in 1 .. NDIRENTS :
             ~Entries(d)[s].valid => ~Entries(d)[s]'.valid
      BY <1>5 DEF SameEntries
    <3>. QED  BY <1>1, <1>2, <2>1, <3>1
  <2>. QED  BY <1>1, <1>4, <1>6, <2>1, <2>2 DEF Knows, Creating, Removing
<1>. QED  BY <1>5, <1>7, <1>8, <1>9

\* fs_unlink and fs_rmdir.
LEMMA TruncateFreeBelow ==
    BInv /\ TruncateFree /\ UNCHANGED <<cwd, put>>
    => SameEntries /\ Barren' /\ Placed' /\ Knows' /\ Made'
<1>. SUFFICES ASSUME BInv, TruncateFree, UNCHANGED <<cwd, put>>
              PROVE  SameEntries /\ Barren' /\ Placed' /\ Knows' /\ Made'
  OBVIOUS
<1>1. /\ pc = "called" /\ call.op = "unlink" /\ Error = 0 /\ pc' = "clear"
      /\ loc' = [loc EXCEPT !.inum = Target]
      /\ UNCHANGED <<inode_map, inode_region, blk, call, ret>>
  BY DEF TruncateFree, Starts, BInv, Placed, Target
<1>2. NInv /\ Knows /\ TypeOK /\ EntriesLead
  BY DEF BInv, CInv, NInv
<1>3. loc'.inum = Target
  BY <1>1, <1>2 DEF TypeOK
<1>4. call.path \in Paths /\ Target \in Inodes \ {0} /\ Type(Target) # "dir"
  BY <1>1, <1>2, MayChange DEF Target
<1>5. call.path # <<>>
  <2>. SUFFICES ASSUME call.path = <<>> PROVE FALSE
    OBVIOUS
  <2>1. Target = 1
    BY <1>4, ReachedByFather DEF Target, Root
  <2>. QED  BY <1>1, <1>2, <1>4, <2>1 DEF Knows
<1>6. ~(Reached(call.path).inode < 0)
  BY <1>2, <1>4, Leads DEF LeadsOrNot, Target
<1>7. Target # 1 /\ trancate_path(call.path) \in Paths /\ Father \in Inodes \ {0}
  BY <1>2, <1>4, <1>5, <1>6, ReachedEntry DEF Target, Father
<1>8. SameEntries
  BY <1>1, NothingMoves
<1>9. Father' = Father /\ Father > 0
  BY <1>1, <1>2, <1>5, <1>7, <1>8, TargetStays, Ranges DEF Inodes
<1>10. Barren'
  BY <1>1, BarrenStays DEF BInv
<1>11. Placed' /\ Made'
  BY <1>1, PlacedStays, MadeStays DEF BInv
<1>12. Knows'
  BY <1>1, <1>3, <1>5, <1>7, <1>9 DEF Knows, Creating, Removing
<1>. QED  BY <1>8, <1>10, <1>11, <1>12

\* With the block of the file its entries go, if as a directory it has any: they
\* matter to the paths through it alone.
LEMMA CutOff ==
    ASSUME NInv, TruncateInode,
           \A q \in Paths : Reached(q)' = Reached(q) =>
              ~(Reached(q).isDir /\ Reached(q).inode = loc.inum)
    PROVE  \A q \in Paths : Reached(q)' = Reached(q) /\ translate(q)' = translate(q)
<1>. DEFINE Stop == {}
<1>1. inode_region \in [Inodes -> Inode] /\ blk' = blk
      /\ inode_region' = [inode_region EXCEPT ![loc.inum].direct0 = 0]
  BY DEF TruncateInode, NInv, TypeOK
<1>2. \A d \in Inodes \ {loc.inum} : Entries(d)' = Entries(d)
  BY <1>1 DEF Entries
<1>3. ASSUME NEW q \in Paths \ {<<>>}, NEW d \in Inodes,
             d = Reached(trancate_path(q)).inode, Reached(trancate_path(q)).isDir,
             Reached(trancate_path(q))' = Reached(trancate_path(q))
      PROVE  SameNames(d, q[Len(q)])
  <2>1. trancate_path(q) \in Paths
    BY PathShape
  <2>2. d # loc.inum
    BY <1>3, <2>1
  <2>. QED  BY <1>2, <2>2 DEF SameNames, Named
<1>4. \A q \in Paths : q \notin Stop => Reached(q)' = Reached(q) /\ translate(q)' = translate(q)
  <2>1. \A q \in Paths \ {<<>>} : trancate_path(q) \in Stop => q \in Stop
    OBVIOUS
  <2>2. \A q \in Paths \ {<<>>}, d \in Inodes :
           /\ q \notin Stop /\ d > 0
           /\ d = Reached(trancate_path(q)).inode /\ Reached(trancate_path(q)).isDir
           /\ Reached(trancate_path(q))' = Reached(trancate_path(q))
           => SameNames(d, q[Len(q)])
    BY <1>3
  <2>. HIDE DEF Stop
  <2>. QED  BY <2>1, <2>2, WalkKept
<1>. QED  BY <1>4

LEMMA TruncateInodeBelow ==
    BInv /\ TruncateInode /\ UNCHANGED <<cwd, put>>
    => Barren' /\ Placed' /\ Knows' /\ Made'
<1>. SUFFICES ASSUME BInv, TruncateInode, UNCHANGED <<cwd, put>>
              PROVE  Barren' /\ Placed' /\ Knows' /\ Made'
  OBVIOUS
<1>1. NInv /\ Knows /\ Barren /\ pc = "clear" /\ call.op = "unlink"
  BY DEF BInv, CInv, NInv, AtWork, Removing, Placed, TruncateInode
<1>2. /\ pc' = "unmap" /\ UNCHANGED <<inode_map, blk, call, loc, ret>>
      /\ inode_region' = [inode_region EXCEPT ![loc.inum].direct0 = 0]
  BY <1>1 DEF TruncateInode
<1>3. \A i \in Inodes : first(i)' = IF i = loc.inum THEN 0 ELSE first(i)
  <2>1. inode_region \in [Inodes -> Inode]
    BY <1>1 DEF NInv, TypeOK
  <2>. QED  BY <1>2, <2>1 DEF first, Inode
<1>4. loc.inum \in Inodes /\ call.path \in Paths \ {<<>>} /\ loc.inum # 1
  BY <1>1 DEF NInv, TypeOK, AtWork, Removing, Knows
<1>5. trancate_path(call.path) \in Paths
  BY <1>4, PathShape
<1>6. Barren'
  BY <1>1, <1>2, <1>3 DEF Barren
<1>7. Placed' /\ Made'
  BY <1>1, <1>2, PlacedStays, MadeStays DEF BInv
<1>8. Father' > 0 \/ \E q \in Paths : Reached(q)'.isDir /\ Reached(q)'.inode = loc.inum
  <2>. SUFFICES ASSUME \A q \in Paths : ~(Reached(q)'.isDir /\ Reached(q)'.inode = loc.inum)
                PROVE  Father' > 0
    OBVIOUS
  <2>1. \A q \in Paths : Reached(q)' = Reached(q) =>
            ~(Reached(q).isDir /\ Reached(q).inode = loc.inum)
    OBVIOUS
  <2>2. \A q \in Paths : Reached(q)' = Reached(q) /\ translate(q)' = translate(q)
    BY <1>1, <2>1, CutOff
  <2>3. Father > 0
    BY <1>1, <2>1, <2>2 DEF Knows, Removing
  <2>. QED  BY <1>2, <1>5, <2>2, <2>3 DEF Father
<1>9. Knows'
  <2>1. first(loc.inum)' = 0
    BY <1>2, <1>3, <1>4 DEF first
  <2>. QED  BY <1>2, <1>4, <1>8, <2>1 DEF Knows, Creating, Removing
<1>. QED  BY <1>6, <1>7, <1>9

LEMMA UnlinkMapBelow ==
    BInv /\ UnlinkMap /\ UNCHANGED <<cwd, put>>
    => SameEntries /\ Barren' /\ Placed' /\ Knows' /\ Made'
<1>. SUFFICES ASSUME BInv, UnlinkMap, UNCHANGED <<cwd, put>>
              PROVE  SameEntries /\ Barren' /\ Placed' /\ Knows' /\ Made'
  OBVIOUS
<1>1. /\ pc = "unmap" /\ pc' = "unlink" /\ inode_map' = inode_map \ {loc.inum}
      /\ UNCHANGED <<inode_region, blk, call, loc, ret>>
  BY DEF UnlinkMap
<1>2. NInv /\ Knows /\ Barren /\ loc.inum \in Inodes
  BY <1>1 DEF BInv, CInv, NInv, AtWork, Removing
<1>3. /\ call.path # <<>> /\ loc.inum # 1 /\ first(loc.inum) = 0
      /\ \/ Father > 0
         \/ \E q \in Paths : Reached(q).isDir /\ Reached(q).inode = loc.inum
  BY <1>1, <1>2 DEF Knows, Removing
<1>4. SameEntries
  BY <1>1, NothingMoves
<1>5. Father' = Father /\ \A q \in Paths : Reached(q)' = Reached(q)
  BY <1>1, <1>2, <1>3, <1>4, TargetStays, EntriesKept
<1>6. Barren'
  BY <1>1, <1>2, <1>3 DEF Barren, first
<1>7. Placed' /\ Made'
  BY <1>1, PlacedStays, MadeStays DEF BInv
<1>8. Knows'
  <2>1. first(loc.inum)' = 0
    BY <1>1, <1>3 DEF first
  <2>2. \/ Father' > 0
        \/ \E q \in Paths : Reached(q)'.isDir /\ Reached(q)'.inode = loc'.inum
    BY <1>1, <1>3, <1>5
  <2>. QED  BY <1>1, <1>3, <2>1, <2>2 DEF Knows, Creating, Removing
<1>. QED  BY <1>4, <1>6, <1>7, <1>8

LEMMA RmdirMapBelow ==
    BInv /\ RmdirMap /\ UNCHANGED <<cwd, put>>
    => SameEntries /\ Barren' /\ Placed' /\ Knows' /\ Made'
<1>. SUFFICES ASSUME BInv, RmdirMap, UNCHANGED <<cwd, put>>
              PROVE  SameEntries /\ Barren' /\ Placed' /\ Knows' /\ Made'
  OBVIOUS
<1>1. /\ pc = "called" /\ call.op = "rmdir" /\ Error = 0 /\ pc' = "rmdir" /\ call.path # <<>>
      /\ inode_map \subseteq inode_map'
      /\ UNCHANGED <<inode_region, blk, call, loc, ret>>
  BY DEF RmdirMap, Starts
<1>2. NInv /\ TypeOK /\ EntriesLead
  BY DEF BInv, CInv, NInv
<1>3. call.path \in Paths /\ Target \in Inodes \ {0}
  BY <1>1, <1>2, MayChange DEF Target
<1>4. ~(Reached(call.path).inode < 0)
  BY <1>2, <1>3, Leads DEF LeadsOrNot, Target
<1>5. trancate_path(call.path) \in Paths /\ Father \in Inodes \ {0}
  BY <1>1, <1>2, <1>3, <1>4, ReachedEntry DEF Father
<1>6. SameEntries
  BY <1>1, NothingMoves
<1>7. Father' = Father /\ Father > 0
  BY <1>1, <1>2, <1>5, <1>6, TargetStays, Ranges DEF Inodes
<1>8. Barren'
  BY <1>1, BarrenStays DEF BInv
<1>9. Placed' /\ Made'
  BY <1>1, PlacedStays, MadeStays DEF BInv
<1>10. Knows'
  BY <1>1, <1>7 DEF Knows, Creating, Removing
<1>. QED  BY <1>6, <1>8, <1>9, <1>10

\* With a new file every path leads where it did, or to the new file, or nowhere.
LEMMA NewFileLeads ==
    ASSUME BInv, CreateEntry, call.op = "mknod"
    PROVE  \A q \in Paths : \/ Reached(q)' = Reached(q)
                            \/ Reached(q)'.inode < 0
                            \/ Reached(q)'.inode = loc.inum
<1>. DEFINE Ok(q) == \/ Reached(q)' = Reached(q)
                     \/ Reached(q)'.inode < 0
                     \/ Reached(q)'.inode = loc.inum /\ ~Reached(q)'.isDir
            S == {q \in Paths : Ok(q)}
            b == first(loc.father)
            entry == [valid |-> TRUE, isDir |-> call.op = "mkdir", inode |-> loc.inum,
                      name |-> get_name(call.path, call.slash)]
<1>1. WalksOn /\ WalksOn'
  BY WalkOn, PTL
<1>2. NInv /\ NInv' /\ pc = "entry"
  BY CreateEntryKeeps, EntryCreated DEF BInv, CInv
<1>3. /\ b \in Blocks /\ UNCHANGED inode_region
      /\ loc.father \in Inodes /\ loc.slot \in 1 .. NDIRENTS
      /\ \A c \in Blocks, s \in 1 .. NDIRENTS :
            blk'[c].ent[s] = IF c = b /\ s = loc.slot THEN entry ELSE blk[c].ent[s]
  BY <1>2, EntryCreated
<1>4. ~blk[b].ent[loc.slot].valid
  <2>1. ~Entries(loc.father)[loc.slot].valid
    BY <1>2 DEF BInv, Knows, Creating
  <2>. QED  BY <2>1 DEF Entries, first
<1>5. entry.inode = loc.inum /\ ~entry.isDir
  OBVIOUS
<1>. HIDE DEF b, entry
<1>6. \A d \in Inodes, s \in 1 .. NDIRENTS :
         \/ Entries(d)[s]' = Entries(d)[s]
         \/ Entries(d)[s]' = entry /\ ~Entries(d)[s].valid
  <2>1. \A d \in Inodes : first(d) \in Blocks
    BY <1>2, Ranges, EntryType DEF NInv
  <2>. QED  BY <1>3, <1>4, <2>1 DEF Entries, first
<1>7. <<>> \in S
  <2>1. <<>> \in Paths
    BY Ranges DEF Paths
  <2>2. Reached(<<>>) = Root /\ Reached(<<>>)' = Root
    BY <1>1 DEF WalksOn, Root
  <2>. QED  BY <2>1, <2>2
<1>8. ASSUME NEW q \in Paths, q # <<>>, trancate_path(q) \in S
      PROVE  q \in S
  <2>. DEFINE n == q[Len(q)]
  <2>1. q \in Paths \ {<<>>} /\ trancate_path(q) \in Paths /\ Ok(trancate_path(q))
    BY <1>8
  <2>2. Onward(q) /\ Onward(q)'
    BY <1>1, <2>1 DEF WalksOn
  <2>3. PICK at : at = Reached(trancate_path(q))'
    OBVIOUS
  <2>4. ~(at.inode < 0) => at.inode \in Inodes
    <3>1. LeadsOrNot'
      BY <1>2, Leads, PTL
    <3>. QED  BY <2>1, <2>3, <3>1 DEF LeadsOrNot, Inodes
  <2>5. CASE at.inode < 0
    BY <2>1, <2>2, <2>3, <2>5 DEF Onward
  <2>6. CASE ~(at.inode < 0) /\ ~at.isDir
    <3>1. Reached(q)' = [inode |-> -20, isDir |-> FALSE]
      BY <2>2, <2>3, <2>6 DEF Onward, ENOTDIR
    <3>. QED  BY <2>1, <3>1
  <2>7. CASE ~(at.inode < 0) /\ at.isDir
    <3>1. at = Reached(trancate_path(q))
      BY <2>1, <2>3, <2>7
    <3>2. PICK d \in Inodes : d = at.inode
      BY <2>4, <2>7
    <3>3. Named(d, n) # {} =>
              \E s \in Named(d, n) : /\ Reached(q) = Entries(d)[s]
                                     /\ \A t \in Named(d, n) : t <= s
      BY <2>2, <2>7, <3>1, <3>2 DEF Onward
    <3>4. /\ Named(d, n)' = {} => Reached(q)' = [inode |-> -2, isDir |-> FALSE]
          /\ Named(d, n)' # {} =>
                \E s \in Named(d, n)' : /\ Reached(q)' = Entries(d)[s]'
                                        /\ \A t \in Named(d, n)' : t <= s
      BY <2>2, <2>3, <2>7, <3>2 DEF Onward, ENOENT
    <3>. HIDE DEF n
    <3>5. CASE Named(d, n)' = {}
      BY <2>1, <3>4, <3>5
    <3>6. CASE Named(d, n)' # {}
      <4>1. PICK r \in Named(d, n)' : /\ Reached(q)' = Entries(d)[r]'
                                      /\ \A t \in Named(d, n)' : t <= r
        BY <3>4, <3>6
      <4>2. r \in 1 .. NDIRENTS /\ Entries(d)[r]'.valid /\ Entries(d)[r]'.name = n
        BY <4>1 DEF Named
      <4>3. CASE Entries(d)[r]' = entry
        BY <1>5, <2>1, <4>1, <4>3
      <4>4. CASE Entries(d)[r]' = Entries(d)[r]
        <5>1. r \in Named(d, n)
          BY <4>2, <4>4 DEF Named
        <5>2. PICK s \in Named(d, n) : /\ Reached(q) = Entries(d)[s]
                                       /\ \A t \in Named(d, n) : t <= s
          BY <3>3, <5>1
        <5>3. s \in 1 .. NDIRENTS /\ Entries(d)[s].valid /\ Entries(d)[s].name = n
          BY <5>2 DEF Named
        <5>4. Entries(d)[s]' = Entries(d)[s]
          BY <1>6, <5>3
        <5>5. s \in Named(d, n)'
          BY <5>3, <5>4 DEF Named
        <5>6. r <= s /\ s <= r
          BY <4>1, <5>1, <5>2, <5>5
        <5>7. r = s
          BY <4>2, <5>3, <5>6, Ranges
        <5>. QED  BY <2>1, <4>1, <4>4, <5>2, <5>7
      <4>. QED  BY <1>6, <4>2, <4>3, <4>4
    <3>. QED  BY <3>5, <3>6
  <2>. QED  BY <2>5, <2>6, <2>7
<1>9. Paths \subseteq S
  <2>. HIDE DEF S
  <2>. QED  BY <1>7, <1>8, PathInduction
<1>. QED  BY <1>9

LEMMA CreateEntryBelow ==
    BInv /\ CreateEntry /\ UNCHANGED <<cwd, put>>
    => Barren' /\ Placed' /\ Knows' /\ Made'
<1>. SUFFICES ASSUME BInv, CreateEntry, UNCHANGED <<cwd, put>>
              PROVE  Barren' /\ Placed' /\ Knows' /\ Made'
  OBVIOUS
<1>1. NInv /\ Knows /\ Barren /\ Placed /\ Made
  BY DEF BInv, CInv
<1>2. /\ pc = "entry" /\ first(loc.father) # 0
      /\ pc' = "return" /\ ret' = 0 /\ call' = call
      /\ UNCHANGED <<inode_map, inode_region>>
      /\ call.path \in Paths
  BY <1>1, EntryCreated DEF Answer
<1>3. \A s \in 1 .. NDIRENTS : blk'[0].ent[s] = blk[0].ent[s]
  <2>1. 0 \in Blocks
    BY Ranges DEF Blocks
  <2>. QED  BY <1>1, <1>2, <2>1, EntryCreated
<1>4. Barren'
  BY <1>1, <1>2, <1>3 DEF Barren, first
<1>5. Placed'
  BY <1>1, <1>2, PlacedStays
<1>6. Knows'
  BY <1>2 DEF Knows, Creating, Removing
<1>7. ASSUME put # NoPut, call.op = "mknod", translate(put.path)' > 0
      PROVE  translate(put.path)' \in inode_map
  <2>1. PICK p \in Paths : p = call.path /\ p = put.path /\ p = put'.path
    BY <1>1, <1>2, <1>7 DEF Made
  <2>2. ~(translate(p) > 0) /\ loc.inum \in inode_map
    BY <1>1, <1>2, <2>1 DEF Knows, Creating, Target
  <2>3. LeadsOrNot /\ LeadsOrNot'
    BY <1>1, CreateEntryKeeps, Leads, PTL
  <2>4. translate(p)' > 0 /\ translate(put.path)' = translate(p)'
    BY <1>7, <2>1
  <2>5. ~(Reached(p)'.inode < 0)
    BY <2>3, <2>4 DEF LeadsOrNot
  <2>6. \/ Reached(p)' = Reached(p) \/ Reached(p)'.inode < 0 \/ Reached(p)'.inode = loc.inum
    BY <1>7, NewFileLeads
  <2>. QED  BY <2>2, <2>3, <2>4, <2>5, <2>6 DEF LeadsOrNot
<1>8. Made'
  BY <1>1, <1>2, <1>7 DEF Made
<1>. QED  BY <1>4, <1>5, <1>6, <1>8

LEMMA HandleBelow == BInv /\ Handle /\ InPlace' => Barren' /\ Placed' /\ Knows' /\ Made'
<1>. SUFFICES ASSUME BInv, Handle, InPlace' PROVE Barren' /\ Placed' /\ Knows' /\ Made'
  OBVIOUS
<1>1. Handler /\ UNCHANGED <<cwd, put>>
  BY DEF Handle
<1>2. ~Rename /\ ~RenameOverrun /\ ~CreateOverrun
  BY DEF Rename, RenameOverrun, CreateOverrun, Overrun, InPlace, Starts, BInv, Placed
<1>3. CASE Refuse \/ MkdirNoBlock \/ MkdirNoInode \/ CreateAborts \/ WriteNoBlock
  BY <1>1, <1>3, EndingKnows, EndingBarren
<1>4. CASE UnlinkEntry \/ RmdirEntry
  BY <1>1, <1>4, EndingKnows, EntryGoneBarren
<1>5. CASE Chmod \/ WriteData
  BY <1>1, <1>5, EndingKnows, ChmodBarren, WriteDataBarren
<1>6. CASE MknodStart \/ MkdirBlock \/ MkdirInode \/ CreateInode \/ CreateEntry
  BY <1>1, <1>6, MknodStartBelow, MkdirBlockBelow, MkdirInodeBelow, CreateInodeBelow,
     CreateEntryBelow
<1>8. CASE WriteBlock \/ WriteMark \/ WriteFound
  BY <1>1, <1>8, WriteBlockBelow, WriteGoesOnBelow
<1>7. CASE TruncateFree \/ TruncateInode \/ UnlinkMap \/ RmdirMap
  BY <1>1, <1>7, TruncateFreeBelow, TruncateInodeBelow, UnlinkMapBelow, RmdirMapBelow
<1>. QED
  BY <1>1, <1>2, <1>3, <1>4, <1>5, <1>6, <1>7, <1>8
     DEF Handler, CreateStep, RemoveStep, WriteStep

\* What the loop itself does is no change of the image.
LEMMA PutLeads ==
    ASSUME CInv, UNCHANGED <<inode_region, blk>>
    PROVE  /\ put.path \in Paths
           /\ \A q \in Paths : Reached(q)' = Reached(q) /\ translate(q)' = translate(q)
BY NothingMoves, EntriesKept DEF CInv

LEMMA CalledBelow ==
    ASSUME BInv, NEW op, NEW p \in Paths, NEW slash, NEW w, Call(op, p, <<>>, slash, w),
           op \notin {"rename", "truncate"}, UNCHANGED cwd, Below(p, Base),
           put' # NoPut => Below(put'.path, Base) /\ (op = "mknod" => put'.path = p),
           op = "write" => translate(p) \in inode_map
    PROVE  Barren' /\ Placed' /\ Knows' /\ Made'
<1>1. /\ pc' = "called" /\ call'.op = op /\ call'.path = p
      /\ UNCHANGED <<inode_map, inode_region, blk>>
      /\ op = "unlink" /\ p = <<>> => Type(1) = "dir"
  BY DEF Call, Defined, image
<1>2. Barren'
  BY <1>1, BarrenStays DEF BInv
<1>3. Placed'
  BY <1>1 DEF BInv, Placed, Base
<1>4. Knows'
  BY <1>1 DEF Knows, Creating, Removing, Type
<1>5. Target' = translate(p)
  BY <1>1, PutLeads DEF Target, BInv
<1>6. Made'
  BY <1>1, <1>5 DEF Made
<1>. QED  BY <1>2, <1>3, <1>4, <1>6

LEMMA StutterBelow ==
    ASSUME BInv, UNCHANGED cmdVars
    PROVE  Barren' /\ Placed' /\ Knows' /\ Made'
<1>1. UNCHANGED <<inode_map, block_map, inode_region, blk, pc, call, loc, ret, cwd, put>>
  BY DEF cmdVars, vars
<1>2. CInv /\ NInv /\ call.path \in Paths
  BY DEF BInv, CInv, NInv, TypeOK
<1>3. \A q \in Paths : Reached(q)' = Reached(q) /\ translate(q)' = translate(q)
  BY <1>1, <1>2, PutLeads
<1>4. Target' = Target /\ (call.path # <<>> => Father' = Father)
  BY <1>1, <1>2, NothingMoves, TargetStays
<1>5. Barren'
  BY <1>1, BarrenStays DEF BInv
<1>6. Placed'
  BY <1>1 DEF BInv, Placed, Base
<1>7. Knows'
  <2>1. Knows /\ (Creating => call.path # <<>>)
    BY <1>2 DEF BInv, NInv, AtWork
  <2>. QED  BY <1>1, <1>3, <1>4, <2>1 DEF Knows, Creating, Removing, Type, first, Entries
<1>8. Made'
  <2>1. Made /\ put.path \in Paths
    BY <1>1, <1>2, PutLeads DEF BInv
  <2>2. translate(put.path)' = translate(put.path)
    BY <1>1, <1>3, <2>1
  <2>. QED  BY <1>1, <1>4, <2>1, <2>2 DEF Made
<1>. QED  BY <1>5, <1>6, <1>7, <1>8

LEMMA CmdStepBelow == BInv /\ [CmdNext]_cmdVars /\ InPlace' => BInv'
<1>. SUFFICES ASSUME BInv, [CmdNext]_cmdVars, InPlace' PROVE Barren' /\ Placed' /\ Knows' /\ Made'
  BY CmdStepKeeps DEF BInv
<1>1. CInv /\ Barren /\ Placed /\ Knows /\ Made /\ cwd \in Seq(Typable)
  BY DEF BInv, Placed
<1>2. put.path \in Paths
  BY <1>1 DEF CInv
<1>3. ASSUME NEW arg \in Arguments \cup {<<>>}, NEW absolute \in BOOLEAN,
             NEW slash \in BOOLEAN, do_cd(arg, absolute, slash)
      PROVE  Barren' /\ Placed' /\ Knows' /\ Made'
  <2>1. pc = "idle" /\ put = NoPut /\ UNCHANGED <<vars, put>>
    BY <1>3 DEF do_cd
  <2>2. pc' = "idle" /\ put' = NoPut /\ call' = call /\ UNCHANGED <<inode_map, inode_region, blk>>
    BY <2>1 DEF vars
  <2>3. arg \in Seq(Typable)
    <3>1. CASE arg \in Arguments
      <4>1. PICK n \in 1 .. MaxDepth : arg \in [1 .. n -> Names \cup {DotDot}]
        BY <3>1 DEF Arguments
      <4>. QED  BY <4>1, Ranges DEF Typable
    <3>2. CASE arg = <<>>
      BY <3>2
    <3>. QED  BY <3>1, <3>2
  <2>4. cwd' \in Seq(Typable)
    <3>1. SubSeq(cwd, 1, Len(cwd) - 1) \in Seq(Typable)
      BY <1>1
    <3>2. cwd \o arg \in Seq(Typable)
      BY <1>1, <2>3
    <3>3. cwd' \in {cwd, trancate_path(cwd), arg, cwd \o arg}
      BY <1>3 DEF do_cd
    <3>. QED  BY <1>1, <2>3, <3>1, <3>2, <3>3 DEF trancate_path
  <2>5. Barren'
    BY <1>1, <2>2, BarrenStays
  <2>6. Placed' /\ Knows' /\ Made'
    BY <1>1, <2>2, <2>4 DEF Placed, Knows, Made, Creating, Removing
  <2>. QED  BY <2>5, <2>6
<1>4. ASSUME NEW slash \in BOOLEAN, NEW p \in Typed(slash),
             NEW op \in Ops \cap {"mkdir", "rmdir", "unlink", "chmod"}, Command(op, p, slash)
      PROVE  Barren' /\ Placed' /\ Knows' /\ Made'
  <2>1. p \in Paths /\ Below(p, Base)
    BY <1>1, TypedBelow
  <2>2. Call(op, p, <<>>, slash, 0) /\ UNCHANGED cwd /\ put' = NoPut
    BY <1>4 DEF Command
  <2>. QED  BY <2>1, <2>2, CalledBelow
<1>5. ASSUME NEW slash \in BOOLEAN, NEW p \in Typed(slash), NEW w \in Words, do_put(p, slash, w)
      PROVE  Barren' /\ Placed' /\ Knows' /\ Made'
  <2>1. p \in Paths /\ Below(p, Base)
    BY <1>1, TypedBelow
  <2>2. Call("mknod", p, <<>>, slash, 0) /\ UNCHANGED cwd /\ put'.path = p
    BY <1>5 DEF do_put
  <2>. QED  BY <2>1, <2>2, CalledBelow
<1>6. CASE PutReturn
  <2>1. /\ pc = "return" /\ pc' = "idle" /\ call' = NoCall /\ cwd' = cwd
        /\ UNCHANGED <<inode_map, inode_region, blk>>
        /\ put' = IF ret = 0 /\ call.op = "mknod" THEN put ELSE NoPut
    BY <1>6 DEF PutReturn, Return, image
  <2>2. Barren'
    BY <1>1, <2>1, BarrenStays
  <2>3. Placed'
    BY <1>1, <2>1 DEF Placed, Base, NoCall
  <2>4. Knows'
    BY <2>1 DEF Knows, Creating, Removing
  <2>5. ASSUME put' # NoPut, translate(put.path)' > 0
        PROVE  translate(put.path)' \in inode_map
    <3>1. put' = put /\ put # NoPut /\ ret = 0 /\ call.op = "mknod"
      BY <2>1, <2>5
    <3>2. translate(put.path)' = translate(put.path)
      BY <1>1, <1>2, <2>1, <3>1, PutLeads
    <3>. QED  BY <1>1, <2>1, <2>5, <3>1, <3>2 DEF Made
  <2>6. Made'
    BY <2>1, <2>5 DEF Made, NoCall
  <2>. QED  BY <2>2, <2>3, <2>4, <2>6
<1>7. CASE PutWrite
  <2>1. Call("write", put.path, <<>>, FALSE, put.word) /\ put # NoPut /\ UNCHANGED <<cwd, put>>
    BY <1>7 DEF PutWrite
  <2>2. pc = "idle" /\ translate(put.path) > 0
    BY <2>1 DEF Call, Defined
  <2>3. translate(put.path) \in inode_map /\ Below(put.path, Base)
    BY <1>1, <2>1, <2>2 DEF Made, Placed
  <2>4. PICK p \in Paths : p = put.path
    BY <1>2
  <2>5. PICK slash, w : Call("write", p, <<>>, slash, w)
    BY <2>1, <2>4
  <2>6. UNCHANGED cwd /\ put'.path = p
    BY <2>1, <2>4
  <2>7. translate(p) \in inode_map /\ Below(p, Base)
    BY <2>3, <2>4
  <2>. QED  BY <2>5, <2>6, <2>7, CalledBelow
<1>8. CASE PutWriteUndefined
  <2>1. pc = "idle" /\ put' = NoPut /\ UNCHANGED <<vars, cwd>>
    BY <1>8 DEF PutWriteUndefined
  <2>2. pc' = "idle" /\ call' = call /\ UNCHANGED <<inode_map, inode_region, blk>>
    BY <2>1 DEF vars
  <2>3. Barren'
    BY <1>1, <2>2, BarrenStays
  <2>4. Placed' /\ Knows' /\ Made'
    BY <1>1, <2>1, <2>2 DEF Placed, Knows, Made, Creating, Removing
  <2>. QED  BY <2>3, <2>4
<1>9. CASE RmdirRoot
  BY <1>9, EndingKnows, EndingBarren DEF RmdirRoot
<1>10. CASE Handle
  BY <1>10, HandleBelow
<1>11. CASE Restart
  <2>1. pc' = "idle" /\ call' = NoCall /\ cwd' = <<>> /\ put' = NoPut
        /\ UNCHANGED <<inode_map, inode_region, blk>>
    BY <1>11 DEF Restart, Mount, image
  <2>2. Barren'
    BY <1>1, <2>1, BarrenStays
  <2>3. Placed' /\ Knows' /\ Made'
    BY <2>1 DEF Placed, Knows, Made, Creating, Removing, NoCall
  <2>. QED  BY <2>2, <2>3
<1>12. CASE UNCHANGED cmdVars
  BY <1>12, StutterBelow
<1>. QED
  BY <1>3, <1>4, <1>5, <1>6, <1>7, <1>8, <1>9, <1>10, <1>11, <1>12 DEF CmdNext
-----------------------------------------------------------------------------
(***************************************************************************)
(* Commands stay below the working directory.                              *)
(***************************************************************************)
LEMMA BelowBelow ==
    ASSUME NEW p \in Paths, NEW q \in Paths, NEW b \in Seq(Names), Below(p, q), Below(q, b)
    PROVE  Below(p, b)
<1>1. /\ p \in Seq(Names) /\ q \in Seq(Names)
      /\ Len(p) \in Nat /\ Len(q) \in Nat /\ Len(b) \in Nat
  <2>1. \A r \in Paths : r \in Seq(Names)
    BY Ranges DEF Paths
  <2>. QED  BY <2>1
<1>2. Len(p) >= Len(q) /\ Len(q) >= Len(b) /\ SubSeq(p, 1, Len(q)) = q /\ SubSeq(q, 1, Len(b)) = b
  BY DEF Below
<1>3. \A i \in 1 .. Len(b) : p[i] = b[i]
  <2>1. \A i \in 1 .. Len(q) : SubSeq(p, 1, Len(q))[i] = p[i]
    BY <1>1, <1>2
  <2>2. \A i \in 1 .. Len(b) : SubSeq(q, 1, Len(b))[i] = q[i]
    BY <1>1, <1>2
  <2>. QED  BY <1>1, <1>2, <2>1, <2>2
<1>4. SubSeq(p, 1, Len(b)) = b
  BY <1>1, <1>2, <1>3
<1>. QED  BY <1>1, <1>2, <1>4 DEF Below

LEMMA BelowItself ==
    ASSUME NEW c \in Paths
    PROVE  /\ Below(c, c)
           /\ \A q \in Paths \ {<<>>} : Below(trancate_path(q), c) => Below(q, c)
<1>1. \A r \in Paths : r \in Seq(Names) /\ Len(r) \in Nat
  <2>1. \A r \in Paths : r \in Seq(Names)
    BY Ranges DEF Paths
  <2>. QED  BY <2>1
<1>2. Below(c, c)
  BY <1>1 DEF Below
<1>3. ASSUME NEW q \in Paths \ {<<>>}, Below(trancate_path(q), c)
      PROVE  Below(q, c)
  <2>1. /\ trancate_path(q) \in Paths /\ Len(trancate_path(q)) = Len(q) - 1
        /\ \A i \in 1 .. Len(q) - 1 : trancate_path(q)[i] = q[i]
    BY PathShape
  <2>2. Below(q, trancate_path(q))
    <3>1. Len(q) >= Len(q) - 1
      BY <1>1
    <3>. QED  BY <2>1, <3>1 DEF Below, trancate_path
  <2>. QED  BY <1>1, <1>3, <2>1, <2>2, BelowBelow
<1>. QED  BY <1>2, <1>3

\* If only the entries with the call's name change, in its father, then only the
\* paths below the call's lead elsewhere.
LEMMA OthersKept ==
    ASSUME NInv, InPlace, IsTree, call.path \in Paths \ {<<>>}, Father > 0,
           NEW n, n \in Names => n = call.path[Len(call.path)],
           \A d \in Inodes \ {0}, m \in Names :
              d # Father \/ m # n => SameNames(d, m)
    PROVE  \A p \in Paths : ~Below(p, call.path) => translate(p)' = translate(p)
<1>. DEFINE Stop == {q \in Paths : Below(q, call.path)}
<1>1. \A q \in Paths \ {<<>>} : trancate_path(q) \in Stop => q \in Stop
  BY BelowItself
<1>2. ASSUME NEW q \in Paths \ {<<>>}, q \notin Stop, NEW d \in Inodes, d > 0,
             d = Reached(trancate_path(q)).inode
      PROVE  SameNames(d, q[Len(q)])
  <2>1. q[Len(q)] \in Names /\ trancate_path(q) \in Paths /\ d \in Inodes \ {0}
    BY <1>2, PathShape
  <2>2. CASE d # Father
    BY <2>1, <2>2
  <2>3. CASE d = Father
    <3>1. trancate_path(call.path) \in Paths
      BY PathShape
    <3>2. translate(trancate_path(q)) = translate(trancate_path(call.path))
      BY <1>2, <2>1, <2>3, Leads DEF LeadsOrNot, Father
    <3>3. trancate_path(q) = trancate_path(call.path)
      BY <2>1, <3>1, <3>2, OnePath DEF Father
    <3>4. q # call.path
      BY <1>2, BelowItself
    <3>5. q[Len(q)] # call.path[Len(call.path)]
      BY <3>3, <3>4, SamePath
    <3>. QED  BY <2>1, <3>5
  <2>. QED  BY <2>2, <2>3
<1>3. \A q \in Paths : q \notin Stop => Reached(q)' = Reached(q) /\ translate(q)' = translate(q)
  <2>1. \A q \in Paths \ {<<>>}, d \in Inodes :
           /\ q \notin Stop /\ d > 0
           /\ d = Reached(trancate_path(q)).inode /\ Reached(trancate_path(q)).isDir
           /\ Reached(trancate_path(q))' = Reached(trancate_path(q))
           => SameNames(d, q[Len(q)])
    BY <1>2
  <2>. HIDE DEF Stop
  <2>. QED  BY <1>1, <2>1, WalkKept
<1>. QED  BY <1>3

\* The name that a handler enters or removes is the path's last, or none.
LEMMA NameOfPath ==
    ASSUME NEW p, NEW slash, get_name(p, slash) \in Names
    PROVE  get_name(p, slash) = p[Len(p)]
BY NamespaceAssumption DEF get_name

LEMMA CreateEntryStays ==
    ASSUME BInv, InPlace, IsTree, CreateEntry
    PROVE  \A p \in Paths : ~Below(p, call.path) => translate(p)' = translate(p)
<1>. DEFINE b == first(loc.father)
            name == get_name(call.path, call.slash)
            entry == [valid |-> TRUE, isDir |-> call.op = "mkdir",
                      inode |-> loc.inum, name |-> name]
<1>1. NInv /\ Knows
  BY DEF BInv, CInv
<1>2. /\ pc = "entry" /\ b # 0 /\ b \in Blocks /\ UNCHANGED inode_region
      /\ loc.father \in Inodes /\ loc.slot \in 1 .. NDIRENTS
      /\ call.path \in Paths \ {<<>>}
      /\ \A c \in Blocks, s \in 1 .. NDIRENTS :
            blk'[c].ent[s] = IF c = b /\ s = loc.slot THEN entry ELSE blk[c].ent[s]
  BY <1>1, EntryCreated
<1>3. loc.father = Father /\ ~Entries(Father)[loc.slot].valid /\ Father > 0
  BY <1>1, <1>2, Ranges DEF Knows, Creating, NInv, AtWork, Inodes
<1>4. entry.name = name
  OBVIOUS
<1>5. \A d \in Inodes \ {Father} : first(d) # b
  BY <1>1, <1>2, <1>3 DEF NInv, Held
<1>. HIDE DEF b, name, entry
<1>6. \A d \in Inodes : first(d) \in Blocks
  BY <1>1, Ranges, EntryType DEF NInv
<1>7. \A d \in Inodes, s \in 1 .. NDIRENTS :
         Entries(d)[s]' = IF d = Father /\ s = loc.slot THEN entry ELSE Entries(d)[s]
  <2>1. first(Father) = b
    BY <1>3 DEF b
  <2>. QED  BY <1>2, <1>5, <1>6, <2>1 DEF Entries, first
<1>8. ASSUME NEW d \in Inodes \ {0}, NEW m \in Names, d # Father \/ m # name
      PROVE  SameNames(d, m)
  <2>1. \A s \in 1 .. NDIRENTS : s \in Named(d, m)' <=> s \in Named(d, m)
    BY <1>3, <1>4, <1>7, <1>8 DEF Named
  <2>2. Named(d, m)' \subseteq 1 .. NDIRENTS /\ Named(d, m) \subseteq 1 .. NDIRENTS
    BY DEF Named
  <2>3. \A s \in Named(d, m) : Entries(d)[s]' = Entries(d)[s]
    BY <1>3, <1>7 DEF Named
  <2>. QED  BY <2>1, <2>2, <2>3 DEF SameNames
<1>9. name \in Names => name = call.path[Len(call.path)]
  BY NameOfPath DEF name
<1>. QED  BY <1>1, <1>2, <1>3, <1>8, <1>9, OthersKept

LEMMA EntryGoneStays ==
    ASSUME BInv, InPlace, IsTree, UnlinkEntry \/ RmdirEntry
    PROVE  \A p \in Paths : ~Below(p, call.path) => translate(p)' = translate(p)
<1>1. NInv /\ Knows /\ Barren
  BY DEF BInv, CInv
<1>2. PICK n : /\ blk' = WithoutEntries(Father, n) /\ UNCHANGED inode_region
               /\ n \in Names => n = call.path[Len(call.path)]
  BY NameOfPath DEF UnlinkEntry, RmdirEntry, Father
<1>3. pc \in {"unlink", "rmdir"}
  BY DEF UnlinkEntry, RmdirEntry
<1>4. call.path \in Paths \ {<<>>} /\ trancate_path(call.path) \in Paths
  <2>1. call.path \in Paths /\ call.path # <<>>
    BY <1>1, <1>3 DEF NInv, TypeOK, Knows, Removing
  <2>. QED  BY <2>1, PathShape
<1>5. Father > 0
  <2>1. CASE pc = "rmdir"
    BY <1>1, <2>1 DEF Knows
  <2>2. CASE pc = "unlink"
    <3>. SUFFICES ASSUME NEW q \in Paths, Reached(q).isDir, Reached(q).inode = loc.inum
                  PROVE  FALSE
      BY <1>1, <2>2 DEF Knows, Removing
    <3>1. loc.inum \in Inodes /\ Type(loc.inum) # "dir" /\ loc.inum # 1
      BY <1>1, <2>2 DEF NInv, AtWork, Knows, Removing
    <3>2. ~(Reached(q).inode < 0)
      BY <3>1 DEF Inodes
    <3>. QED  BY <1>1, <3>1, <3>2, ReachedLink
  <2>. QED  BY <1>3, <2>1, <2>2
<1>6. Father \in Inodes \ {0}
  BY <1>1, <1>4, <1>5, Leads DEF LeadsOrNot, Father
<1>7. /\ \A d \in Inodes : first(d) \in Blocks
      /\ \A d \in Inodes \ {Father} : first(d) = first(Father) => first(Father) = 0
  <2>1. \A d \in Inodes : first(d) \in Blocks
    BY <1>1, Ranges, EntryType DEF NInv
  <2>. QED  BY <1>1, <1>6, <2>1 DEF NInv, Held
<1>8. first(Father) = 0 => Named(Father, n) = {}
  BY <1>1 DEF Barren, Named, Entries, first
<1>9. \A d \in Inodes, s \in 1 .. NDIRENTS :
         Entries(d)[s]' = IF d = Father /\ s \in Named(Father, n) THEN NoEntry ELSE Entries(d)[s]
  <2>1. \A c \in Blocks, s \in 1 .. NDIRENTS :
           blk'[c].ent[s] = IF c = first(Father) /\ s \in Named(Father, n)
                            THEN NoEntry ELSE blk[c].ent[s]
    BY <1>1, <1>2, EntriesRemoved, TypeParts DEF NInv
  <2>. QED  BY <1>2, <1>7, <1>8, <2>1 DEF Entries, first
<1>10. ASSUME NEW d \in Inodes \ {0}, NEW m \in Names, d # Father \/ m # n
       PROVE  SameNames(d, m)
  <2>1. \A s \in 1 .. NDIRENTS : s \in Named(d, m) => ~(d = Father /\ s \in Named(Father, n))
    BY <1>10 DEF Named
  <2>2. ~NoEntry.valid
    BY DEF NoEntry
  <2>3. \A s \in 1 .. NDIRENTS : s \in Named(d, m)' <=> s \in Named(d, m)
    BY <1>9, <2>1, <2>2 DEF Named
  <2>4. Named(d, m)' \subseteq 1 .. NDIRENTS /\ Named(d, m) \subseteq 1 .. NDIRENTS
    BY DEF Named
  <2>5. \A s \in Named(d, m) : Entries(d)[s]' = Entries(d)[s]
    BY <1>9, <2>1, <2>4
  <2>. QED  BY <2>3, <2>4, <2>5 DEF SameNames
<1>. QED  BY <1>1, <1>2, <1>4, <1>5, <1>10, OthersKept

LEMMA TruncateInodeStays ==
    ASSUME BInv, InPlace, IsTree, TruncateInode
    PROVE  \A p \in Paths : translate(p)' = translate(p)
<1>1. NInv /\ Knows /\ pc = "clear"
  BY DEF BInv, CInv, TruncateInode
<1>2. loc.inum \in Inodes /\ Type(loc.inum) # "dir" /\ loc.inum # 1
  BY <1>1 DEF NInv, AtWork, Knows, Removing
<1>3. \A q \in Paths : ~(Reached(q).isDir /\ Reached(q).inode = loc.inum)
  BY <1>1, <1>2, ReachedLink DEF Inodes
<1>. QED  BY <1>1, <1>3, CutOff

LEMMA StepStaysBelow ==
    BInv /\ [CmdNext]_cmdVars =>
        (image' # image /\ cwd' = cwd /\ IsTree /\ InPlace' =>
            \A p \in Paths : ~Below(p, fix_path(cwd, TRUE)) => translate(p)' = translate(p))
<1>. SUFFICES ASSUME BInv, [CmdNext]_cmdVars, image' # image, IsTree, InPlace',
                     NEW p \in Paths, ~Below(p, Base)
              PROVE  translate(p)' = translate(p)
  BY DEF Base
<1>1. Handle
  <2>1. ASSUME NEW arg, NEW absolute, NEW slash, do_cd(arg, absolute, slash) PROVE FALSE
    BY <2>1 DEF do_cd, vars, image
  <2>2. ASSUME NEW op, NEW q, NEW slash, Command(op, q, slash) PROVE FALSE
    BY <2>2 DEF Command, Call
  <2>3. ASSUME NEW q, NEW slash, NEW w, do_put(q, slash, w) PROVE FALSE
    BY <2>3 DEF do_put, Call
  <2>4. ~(PutReturn \/ PutWrite \/ PutWriteUndefined \/ RmdirRoot \/ Restart)
    BY DEF PutReturn, Return, PutWrite, Call, PutWriteUndefined, vars, image, RmdirRoot,
           Restart, Mount
  <2>5. ~UNCHANGED cmdVars
    BY DEF cmdVars, vars, image
  <2>. QED  BY <2>1, <2>2, <2>3, <2>4, <2>5 DEF CmdNext
<1>2. UNCHANGED <<cwd, put>> /\ Handler /\ InPlace
  BY <1>1, CmdOverrunEnds DEF Handle
<1>3. ~Rename /\ ~RenameOverrun /\ ~CreateOverrun
  BY DEF Rename, RenameOverrun, CreateOverrun, Overrun, InPlace, Starts, BInv, Placed
<1>4. NInv /\ pc \notin {"idle", "dead"} /\ call.path \in Paths
  BY <1>2, <1>3 DEF BInv, CInv, NInv, TypeOK, Handler, CreateStep, RemoveStep, WriteStep, Refuse,
     MknodStart, MkdirBlock, MkdirNoBlock, MkdirInode, MkdirNoInode, CreateInode, CreateEntry,
     CreateAborts, TruncateFree, TruncateInode, UnlinkMap, UnlinkEntry, RmdirMap, RmdirEntry,
     Chmod, WriteBlock, WriteMark, WriteFound, WriteData, WriteNoBlock, Starts
<1>5. ~Below(p, call.path)
  <2>1. Below(call.path, Base)
    BY <1>4 DEF BInv, Placed
  <2>2. Base \in Seq(Names)
    <3>1. cwd \in Seq(Typable)
      BY DEF BInv, Placed
    <3>2. Base = without(cwd)[Len(cwd)]
      BY DEF Base, fix_path
    <3>3. Len(cwd) \in 0 .. Len(cwd)
      BY <3>1
    <3>. QED  BY <3>1, <3>2, <3>3, WithoutStarts
  <2>. QED  BY <1>4, <2>1, <2>2, BelowBelow
<1>6. CASE \/ MknodStart \/ MkdirBlock \/ MkdirInode \/ CreateInode
           \/ TruncateFree \/ UnlinkMap \/ RmdirMap \/ Chmod
           \/ WriteBlock \/ WriteMark \/ WriteFound \/ WriteData
  <2>1. SameEntries
    BY <1>2, <1>6, MknodStartBelow, MkdirBlockBelow, MkdirInodeBelow, CreateInodeBelow,
       TruncateFreeBelow, UnlinkMapBelow, RmdirMapBelow, ChmodBarren, WriteBlockBelow,
       WriteGoesOnBelow, WriteDataBarren
  <2>. QED  BY <1>4, <2>1, EntriesKept
<1>7. CASE CreateEntry
  BY <1>2, <1>5, <1>7, CreateEntryStays
<1>8. CASE UnlinkEntry \/ RmdirEntry
  BY <1>2, <1>5, <1>8, EntryGoneStays
<1>9. CASE TruncateInode
  BY <1>2, <1>9, TruncateInodeStays
<1>10. CASE Refuse \/ MkdirNoBlock \/ MkdirNoInode \/ CreateAborts \/ WriteNoBlock
  BY <1>10 DEF Refuse, MkdirNoBlock, MkdirNoInode, CreateAborts, WriteNoBlock
<1>. QED
  BY <1>2, <1>3, <1>6, <1>7, <1>8, <1>9, <1>10
     DEF Handler, CreateStep, RemoveStep, WriteStep

\* No command reaches above the working directory or next to it, whatever of ".."
\* has been typed to get there and to name what it is about: while the image is a
\* tree, a step of a handler moves only what is below.
THEOREM CommandsStayBelow == CmdSpec => StaysBelow
<1>. DEFINE Moves == image' # image /\ cwd' = cwd /\ IsTree /\ InPlace' =>
                       \A p \in Paths : ~Below(p, fix_path(cwd, TRUE)) =>
                           translate(p)' = translate(p)
<1>1. (InPlace => BInv) /\ [CmdNext]_cmdVars => (InPlace' => BInv')
  BY CmdStepBelow, CmdOverrunEnds
<1>2. (InPlace => BInv) /\ [CmdNext]_cmdVars => Moves
  BY StepStaysBelow, CmdOverrunEnds
<1>. HIDE DEF Moves
<1>3. CmdSpec => [][Moves]_cmdVars
  BY <1>1, <1>2, CmdInitBelow, PTL DEF CmdSpec
<1>. QED  BY <1>3, PTL DEF StaysBelow, Moves
=============================================================================
