------------------------ MODULE DynaFlagsCodeProofs -------------------------
(***************************************************************************)
(* What the code of one instruction does to one flag, whatever the passes  *)
(* knew of the flags before it: it reads the flag only when the flag is    *)
(* there, and leaves it as the needs of the instruction say.               *)
(***************************************************************************)
EXTENDS DynaFlagsProofs

-----------------------------------------------------------------------------
(***************************************************************************)
(* One flag while an instruction runs: o says whether xFlags holds its     *)
(* value, d what df would do to it.                                        *)
(***************************************************************************)
Dfs == {"no", "ok", "bad"}

\* UpdateFlags gives the value of the flag; and the flag is in xFlags already.
Rec(o, d) == IF d = "no" THEN o ELSE d = "ok"
Held(o, d) == o /\ d # "bad"

OkAfter(x, i, fl, o, d) ==
  CASE x = "update"   -> Rec(o, d)
    [] x = "commit"   -> o /\ fl \notin op(i).set
    [] x = "write"    -> o \/ fl \in insts[i].gen
    [] x = "writeall" -> o \/ fl \in op(i).set
    [] OTHER          -> o

DfAfter(x, i, fl, d) ==
  CASE x \in {"update", "dfnone"} -> "no"
    [] x = "setdf"  -> IF fl \in op(i).set THEN "ok" ELSE "no"
    [] x = "commit" -> IF fl \in op(i).set /\ d = "ok" THEN "bad" ELSE d
    [] OTHER        -> d

\* How instruction i may find the flag, when the passes knew g of the flags.
Ready(i, g, fl, o, d) ==
  /\ g.dfnone => d = "no"
  /\ fl \in insts[i].need_before => IF insts[i].pred = <<>> THEN Rec(o, d) ELSE Held(o, d)
  /\ "PEND" \in insts[i].need_before => Rec(o, d)

\* The flag after the reads of instruction i, when the passes then knew h.
Mid(i, h, fl, o, d) ==
  /\ h.dfnone => d = "no"
  /\ fl \in insts[i].need_before => Held(o, d)
  /\ "PEND" \in insts[i].need_before => Rec(o, d)

\* And after all of instruction i.
End(i, h, fl, o, d) ==
  op(i).kind # "native" =>
    /\ h.dfnone => d = "no"
    /\ fl \in insts[i].need_after => Held(o, d)
    /\ "PEND" \in insts[i].need_after \/ op(i).kind = "ret" => Rec(o, d)

\* What is left of the code of instruction i reads the flag when it is there, and
\* ends as it should: for at most 0, 1, ... operations.
Good0(i, h, s, fl, o, d) == s = <<>> /\ End(i, h, fl, o, d)
Reads(i, x, fl, o) == x # "skip" /\ (x = "read" /\ fl \in op(i).use => o)
Good1(i, h, s, fl, o, d) ==
  \/ s = <<>> /\ End(i, h, fl, o, d)
  \/ /\ s # <<>> /\ Reads(i, Head(s), fl, o)
     /\ Good0(i, h, Tail(s), fl, OkAfter(Head(s), i, fl, o, d), DfAfter(Head(s), i, fl, d))
Good2(i, h, s, fl, o, d) ==
  \/ s = <<>> /\ End(i, h, fl, o, d)
  \/ /\ s # <<>> /\ Reads(i, Head(s), fl, o)
     /\ Good1(i, h, Tail(s), fl, OkAfter(Head(s), i, fl, o, d), DfAfter(Head(s), i, fl, d))
Good3(i, h, s, fl, o, d) ==
  \/ s = <<>> /\ End(i, h, fl, o, d)
  \/ /\ s # <<>> /\ Reads(i, Head(s), fl, o)
     /\ Good2(i, h, Tail(s), fl, OkAfter(Head(s), i, fl, o, d), DfAfter(Head(s), i, fl, d))
Good4(i, h, s, fl, o, d) ==
  \/ s = <<>> /\ End(i, h, fl, o, d)
  \/ /\ s # <<>> /\ Reads(i, Head(s), fl, o)
     /\ Good3(i, h, Tail(s), fl, OkAfter(Head(s), i, fl, o, d), DfAfter(Head(s), i, fl, d))
Good5(i, h, s, fl, o, d) ==
  \/ s = <<>> /\ End(i, h, fl, o, d)
  \/ /\ s # <<>> /\ Reads(i, Head(s), fl, o)
     /\ Good4(i, h, Tail(s), fl, OkAfter(Head(s), i, fl, o, d), DfAfter(Head(s), i, fl, d))
Good6(i, h, s, fl, o, d) ==
  \/ s = <<>> /\ End(i, h, fl, o, d)
  \/ /\ s # <<>> /\ Reads(i, Head(s), fl, o)
     /\ Good5(i, h, Tail(s), fl, OkAfter(Head(s), i, fl, o, d), DfAfter(Head(s), i, fl, d))

LEMMA GoodMore ==
  ASSUME NEW i, NEW h
  PROVE  /\ \A s, fl, o, d : Good0(i, h, s, fl, o, d) => Good1(i, h, s, fl, o, d)
         /\ \A s, fl, o, d : Good1(i, h, s, fl, o, d) => Good2(i, h, s, fl, o, d)
         /\ \A s, fl, o, d : Good2(i, h, s, fl, o, d) => Good3(i, h, s, fl, o, d)
         /\ \A s, fl, o, d : Good3(i, h, s, fl, o, d) => Good4(i, h, s, fl, o, d)
         /\ \A s, fl, o, d : Good4(i, h, s, fl, o, d) => Good5(i, h, s, fl, o, d)
         /\ \A s, fl, o, d : Good5(i, h, s, fl, o, d) => Good6(i, h, s, fl, o, d)
<1>1. \A s, fl, o, d : Good0(i, h, s, fl, o, d) => Good1(i, h, s, fl, o, d)
  BY Zenon DEF Good0, Good1
<1>2. \A s, fl, o, d : Good1(i, h, s, fl, o, d) => Good2(i, h, s, fl, o, d)
  <2> SUFFICES ASSUME NEW s, NEW fl, NEW o, NEW d, Good1(i, h, s, fl, o, d) PROVE Good2(i, h, s, fl, o, d)
    OBVIOUS
  <2>1. PICK t, p, q : t = Tail(s) /\ p = OkAfter(Head(s), i, fl, o, d) /\ q = DfAfter(Head(s), i, fl, d)
    OBVIOUS
  <2>2. Good0(i, h, t, fl, p, q) => Good1(i, h, t, fl, p, q)
    BY <1>1
  <2> QED BY <2>1, <2>2 DEF Good1, Good2
<1>3. \A s, fl, o, d : Good2(i, h, s, fl, o, d) => Good3(i, h, s, fl, o, d)
  <2> SUFFICES ASSUME NEW s, NEW fl, NEW o, NEW d, Good2(i, h, s, fl, o, d) PROVE Good3(i, h, s, fl, o, d)
    OBVIOUS
  <2>1. PICK t, p, q : t = Tail(s) /\ p = OkAfter(Head(s), i, fl, o, d) /\ q = DfAfter(Head(s), i, fl, d)
    OBVIOUS
  <2>2. Good1(i, h, t, fl, p, q) => Good2(i, h, t, fl, p, q)
    BY <1>2
  <2> QED BY <2>1, <2>2 DEF Good2, Good3
<1>4. \A s, fl, o, d : Good3(i, h, s, fl, o, d) => Good4(i, h, s, fl, o, d)
  <2> SUFFICES ASSUME NEW s, NEW fl, NEW o, NEW d, Good3(i, h, s, fl, o, d) PROVE Good4(i, h, s, fl, o, d)
    OBVIOUS
  <2>1. PICK t, p, q : t = Tail(s) /\ p = OkAfter(Head(s), i, fl, o, d) /\ q = DfAfter(Head(s), i, fl, d)
    OBVIOUS
  <2>2. Good2(i, h, t, fl, p, q) => Good3(i, h, t, fl, p, q)
    BY <1>3
  <2> QED BY <2>1, <2>2 DEF Good3, Good4
<1>5. \A s, fl, o, d : Good4(i, h, s, fl, o, d) => Good5(i, h, s, fl, o, d)
  <2> SUFFICES ASSUME NEW s, NEW fl, NEW o, NEW d, Good4(i, h, s, fl, o, d) PROVE Good5(i, h, s, fl, o, d)
    OBVIOUS
  <2>1. PICK t, p, q : t = Tail(s) /\ p = OkAfter(Head(s), i, fl, o, d) /\ q = DfAfter(Head(s), i, fl, d)
    OBVIOUS
  <2>2. Good3(i, h, t, fl, p, q) => Good4(i, h, t, fl, p, q)
    BY <1>4
  <2> QED BY <2>1, <2>2 DEF Good4, Good5
<1>6. \A s, fl, o, d : Good5(i, h, s, fl, o, d) => Good6(i, h, s, fl, o, d)
  <2> SUFFICES ASSUME NEW s, NEW fl, NEW o, NEW d, Good5(i, h, s, fl, o, d) PROVE Good6(i, h, s, fl, o, d)
    OBVIOUS
  <2>1. PICK t, p, q : t = Tail(s) /\ p = OkAfter(Head(s), i, fl, o, d) /\ q = DfAfter(Head(s), i, fl, d)
    OBVIOUS
  <2>2. Good4(i, h, t, fl, p, q) => Good5(i, h, t, fl, p, q)
    BY <1>5
  <2> QED BY <2>1, <2>2 DEF Good5, Good6
<1> QED BY <1>1, <1>2, <1>3, <1>4, <1>5, <1>6, Zenon

\* Code is put together in front.
Then(x, s) == <<x>> \o s

LEMMA ThenIs ==
  ASSUME NEW x \in Micro, NEW s \in Seq(Micro)
  PROVE  Then(x, s) \in Seq(Micro) /\ Then(x, s) # <<>> /\ Head(Then(x, s)) = x /\ Tail(Then(x, s)) = s
<1>1. PICK t : t = Then(x, s)
  OBVIOUS
<1>2. t \in Seq(Micro) /\ Len(t) = Len(s) + 1 /\ Len(s) \in Nat
      /\ \A k \in 1 .. Len(t) : t[k] = IF k <= 1 THEN x ELSE s[k - 1]
  <2>1. <<x>> \in Seq(Micro) /\ Len(<<x>>) = 1
    OBVIOUS
  <2> QED BY <1>1, <2>1, ConcatProperties DEF Then
<1>3. t # <<>> /\ Head(t) = x
  BY <1>2
<1>4. Tail(t) \in Seq(Micro) /\ Len(Tail(t)) = Len(s) /\ \A k \in 1 .. Len(s) : Tail(t)[k] = s[k]
  BY <1>2, <1>3
<1>5. Tail(t) = s
  BY <1>4, SeqEqual
<1> QED BY <1>1, <1>2, <1>3, <1>5

LEMMA GoodThen ==
  ASSUME NEW i, NEW h, NEW x \in Micro, NEW s \in Seq(Micro), NEW fl, NEW o, NEW d, Reads(i, x, fl, o),
         NEW p, NEW q, p = OkAfter(x, i, fl, o, d), q = DfAfter(x, i, fl, d)
  PROVE  /\ Good0(i, h, s, fl, p, q) => Good1(i, h, Then(x, s), fl, o, d)
         /\ Good1(i, h, s, fl, p, q) => Good2(i, h, Then(x, s), fl, o, d)
         /\ Good2(i, h, s, fl, p, q) => Good3(i, h, Then(x, s), fl, o, d)
         /\ Good3(i, h, s, fl, p, q) => Good4(i, h, Then(x, s), fl, o, d)
         /\ Good4(i, h, s, fl, p, q) => Good5(i, h, Then(x, s), fl, o, d)
         /\ Good5(i, h, s, fl, p, q) => Good6(i, h, Then(x, s), fl, o, d)
<1>1. PICK t : t = Then(x, s)
  OBVIOUS
<1>2. t # <<>> /\ Head(t) = x /\ Tail(t) = s
  BY <1>1, ThenIs
<1> QED BY <1>1, <1>2 DEF Good1, Good2, Good3, Good4, Good5, Good6

\* What the operations do, and that they keep the types.
LEMMA EffectIs ==
  ASSUME NEW i, NEW fl, NEW o \in BOOLEAN, NEW d \in Dfs
  PROVE  /\ OkAfter("update", i, fl, o, d) = Rec(o, d) /\ DfAfter("update", i, fl, d) = "no"
         /\ OkAfter("read", i, fl, o, d) = o /\ DfAfter("read", i, fl, d) = d
         /\ OkAfter("dfnone", i, fl, o, d) = o /\ DfAfter("dfnone", i, fl, d) = "no"
         /\ OkAfter("setdf", i, fl, o, d) = o
         /\ DfAfter("setdf", i, fl, d) = (IF fl \in op(i).set THEN "ok" ELSE "no")
         /\ OkAfter("commit", i, fl, o, d) = (o /\ fl \notin op(i).set)
         /\ DfAfter("commit", i, fl, d) = (IF fl \in op(i).set /\ d = "ok" THEN "bad" ELSE d)
         /\ OkAfter("write", i, fl, o, d) = (o \/ fl \in insts[i].gen) /\ DfAfter("write", i, fl, d) = d
         /\ OkAfter("writeall", i, fl, o, d) = (o \/ fl \in op(i).set) /\ DfAfter("writeall", i, fl, d) = d
         /\ Rec(o, d) \in BOOLEAN
BY DEF OkAfter, DfAfter, Rec, Dfs

\* The reads at the start of an instruction: UpdateFlags where the block, or the
\* instruction, asks for it.
AfterRead(i, g) ==
  LET e0    == [f |-> g, ops |-> <<>>]
      entry == IF insts[i].need_before \ {"PEND"} # {} /\ insts[i].pred = <<>>
               THEN READFLAGS(e0, insts[i].need_before \ {"PEND"}) ELSE e0
  IN  IF op(i).use = {} THEN entry ELSE Emit(READFLAGS(entry, op(i).use), <<"read">>)

LEMMA AfterReadIs ==
  ASSUME NEW i, NEW g \in F, insts[i].pred = <<>> => g = Unknown
  PROVE  LET e == AfterRead(i, g)
             entered == insts[i].need_before \ {"PEND"} # {} /\ insts[i].pred = <<>>
         IN  /\ e \in Emission
             /\ \/ e.ops = <<>> /\ e.f = g /\ op(i).use = {} /\ ~ entered
                \/ e.ops = Then("update", <<>>) /\ e.f.dfnone /\ op(i).use = {}
                \/ e.ops = Then("read", <<>>) /\ e.f = g /\ ~ entered
                \/ e.ops = Then("update", Then("read", <<>>)) /\ e.f.dfnone
<1> DEFINE e0    == [f |-> g, ops |-> <<>>]
           entered == insts[i].need_before \ {"PEND"} # {} /\ insts[i].pred = <<>>
           entry == IF entered THEN READFLAGS(e0, insts[i].need_before \ {"PEND"}) ELSE e0
           set   == [pending |-> "SET", dfnone |-> TRUE]
           read  == READFLAGS(entry, op(i).use)
<1>1. <<>> \in Seq(Micro) /\ {"update", "read"} \subseteq Micro
  BY EmptySeq DEF Micro
<1>2. /\ Then("update", <<>>) = <<"update">> /\ Then("read", <<>>) = <<"read">>
      /\ Then("update", Then("read", <<>>)) = <<"update", "read">>
      /\ <<"update">> \o <<"read">> = <<"update", "read">>
      /\ <<>> \o <<"read">> = <<"read">> /\ Append(<<>>, "update") = <<"update">>
  <2>1. <<"update">> \in Seq(Micro) /\ <<"read">> \in Seq(Micro)
    BY <1>1
  <2>2. <<"update">> \o <<>> = <<"update">> /\ <<"read">> \o <<>> = <<"read">> /\ <<>> \o <<"read">> = <<"read">>
    BY <2>1, ConcatEmptySeq
  <2>3. Append(<<>>, "update") = <<"update">> /\ Append(<<"update">>, "read") = <<"update", "read">>
    <3>1. Append(<<>>, "update") = <<"update">>
      OBVIOUS
    <3>2. PICK s, t : s = Append(<<"update">>, "read") /\ t = <<"update", "read">>
      OBVIOUS
    <3>3. s \in Seq(Micro) /\ Len(s) = 2 /\ s[1] = "update" /\ s[2] = "read"
      BY <1>1, <2>1, <3>2
    <3>4. t \in Seq(Micro) /\ Len(t) = 2 /\ t[1] = "update" /\ t[2] = "read"
      BY <1>1, <3>2
    <3>5. \A k \in 1 .. Len(s) : s[k] = t[k]
      BY <3>3, <3>4
    <3> QED BY <3>1, <3>2, <3>3, <3>4, <3>5, SeqEqual
  <2>4. Append(<<"update">>, "read") = <<"update">> \o <<"read">>
    BY <1>1, <2>1, AppendIsConcat
  <2> QED BY <2>2, <2>3, <2>4 DEF Then
<1>3. e0 \in Emission /\ e0.f = g /\ e0.ops = <<>>
  BY <1>1 DEF Emission
<1>4. entry \in Emission /\ \/ ~ entered /\ entry = e0
                            \/ entered /\ entry.f = set /\ entry.ops = <<"update">>
  <2>1. CASE entered
    <3>1. g = Unknown /\ insts[i].need_before \ {"PEND"} # {"PEND"}
      BY <2>1
    <3>2. READFLAGS(e0, insts[i].need_before \ {"PEND"}) = [f |-> set, ops |-> Append(<<>>, "update")]
      BY <3>1 DEF READFLAGS, Unknown
    <3>3. entry = [f |-> set, ops |-> <<"update">>]
      BY <1>2, <2>1, <3>2, Zenon
    <3>4. entry \in Emission
      <4> HIDE DEF e0
      <4> QED BY <1>3, <2>1, ReadFlagsType
    <3> HIDE DEF entry, set
    <3> QED BY <2>1, <3>3, <3>4
  <2>2. CASE ~ entered
    BY <1>3, <2>2
  <2> QED BY <2>1, <2>2
<1> HIDE DEF entry, e0, entered
<1>5. read \in Emission /\ \/ read = entry
                           \/ ~ entered /\ read.f = set /\ read.ops = <<"update">>
  <2>1. read = entry \/ (entry.f.pending \notin {"SET", "SET_PENDING"} /\ read = [f |-> set, ops |-> Append(entry.ops, "update")])
    BY DEF READFLAGS
  <2>2. entry.f.pending \notin {"SET", "SET_PENDING"} => ~ entered /\ entry = e0
    BY <1>4
  <2>3. read \in Emission
    BY <1>4, ReadFlagsType
  <2> HIDE DEF read, set
  <2>4. CASE read = entry
    BY <2>3, <2>4
  <2>5. CASE entry.f.pending \notin {"SET", "SET_PENDING"} /\ read = [f |-> set, ops |-> Append(entry.ops, "update")]
    <3>1. read = [f |-> set, ops |-> <<"update">>]
      BY <1>2, <1>3, <2>2, <2>5
    <3>2. read.f = set /\ read.ops = <<"update">>
      BY <3>1
    <3>3. ~ entered
      BY <2>2, <2>5
    <3> QED BY <2>3, <3>2, <3>3, Zenon
  <2> QED BY <2>1, <2>4, <2>5
<1>6. AfterRead(i, g) = IF op(i).use = {} THEN entry ELSE Emit(read, <<"read">>)
  BY DEF AfterRead, entry, e0, entered
<1> HIDE DEF read
<1>7. Emit(read, <<"read">>) \in Emission /\ Emit(read, <<"read">>).f = read.f
      /\ Emit(read, <<"read">>).ops = read.ops \o <<"read">>
  <2>1. <<"read">> \in Seq(Micro)
    BY <1>1
  <2>2. Emit(read, <<"read">>) = [read EXCEPT !.ops = read.ops \o <<"read">>]
    BY DEF Emit
  <2> QED BY <1>5, <2>1, <2>2, EmitType DEF Emission
<1>8. set.dfnone
  OBVIOUS
<1> HIDE DEF set
<1>9. CASE op(i).use = {}
  BY <1>2, <1>3, <1>4, <1>6, <1>8, <1>9 DEF entered
<1>10. CASE op(i).use # {}
  BY <1>2, <1>3, <1>4, <1>5, <1>6, <1>7, <1>8, <1>10 DEF entered
<1> QED BY <1>9, <1>10

LEMMA ThenConcat ==
  ASSUME NEW x \in Micro, NEW s \in Seq(Micro), NEW t \in Seq(Micro)
  PROVE  Then(x, s) \o t = Then(x, s \o t) /\ <<>> \o t = t /\ t \o <<>> = t
<1>1. <<x>> \in Seq(Micro)
  OBVIOUS
<1>2. (<<x>> \o s) \o t = <<x>> \o (s \o t)
  BY <1>1, ConcatAssociative
<1> QED BY <1>2, ConcatEmptySeq DEF Then

\* The reads find the flags, and leave them so that what follows can run.
LEMMA ReadsGood ==
  ASSUME NEW i, NEW g \in F, insts[i].pred = <<>> => g = Unknown, op(i).use \subseteq insts[i].need_before,
         NEW e, e = AfterRead(i, g), NEW h, NEW t \in Seq(Micro), NEW fl \in Flags,
         \A o \in BOOLEAN, d \in Dfs : Mid(i, e.f, fl, o, d) => Good4(i, h, t, fl, o, d),
         NEW o \in BOOLEAN, NEW d \in Dfs, Ready(i, g, fl, o, d)
  PROVE  Good6(i, h, e.ops \o t, fl, o, d)
<1>1. <<>> \in Seq(Micro) /\ {"update", "read"} \subseteq Micro
  BY EmptySeq DEF Micro
<1>2. Then("read", <<>>) \in Seq(Micro) /\ Then("read", t) \in Seq(Micro)
  BY <1>1, ThenIs
<1>3. /\ <<>> \o t = t
      /\ Then("update", <<>>) \o t = Then("update", t)
      /\ Then("read", <<>>) \o t = Then("read", t)
      /\ Then("update", Then("read", <<>>)) \o t = Then("update", Then("read", t))
  <2>1. /\ <<>> \o t = t
        /\ Then("update", <<>>) \o t = Then("update", t)
        /\ Then("read", <<>>) \o t = Then("read", t)
    <3>1. <<>> \o t = t
      BY ConcatEmptySeq
    <3>2. \A x \in Micro : Then(x, <<>>) \o t = Then(x, <<>> \o t)
      BY <1>1, ThenConcat
    <3> QED BY <1>1, <3>1, <3>2
  <2>2. Then("update", Then("read", <<>>)) \o t = Then("update", Then("read", <<>>) \o t)
    BY <1>1, <1>2, ThenConcat
  <2> QED BY <2>1, <2>2
<1>4. /\ Rec(o, d) \in BOOLEAN /\ "no" \in Dfs
      /\ Rec(o, d) = OkAfter("update", i, fl, o, d) /\ "no" = DfAfter("update", i, fl, d)
  BY EffectIs DEF Dfs
<1>5. ASSUME NEW p \in BOOLEAN, NEW q \in Dfs, Mid(i, e.f, fl, p, q)
      PROVE  /\ Good4(i, h, t, fl, p, q) /\ Good5(i, h, t, fl, p, q) /\ Good6(i, h, t, fl, p, q)
             /\ Reads(i, "read", fl, p)
             /\ Good5(i, h, Then("read", t), fl, p, q)
             /\ Good6(i, h, Then("read", t), fl, p, q)
  <2>1. Good4(i, h, t, fl, p, q)
    BY <1>5
  <2>2. Good5(i, h, t, fl, p, q) /\ Good6(i, h, t, fl, p, q)
    BY <2>1, GoodMore
  <2>3. Reads(i, "read", fl, p)
    BY <1>5 DEF Mid, Held, Reads
  <2>4. p = OkAfter("read", i, fl, p, q) /\ q = DfAfter("read", i, fl, q)
    BY DEF OkAfter, DfAfter
  <2>5. Good5(i, h, Then("read", t), fl, p, q) /\ Good6(i, h, Then("read", t), fl, p, q)
    BY <1>1, <2>1, <2>2, <2>3, <2>4, GoodThen
  <2> QED BY <2>1, <2>2, <2>3, <2>5
<1>6. e.f.dfnone => Mid(i, e.f, fl, Rec(o, d), "no")
  BY DEF Ready, Mid, Held, Rec, Dfs
<1>7. ~ (insts[i].need_before \ {"PEND"} # {} /\ insts[i].pred = <<>>) /\ e.f = g => Mid(i, e.f, fl, o, d)
  BY FlagsAssumption DEF Ready, Mid
<1>8. Reads(i, "update", fl, o)
  BY DEF Reads
<1>9. CASE e.ops = <<>> /\ e.f = g /\ ~ (insts[i].need_before \ {"PEND"} # {} /\ insts[i].pred = <<>>)
  BY <1>3, <1>5, <1>7, <1>9
<1>10. CASE e.ops = Then("update", <<>>) /\ e.f.dfnone
  <2>1. Good5(i, h, t, fl, Rec(o, d), "no")
    BY <1>4, <1>5, <1>6, <1>10
  <2>2. PICK x, p, q : x = "update" /\ p = Rec(o, d) /\ q = "no"
    OBVIOUS
  <2>3. x \in Micro /\ Reads(i, x, fl, o) /\ p = OkAfter(x, i, fl, o, d) /\ q = DfAfter(x, i, fl, d)
    BY <1>1, <1>4, <1>8, <2>2
  <2>4. Good5(i, h, t, fl, p, q)
    BY <2>1, <2>2
  <2>5. Good6(i, h, Then(x, t), fl, o, d)
    BY <2>3, <2>4, GoodThen
  <2> QED BY <1>3, <1>10, <2>2, <2>5
<1>11. CASE e.ops = Then("read", <<>>) /\ e.f = g /\ ~ (insts[i].need_before \ {"PEND"} # {} /\ insts[i].pred = <<>>)
  BY <1>3, <1>5, <1>7, <1>11
<1>12. CASE e.ops = Then("update", Then("read", <<>>)) /\ e.f.dfnone
  <2>1. Good5(i, h, Then("read", t), fl, Rec(o, d), "no")
    BY <1>4, <1>5, <1>6, <1>12
  <2>2. PICK s : s = Then("read", t)
    OBVIOUS
  <2>3. s \in Seq(Micro) /\ Good5(i, h, s, fl, Rec(o, d), "no")
    BY <1>2, <2>1, <2>2
  <2>4. Good6(i, h, Then("update", s), fl, o, d)
    BY <1>1, <1>4, <1>8, <2>3, GoodThen
  <2> QED BY <1>3, <1>12, <2>2, <2>4
<1> QED BY <1>9, <1>10, <1>11, <1>12, AfterReadIs

\* What the equations of the needs say of an instruction that always sets its flags.
LEMMA SolvedIs ==
  ASSUME NEW i, Solved(i), ~ op(i).may
  PROVE  LET a == insts[i].need_after
             g == insts[i].gen
         IN  /\ op(i).state \in NoPend => "PEND" \notin a
             /\ op(i).state = "SUBSET_PENDING" /\ "PEND" \in a => Flags \ op(i).set \subseteq a
             /\ g = (a \cap op(i).set) \cup (IF "PEND" \in a /\ HasPend(op(i).state) THEN {"PEND"} ELSE {})
             /\ insts[i].need_before = (IF "PF" \in op(i).set THEN (a \ g) \ {"PEND"} ELSE a \ g) \cup op(i).use
<1>1. PICK a, p, n : a = insts[i].need_after /\ p = op(i) /\ n = NeedOf(p, a)
  OBVIOUS
<1>2. n.after = a /\ n.gen = insts[i].gen /\ n.before = insts[i].need_before /\ ~ p.may
  BY <1>1 DEF Solved
<1>3. /\ p.state \in NoPend => "PEND" \notin a
      /\ p.state = "SUBSET_PENDING" /\ "PEND" \in a => Flags \ p.set \subseteq a
  BY <1>1, <1>2, FlagsAssumption DEF NeedOf, NoPend
<1>4. n.gen = (a \cap p.set) \cup (IF "PEND" \in a /\ HasPend(p.state) THEN {"PEND"} ELSE {})
  BY <1>1, <1>2 DEF NeedOf
<1>5. n.before = (IF "PF" \in p.set THEN (a \ n.gen) \ {"PEND"} ELSE a \ n.gen) \cup p.use
  BY <1>1, <1>2 DEF NeedOf
<1> QED BY <1>1, <1>2, <1>3, <1>4, <1>5

\* What EmitInst puts after the reads.
LEMMA EmitInstIs ==
  ASSUME NEW i, NEW g, ~ op(i).skips
  PROVE  LET e == AfterRead(i, g)
         IN  EmitInst(i, g) = EmitWrites(IF op(i).state = "UNKNOWN" THEN e
                                         ELSE Emit(SETFLAGS(e, insts[i], op(i)), <<"commit">>), insts[i], op(i))
BY DEF EmitInst, AfterRead

LEMMA ConcatOne ==
  ASSUME NEW s \in Seq(Micro), NEW t \in Seq(Micro), NEW a \in Micro
  PROVE  /\ Append(s, a) = s \o Then(a, <<>>) /\ <<a>> = Then(a, <<>>)
         /\ (s \o Then(a, <<>>)) \o t = s \o Then(a, t)
         /\ s \o t \in Seq(Micro)
<1>1. <<a>> \in Seq(Micro) /\ <<>> \in Seq(Micro)
  BY EmptySeq
<1>2. Then(a, <<>>) = <<a>>
  BY <1>1, ConcatEmptySeq DEF Then
<1>3. Append(s, a) = s \o <<a>>
  BY AppendIsConcat
<1>4. (s \o <<a>>) \o t = s \o (<<a>> \o t)
  BY <1>1, ConcatAssociative
<1>5. s \o t \in Seq(Micro)
  BY ConcatSeq
<1> QED BY <1>2, <1>3, <1>4, <1>5 DEF Then

\* Code of one to four operations.
Code1(a) == Then(a, <<>>)
Code2(a, b) == Then(a, Code1(b))
Code3(a, b, c) == Then(a, Code2(b, c))
Code4(a, b, c, d) == Then(a, Code3(b, c, d))

LEMMA CodesIs ==
  ASSUME NEW s \in Seq(Micro), NEW a \in Micro, NEW b \in Micro, NEW c \in Micro, NEW d \in Micro
  PROVE  /\ Code1(a) \in Seq(Micro) /\ Code2(a, b) \in Seq(Micro) /\ Code3(a, b, c) \in Seq(Micro)
         /\ Code4(a, b, c, d) \in Seq(Micro)
         /\ s \o <<a>> = s \o Code1(a)
         /\ (s \o <<a>>) \o <<b>> = s \o Code2(a, b)
         /\ Append(s \o <<a>>, b) \o <<c>> = s \o Code3(a, b, c)
<1>1. <<>> \in Seq(Micro)
  BY EmptySeq
<1>2. /\ Code1(a) \in Seq(Micro) /\ Code1(b) \in Seq(Micro) /\ Code1(c) \in Seq(Micro) /\ Code1(d) \in Seq(Micro)
      /\ Code1(a) = <<a>> /\ Code1(b) = <<b>> /\ Code1(c) = <<c>> /\ Code1(d) = <<d>>
  BY <1>1, ThenIs, ConcatOne DEF Code1
<1>3. Code2(a, b) \in Seq(Micro) /\ Code2(b, c) \in Seq(Micro) /\ Code2(c, d) \in Seq(Micro)
  BY <1>2, ThenIs DEF Code2
<1>4. Code3(a, b, c) \in Seq(Micro) /\ Code3(b, c, d) \in Seq(Micro)
  BY <1>3, ThenIs DEF Code3
<1>5. Code4(a, b, c, d) \in Seq(Micro)
  BY <1>4, ThenIs DEF Code4
<1>6. ASSUME NEW q \in Seq(Micro), NEW x \in Micro, NEW y \in Micro
      PROVE  (q \o Code1(x)) \o Code1(y) = q \o Code2(x, y)
  <2>1. PICK t : t = Code1(y)
    OBVIOUS
  <2>2. t \in Seq(Micro)
    BY <1>1, <2>1, ThenIs DEF Code1
  <2>3. (q \o Then(x, <<>>)) \o t = q \o Then(x, t)
    BY <2>2, ConcatOne
  <2> QED BY <2>1, <2>3 DEF Code1, Code2
<1>7. ASSUME NEW q \in Seq(Micro), NEW x \in Micro, NEW y \in Micro, NEW z \in Micro
      PROVE  Append(q \o Code1(x), y) \o Code1(z) = q \o Code3(x, y, z)
  <2>1. Code1(x) \in Seq(Micro) /\ Code1(z) \in Seq(Micro) /\ Code2(y, z) \in Seq(Micro)
    BY <1>1, ThenIs DEF Code1, Code2
  <2>2. PICK v : v = q \o Code1(x)
    OBVIOUS
  <2>3. v \in Seq(Micro)
    BY <2>1, <2>2, ConcatOne
  <2>4. Append(v, y) = v \o Code1(y)
    BY <1>1, <2>3, ConcatOne DEF Code1
  <2>5. (v \o Code1(y)) \o Code1(z) = v \o Code2(y, z)
    BY <1>6, <2>3
  <2>6. v \o Code2(y, z) = q \o Code3(x, y, z)
    BY <2>1, <2>2, ConcatOne DEF Code1, Code3
  <2> QED BY <2>2, <2>4, <2>5, <2>6
<1>8. (s \o <<a>>) \o <<b>> = s \o Code2(a, b)
  <2>1. (s \o Code1(a)) \o Code1(b) = s \o Code2(a, b)
    BY <1>6
  <2> QED BY <1>2, <2>1
<1>9. Append(s \o <<a>>, b) \o <<c>> = s \o Code3(a, b, c)
  <2>1. Append(s \o Code1(a), b) \o Code1(c) = s \o Code3(a, b, c)
    BY <1>7
  <2> QED BY <1>2, <2>1
<1> QED BY <1>2, <1>3, <1>4, <1>5, <1>8, <1>9

LEMMA Code1Is ==
  ASSUME NEW s \in Seq(Micro), NEW a \in Micro
  PROVE  Code1(a) \in Seq(Micro) /\ s \o <<a>> = s \o Code1(a)
BY CodesIs

LEMMA Code2Is ==
  ASSUME NEW s \in Seq(Micro), NEW a \in Micro, NEW b \in Micro
  PROVE  Code2(a, b) \in Seq(Micro) /\ (s \o <<a>>) \o <<b>> = s \o Code2(a, b)
BY CodesIs

LEMMA Code3Is ==
  ASSUME NEW s \in Seq(Micro), NEW a \in Micro, NEW b \in Micro, NEW c \in Micro
  PROVE  Code3(a, b, c) \in Seq(Micro) /\ Append(s \o <<a>>, b) \o <<c>> = s \o Code3(a, b, c)
BY CodesIs

\* They run to the end of the instruction.
LEMMA Code1Good ==
  ASSUME NEW i, NEW h, NEW fl, NEW o, NEW d, NEW x \in Micro \ {"read", "skip"},
         NEW o1, NEW d1, o1 = OkAfter(x, i, fl, o, d), d1 = DfAfter(x, i, fl, d)
  PROVE  /\ End(i, h, fl, o1, d1) => Good1(i, h, Code1(x), fl, o, d)
         /\ End(i, h, fl, o1, d1) => Good2(i, h, Code1(x), fl, o, d)
         /\ End(i, h, fl, o1, d1) => Good3(i, h, Code1(x), fl, o, d)
         /\ End(i, h, fl, o1, d1) => Good4(i, h, Code1(x), fl, o, d)
<1>1. Reads(i, x, fl, o) /\ <<>> \in Seq(Micro)
  BY EmptySeq DEF Reads
<1>2. End(i, h, fl, o1, d1) => /\ Good0(i, h, <<>>, fl, o1, d1) /\ Good1(i, h, <<>>, fl, o1, d1)
                              /\ Good2(i, h, <<>>, fl, o1, d1) /\ Good3(i, h, <<>>, fl, o1, d1)
  BY DEF Good0, Good1, Good2, Good3
<1> QED BY <1>1, <1>2, GoodThen DEF Code1

LEMMA Code2Good ==
  ASSUME NEW i, NEW h, NEW fl, NEW o, NEW d, NEW x \in Micro \ {"read", "skip"}, NEW y \in Micro \ {"read", "skip"},
         NEW o1, NEW d1, o1 = OkAfter(x, i, fl, o, d), d1 = DfAfter(x, i, fl, d),
         NEW o2, NEW d2, o2 = OkAfter(y, i, fl, o1, d1), d2 = DfAfter(y, i, fl, d1)
  PROVE  /\ End(i, h, fl, o2, d2) => Good2(i, h, Code2(x, y), fl, o, d)
         /\ End(i, h, fl, o2, d2) => Good3(i, h, Code2(x, y), fl, o, d)
         /\ End(i, h, fl, o2, d2) => Good4(i, h, Code2(x, y), fl, o, d)
<1>1. Reads(i, x, fl, o) /\ Code1(y) \in Seq(Micro)
  BY EmptySeq, Code1Is DEF Reads
<1>2. End(i, h, fl, o2, d2) => /\ Good1(i, h, Code1(y), fl, o1, d1) /\ Good2(i, h, Code1(y), fl, o1, d1)
                              /\ Good3(i, h, Code1(y), fl, o1, d1)
  BY Code1Good
<1> QED BY <1>1, <1>2, GoodThen DEF Code2

LEMMA Code3Good ==
  ASSUME NEW i, NEW h, NEW fl, NEW o, NEW d, NEW x \in Micro \ {"read", "skip"}, NEW y \in Micro \ {"read", "skip"},
         NEW z \in Micro \ {"read", "skip"},
         NEW o1, NEW d1, o1 = OkAfter(x, i, fl, o, d), d1 = DfAfter(x, i, fl, d),
         NEW o2, NEW d2, o2 = OkAfter(y, i, fl, o1, d1), d2 = DfAfter(y, i, fl, d1),
         NEW o3, NEW d3, o3 = OkAfter(z, i, fl, o2, d2), d3 = DfAfter(z, i, fl, d2)
  PROVE  /\ End(i, h, fl, o3, d3) => Good3(i, h, Code3(x, y, z), fl, o, d)
         /\ End(i, h, fl, o3, d3) => Good4(i, h, Code3(x, y, z), fl, o, d)
<1>1. Reads(i, x, fl, o) /\ Code2(y, z) \in Seq(Micro)
  BY EmptySeq, Code2Is DEF Reads
<1>2. End(i, h, fl, o3, d3) => Good2(i, h, Code2(y, z), fl, o1, d1) /\ Good3(i, h, Code2(y, z), fl, o1, d1)
  BY Code2Good
<1> QED BY <1>1, <1>2, GoodThen DEF Code3

LEMMA Code4Good ==
  ASSUME NEW i, NEW h, NEW fl, NEW o, NEW d, NEW x \in Micro \ {"read", "skip"}, NEW y \in Micro \ {"read", "skip"},
         NEW z \in Micro \ {"read", "skip"}, NEW w \in Micro \ {"read", "skip"},
         NEW o1, NEW d1, o1 = OkAfter(x, i, fl, o, d), d1 = DfAfter(x, i, fl, d),
         NEW o2, NEW d2, o2 = OkAfter(y, i, fl, o1, d1), d2 = DfAfter(y, i, fl, d1),
         NEW o3, NEW d3, o3 = OkAfter(z, i, fl, o2, d2), d3 = DfAfter(z, i, fl, d2),
         NEW o4, NEW d4, o4 = OkAfter(w, i, fl, o3, d3), d4 = DfAfter(w, i, fl, d3)
  PROVE  End(i, h, fl, o4, d4) => Good4(i, h, Code4(x, y, z, w), fl, o, d)
<1>1. Reads(i, x, fl, o) /\ Code3(y, z, w) \in Seq(Micro)
  BY EmptySeq, Code3Is DEF Reads
<1>2. End(i, h, fl, o4, d4) => Good3(i, h, Code3(y, z, w), fl, o1, d1)
  BY Code3Good
<1> QED BY <1>1, <1>2, GoodThen DEF Code4

\* SETFLAGS: it may ask for UpdateFlags before an operation that sets some flags.
LEMMA SetFlagsIs ==
  ASSUME NEW e \in Emission, NEW inst, NEW p
  PROVE  LET s == SETFLAGS(e, inst, p)
         IN  /\ s \in Emission
             /\ \/ /\ s.ops = e.ops
                   /\ inst.gen = {} \/ p.state \notin {"SET_DF", "SET_NODF"} => (s.f.dfnone <=> e.f.dfnone)
                   /\ inst.gen # {} /\ p.state = "SET_NODF" => ~ s.f.dfnone
                \/ /\ s.ops = Append(e.ops, "update") /\ s.f.dfnone
                   /\ p.state \in {"SUBSET", "SUBSET_PENDING"} /\ inst.gen \ p.set # {}
             /\ p.state \in {"SET_PENDING", "SUBSET_PENDING"} /\ "PEND" \in inst.gen => s.f.pending # "PENDING"
<1> DEFINE r == IF /\ e.f.pending # "SET"
                   /\ p.state \in {"SUBSET", "SUBSET_PENDING"}
                   /\ inst.gen \ p.set # {}
                THEN READFLAGS(e, (IF "PEND" \in inst.gen THEN Flags ELSE inst.gen) \ p.set)
                ELSE e
           q == CASE inst.gen = {} -> "SET"
                  [] inst.gen # {} /\ p.state = "PENDING" -> "PENDING"
                  [] inst.gen # {} /\ p.state \in {"SET_PENDING", "SUBSET_PENDING"} ->
                         IF "PEND" \in inst.gen THEN "SET_PENDING" ELSE "SET"
                  [] OTHER -> "SET"
           d == CASE inst.gen # {} /\ p.state = "SET_DF" -> TRUE
                  [] inst.gen # {} /\ p.state = "SET_NODF" -> FALSE
                  [] OTHER -> r.f.dfnone
<1>1. SETFLAGS(e, inst, p) \in Emission
  BY SetFlagsType
<1>2. SETFLAGS(e, inst, p) = [r EXCEPT !.f = [pending |-> q, dfnone |-> d]]
  BY DEF SETFLAGS
<1>3. /\ r \in Emission
      /\ \/ r = e
         \/ /\ r.f.dfnone /\ r.ops = Append(e.ops, "update")
            /\ p.state \in {"SUBSET", "SUBSET_PENDING"} /\ inst.gen \ p.set # {}
  <2>1. r \in Emission
    BY ReadFlagsType
  <2>2. \A a : READFLAGS(e, a) = e \/ (READFLAGS(e, a).f.dfnone /\ READFLAGS(e, a).ops = Append(e.ops, "update"))
    BY DEF READFLAGS
  <2> QED BY <2>1, <2>2
<1>4. p.state \in {"SET_PENDING", "SUBSET_PENDING"} /\ "PEND" \in inst.gen => q = "SET_PENDING"
  OBVIOUS
<1> HIDE DEF r, q
<1>5. PICK s : s = SETFLAGS(e, inst, p)
  OBVIOUS
<1>6. s.ops = r.ops /\ s.f.pending = q /\ s.f.dfnone = d
  <2>1. PICK b : b = d
    OBVIOUS
  <2>2. s = [r EXCEPT !.f = [pending |-> q, dfnone |-> b]]
    BY <1>2, <1>5, <2>1
  <2>3. s.f = [pending |-> q, dfnone |-> b] /\ s.ops = r.ops
    BY <1>3, <2>2 DEF Emission
  <2> QED BY <2>1, <2>3
<1>7. CASE r = e
  BY <1>1, <1>4, <1>5, <1>6, <1>7
<1>8. CASE r # e
  BY <1>1, <1>3, <1>4, <1>5, <1>6, <1>8
<1> QED BY <1>7, <1>8

LEMMA EmitIs ==
  ASSUME NEW e \in Emission, NEW ops \in Seq(Micro)
  PROVE  Emit(e, ops) \in Emission /\ Emit(e, ops).f = e.f /\ Emit(e, ops).ops = e.ops \o ops
<1>1. Emit(e, ops) = [e EXCEPT !.ops = e.ops \o ops]
  BY DEF Emit
<1> QED BY <1>1, EmitType DEF Emission

LEMMA SetDfIs ==
  ASSUME NEW e \in Emission, NEW inst
  PROVE  /\ e.f.pending # "PENDING" => SET_DF(e, inst).ops = Append(e.ops, "setdf") /\ ~ SET_DF(e, inst).f.dfnone
         /\ SET_DFNONE(e).f.dfnone
         /\ \/ SET_DFNONE(e).ops = e.ops /\ e.f.dfnone
            \/ SET_DFNONE(e).ops = Append(e.ops, "dfnone")
         /\ SET_DF(e, inst) \in Emission /\ SET_DFNONE(e) \in Emission
<1>1. e.f \in F
  BY DEF Emission
<1>2. [e.f EXCEPT !.dfnone = FALSE].dfnone = FALSE /\ [e.f EXCEPT !.dfnone = TRUE].dfnone = TRUE
  BY <1>1 DEF F
<1>3. SET_DF(e, inst) \in Emission /\ SET_DFNONE(e) \in Emission
  BY DfType, DfNoneType
<1>4. e.f.pending # "PENDING" => SET_DF(e, inst).ops = Append(e.ops, "setdf") /\ ~ SET_DF(e, inst).f.dfnone
  BY <1>2 DEF SET_DF
<1>5. CASE e.f.dfnone
  BY <1>3, <1>4, <1>5 DEF SET_DFNONE
<1>6. CASE ~ e.f.dfnone
  BY <1>2, <1>3, <1>4, <1>6 DEF SET_DFNONE
<1> QED BY <1>5, <1>6

\* The instruction takes effect; and its last write.
Committed(s) == s \o <<"commit">>
LastWrite(z, x) == Emit(z, <<x>>)

LEMMA EmitCommit ==
  ASSUME NEW s \in Emission
  PROVE  LET c == Emit(s, <<"commit">>)
         IN  c \in Emission /\ c.f = s.f /\ c.ops = Committed(s.ops)
<1>1. <<"commit">> \in Seq(Micro)
  BY DEF Micro
<1> QED BY <1>1, EmitIs DEF Committed

LEMMA LastIs ==
  ASSUME NEW z \in Emission, NEW x \in Micro
  PROVE  LastWrite(z, x).f = z.f /\ LastWrite(z, x).ops = z.ops \o <<x>>
<1>1. <<x>> \in Seq(Micro)
  OBVIOUS
<1> QED BY <1>1, EmitIs DEF LastWrite

LEMMA Last2 ==
  ASSUME NEW s \in Seq(Micro), NEW z \in Emission, NEW x \in Micro, z.ops = Committed(s)
  PROVE  LastWrite(z, x).ops = s \o Code2("commit", x) /\ Code2("commit", x) \in Seq(Micro)
<1>1. PICK c \in Micro : c = "commit"
  BY DEF Micro
<1>2. (s \o <<c>>) \o <<x>> = s \o Code2(c, x) /\ Code2(c, x) \in Seq(Micro)
  BY <1>1, Code2Is
<1> QED BY <1>1, <1>2, LastIs DEF Committed

LEMMA Last3 ==
  ASSUME NEW s \in Seq(Micro), NEW z \in Emission, NEW x \in Micro, NEW y \in Micro, z.ops = Append(Committed(s), y)
  PROVE  LastWrite(z, x).ops = s \o Code3("commit", y, x) /\ Code3("commit", y, x) \in Seq(Micro)
<1>1. PICK c \in Micro : c = "commit"
  BY DEF Micro
<1>2. Append(s \o <<c>>, y) \o <<x>> = s \o Code3(c, y, x) /\ Code3(c, y, x) \in Seq(Micro)
  BY <1>1, Code3Is
<1> QED BY <1>1, <1>2, LastIs DEF Committed

LEMMA Last4 ==
  ASSUME NEW s \in Seq(Micro), NEW z \in Emission, NEW x \in Micro, NEW y \in Micro,
         z.ops = Append(Committed(Append(s, "update")), y)
  PROVE  LastWrite(z, x).ops = s \o Code4("update", "commit", y, x) /\ Code4("update", "commit", y, x) \in Seq(Micro)
<1>1. PICK v, t, u : v = Append(s, u) /\ t = Code3("commit", y, x) /\ u = "update"
  OBVIOUS
<1>2. u \in Micro
  BY <1>1 DEF Micro
<1>3. v \in Seq(Micro) /\ v = s \o Then(u, <<>>)
  BY <1>1, <1>2, ConcatOne
<1>4. LastWrite(z, x).ops = v \o t /\ t \in Seq(Micro)
  <2>1. z.ops = Append(Committed(v), y)
    BY <1>1
  <2>2. LastWrite(z, x).ops = v \o Code3("commit", y, x) /\ Code3("commit", y, x) \in Seq(Micro)
    BY <1>3, <2>1, Last3
  <2> QED BY <1>1, <2>2
<1>5. (s \o Then(u, <<>>)) \o t = s \o Then(u, t)
  BY <1>2, <1>4, ConcatOne
<1>6. Code4(u, "commit", y, x) = Then(u, t) /\ Then(u, t) \in Seq(Micro)
  BY <1>1, <1>2, <1>4, ThenIs DEF Code4
<1> QED BY <1>1, <1>3, <1>4, <1>5, <1>6, Zenon

\* As they are used.
LEMMA LastCodes ==
  ASSUME NEW s, s \in Seq(Micro), NEW z, z \in Emission, NEW n, n = LastWrite(z, "write")
  PROVE  /\ z.ops = Append(Committed(s), "setdf")
              => n.ops = s \o Code3("commit", "setdf", "write") /\ Code3("commit", "setdf", "write") \in Seq(Micro)
         /\ z.ops = Append(Committed(s), "dfnone")
              => n.ops = s \o Code3("commit", "dfnone", "write") /\ Code3("commit", "dfnone", "write") \in Seq(Micro)
         /\ z.ops = Append(Committed(Append(s, "update")), "setdf")
              => /\ n.ops = s \o Code4("update", "commit", "setdf", "write")
                 /\ Code4("update", "commit", "setdf", "write") \in Seq(Micro)
<1>1. "write" \in Micro /\ "setdf" \in Micro /\ "dfnone" \in Micro
  BY DEF Micro
<1>2. z.ops = Append(Committed(s), "setdf")
        => n.ops = s \o Code3("commit", "setdf", "write") /\ Code3("commit", "setdf", "write") \in Seq(Micro)
  BY <1>1, Last3
<1>3. z.ops = Append(Committed(s), "dfnone")
        => n.ops = s \o Code3("commit", "dfnone", "write") /\ Code3("commit", "dfnone", "write") \in Seq(Micro)
  BY <1>1, Last3
<1>4. z.ops = Append(Committed(Append(s, "update")), "setdf")
        => /\ n.ops = s \o Code4("update", "commit", "setdf", "write")
           /\ Code4("update", "commit", "setdf", "write") \in Seq(Micro)
  BY <1>1, Last4
<1> QED BY <1>2, <1>3, <1>4, Zenon

\* What is emitted after the reads runs to the end of the instruction.
Finishes(i, e, n) ==
  \E t \in Seq(Micro) :
    /\ n.ops = e.ops \o t
    /\ \A fl \in Flags, o \in BOOLEAN, d \in Dfs : Mid(i, e.f, fl, o, d) => Good4(i, n.f, t, fl, o, d)

LEMMA UnknownFinishes ==
  ASSUME NEW i, NEW g \in F, NEW e \in Emission, e = AfterRead(i, g), Solved(i), ~ op(i).may, ~ op(i).skips,
         op(i).state = "UNKNOWN", op(i).set = {}, op(i).emit = "-", op(i).kind = "ret" => "PEND" \in op(i).use
  PROVE  Finishes(i, e, EmitInst(i, g))
<1>1. EmitInst(i, g) = e
  BY EmitInstIs DEF EmitWrites
<1>2. insts[i].need_before = insts[i].need_after \cup op(i).use
  BY SolvedIs DEF HasPend
<1>3. e.ops \in Seq(Micro) /\ <<>> \in Seq(Micro)
  BY EmptySeq DEF Emission
<1>4. e.ops = e.ops \o <<>>
  BY <1>3, ConcatEmptySeq
<1>5. ASSUME NEW fl \in Flags, NEW o \in BOOLEAN, NEW d \in Dfs, Mid(i, e.f, fl, o, d)
      PROVE  Good4(i, e.f, <<>>, fl, o, d)
  <2>1. End(i, e.f, fl, o, d)
    BY <1>2, <1>5 DEF Mid, End
  <2> QED BY <2>1 DEF Good4
<1> QED BY <1>1, <1>3, <1>4, <1>5 DEF Finishes

LEMMA NativeFinishes ==
  ASSUME NEW i, NEW g \in F, NEW e \in Emission, e = AfterRead(i, g), ~ op(i).may, ~ op(i).skips,
         op(i).kind = "native", op(i).state = "SET_NODF", op(i).emit = "-"
  PROVE  Finishes(i, e, EmitInst(i, g))
<1>1. PICK s : s = SETFLAGS(e, insts[i], op(i))
  OBVIOUS
<1>2. s \in Emission /\ s.ops = e.ops
  BY <1>1, SetFlagsIs
<1>3. e.ops \in Seq(Micro) /\ <<"commit">> \in Seq(Micro) /\ "commit" \in Micro \ {"read", "skip"}
  BY DEF Emission, Micro
<1>4. EmitInst(i, g) = Emit(s, <<"commit">>)
  BY <1>1, EmitInstIs DEF EmitWrites
<1>5. EmitInst(i, g).ops = e.ops \o Code1("commit") /\ Code1("commit") \in Seq(Micro)
  <2>1. EmitInst(i, g).ops = Committed(e.ops)
    <3>1. Emit(s, <<"commit">>).ops = Committed(s.ops)
      BY <1>2, EmitCommit
    <3> QED BY <1>2, <1>4, <3>1
  <2>2. PICK c, q : c = "commit" /\ q = e.ops
    OBVIOUS
  <2>3. c \in Micro /\ q \in Seq(Micro)
    BY <1>3, <2>2
  <2>4. q \o <<c>> = q \o Code1(c) /\ Code1(c) \in Seq(Micro)
    BY <2>3, Code1Is
  <2> QED BY <2>1, <2>2, <2>4 DEF Committed
<1>6. ASSUME NEW fl \in Flags, NEW o \in BOOLEAN, NEW d \in Dfs
      PROVE  Good4(i, EmitInst(i, g).f, Code1("commit"), fl, o, d)
  <2>1. \A p, q : End(i, EmitInst(i, g).f, fl, p, q)
    BY DEF End
  <2> QED BY <1>3, <2>1, Code1Good
<1> QED BY <1>5, <1>6 DEF Finishes

\* ADD, ADC: all the flags.
LEMMA AddFinishes ==
  ASSUME NEW i, NEW g \in F, NEW e \in Emission, e = AfterRead(i, g), Solved(i), ~ op(i).may, ~ op(i).skips,
         insts[i].need_after \in Needs,
         op(i).kind = "next", op(i).state = "SET_PENDING", op(i).set = Flags, op(i).emit = "lazy"
  PROVE  Finishes(i, e, EmitInst(i, g))
<1>1. PICK s : s = SETFLAGS(e, insts[i], op(i))
  OBVIOUS
<1>2. s \in Emission /\ s.ops = e.ops /\ (s.f.dfnone <=> e.f.dfnone) /\ ("PEND" \in insts[i].gen => s.f.pending # "PENDING")
  BY <1>1, SetFlagsIs
<1>3. /\ e.ops \in Seq(Micro) 
      /\ "commit" \in Micro \ {"read", "skip"} /\ "dfnone" \in Micro \ {"read", "skip"} /\ "setdf" \in Micro \ {"read", "skip"}
      /\ "write" \in Micro \ {"read", "skip"}
  BY DEF Emission, Micro
<1>4. PICK c : c = Emit(s, <<"commit">>)
  OBVIOUS
<1>5. c \in Emission /\ c.f = s.f /\ c.ops = Committed(e.ops)
  BY <1>2, <1>4, EmitCommit
<1>6. insts[i].gen = insts[i].need_after
  <2>1. PICK a, m : a = insts[i].need_after /\ m = insts[i].gen
    OBVIOUS
  <2>2. m = (a \cap Flags) \cup (IF "PEND" \in a THEN {"PEND"} ELSE {})
    BY <2>1, SolvedIs DEF HasPend
  <2>3. a \subseteq Flags \cup {"PEND"}
    BY <2>1 DEF Needs
  <2> QED BY <2>1, <2>2, <2>3
<1>7. PICK n : n = EmitInst(i, g)
  OBVIOUS
<1>8. n = LastWrite(IF "PEND" \in insts[i].gen THEN SET_DF(c, insts[i])
                    ELSE IF insts[i].gen # {} THEN SET_DFNONE(c) ELSE c, "write")
  BY <1>1, <1>4, <1>7, EmitInstIs DEF EmitWrites, LastWrite
<1>9. CASE insts[i].gen = {}
  <2>1. n.f = c.f /\ n.ops = e.ops \o Code2("commit", "write") /\ Code2("commit", "write") \in Seq(Micro)
    <3>1. n = LastWrite(c, "write") /\ "write" \in Micro
      BY <1>3, <1>8, <1>9
    <3> QED BY <1>3, <1>5, <3>1, LastIs, Last2
  <2>2. ASSUME NEW fl \in Flags, NEW o \in BOOLEAN, NEW d \in Dfs, Mid(i, e.f, fl, o, d)
        PROVE  Good4(i, n.f, Code2("commit", "write"), fl, o, d)
    <3>1. PICK o1, d1, o2, d2 : /\ o1 = OkAfter("commit", i, fl, o, d) /\ d1 = DfAfter("commit", i, fl, d)
                                /\ o2 = OkAfter("write", i, fl, o1, d1) /\ d2 = DfAfter("write", i, fl, d1)
      OBVIOUS
    <3>2. d2 = d1 /\ (d = "no" => d1 = "no")
      BY <3>1 DEF DfAfter
    <3>3. End(i, n.f, fl, o2, d2)
      BY <1>2, <1>5, <1>6, <1>9, <2>1, <2>2, <3>2 DEF End, Mid
    <3> QED BY <1>3, <3>1, <3>3, Code2Good
  <2> QED BY <1>7, <2>1, <2>2 DEF Finishes
<1>10. CASE "PEND" \in insts[i].gen
  <2>1. PICK z : z = SET_DF(c, insts[i])
    OBVIOUS
  <2>2. z \in Emission /\ z.ops = Append(Committed(e.ops), "setdf") /\ ~ z.f.dfnone
    BY <1>2, <1>5, <1>10, <2>1, SetDfIs
  <2>3. n.f = z.f /\ n.ops = e.ops \o Code3("commit", "setdf", "write") /\ Code3("commit", "setdf", "write") \in Seq(Micro)
    <3>1. n = LastWrite(z, "write") /\ "write" \in Micro /\ "setdf" \in Micro
      BY <1>3, <1>8, <1>10, <2>1
    <3>2. n.f = z.f
      BY <2>2, <3>1, LastIs
    <3>3. PICK q : q = e.ops
      OBVIOUS
    <3>4. q \in Seq(Micro) /\ z.ops = Append(Committed(q), "setdf")
      BY <1>3, <2>2, <3>3
    <3>5. n.ops = q \o Code3("commit", "setdf", "write") /\ Code3("commit", "setdf", "write") \in Seq(Micro)
      BY <2>2, <3>1, <3>4, LastCodes
    <3> QED BY <3>2, <3>3, <3>5
  <2>4. ASSUME NEW fl \in Flags, NEW o \in BOOLEAN, NEW d \in Dfs
        PROVE  Good4(i, n.f, Code3("commit", "setdf", "write"), fl, o, d)
    <3>1. PICK o1, d1, o2, d2, o3, d3 :
            /\ o1 = OkAfter("commit", i, fl, o, d) /\ d1 = DfAfter("commit", i, fl, d)
            /\ o2 = OkAfter("setdf", i, fl, o1, d1) /\ d2 = DfAfter("setdf", i, fl, d1)
            /\ o3 = OkAfter("write", i, fl, o2, d2) /\ d3 = DfAfter("write", i, fl, d2)
      OBVIOUS
    <3>2. d3 = "ok" /\ (fl \in insts[i].gen => o3)
      BY <3>1 DEF DfAfter, OkAfter
    <3>3. End(i, n.f, fl, o3, d3)
      BY <1>6, <2>2, <2>3, <3>2 DEF End, Held, Rec
    <3> QED BY <1>3, <3>1, <3>3, Code3Good
  <2> QED BY <1>7, <2>3, <2>4 DEF Finishes
<1>11. CASE insts[i].gen # {} /\ "PEND" \notin insts[i].gen
  <2>1. PICK z : z = SET_DFNONE(c)
    OBVIOUS
  <2>2. /\ z \in Emission /\ z.f.dfnone
        /\ \/ z.ops = c.ops /\ e.f.dfnone
           \/ z.ops = Append(Committed(e.ops), "dfnone")
    BY <1>2, <1>5, <2>1, SetDfIs
  <2>3. n = LastWrite(z, "write") /\ "write" \in Micro /\ "dfnone" \in Micro
    BY <1>3, <1>8, <1>11, <2>1
  <2>6. n.f = z.f
    BY <2>2, <2>3, LastIs
  <2>4. CASE z.ops = c.ops /\ e.f.dfnone
    <3>1. n.ops = e.ops \o Code2("commit", "write") /\ Code2("commit", "write") \in Seq(Micro)
      <4>1. z.ops = Committed(e.ops) /\ z \in Emission /\ e.ops \in Seq(Micro)
        BY <1>3, <1>5, <2>2, <2>4
      <4> QED BY <2>3, <4>1, Last2
    <3>2. ASSUME NEW fl \in Flags, NEW o \in BOOLEAN, NEW d \in Dfs, Mid(i, e.f, fl, o, d)
          PROVE  Good4(i, n.f, Code2("commit", "write"), fl, o, d)
      <4>1. PICK o1, d1, o2, d2 : /\ o1 = OkAfter("commit", i, fl, o, d) /\ d1 = DfAfter("commit", i, fl, d)
                                  /\ o2 = OkAfter("write", i, fl, o1, d1) /\ d2 = DfAfter("write", i, fl, d1)
        OBVIOUS
      <4>2. d2 = "no" /\ (fl \in insts[i].gen => o2)
        BY <2>4, <3>2, <4>1 DEF DfAfter, OkAfter, Mid
      <4>3. End(i, n.f, fl, o2, d2)
        BY <1>6, <1>11, <4>2 DEF End, Held
      <4> QED BY <1>3, <4>1, <4>3, Code2Good
    <3> QED BY <1>7, <3>1, <3>2 DEF Finishes
  <2>5. CASE z.ops = Append(Committed(e.ops), "dfnone")
    <3>1. n.ops = e.ops \o Code3("commit", "dfnone", "write") /\ Code3("commit", "dfnone", "write") \in Seq(Micro)
      <4>1. PICK q : q = e.ops
        OBVIOUS
      <4>2. q \in Seq(Micro) /\ z.ops = Append(Committed(q), "dfnone")
        BY <1>3, <2>5, <4>1
      <4>3. n.ops = q \o Code3("commit", "dfnone", "write") /\ Code3("commit", "dfnone", "write") \in Seq(Micro)
        BY <2>2, <2>3, <4>2, LastCodes
      <4> QED BY <4>1, <4>3
    <3>2. ASSUME NEW fl \in Flags, NEW o \in BOOLEAN, NEW d \in Dfs
          PROVE  Good4(i, n.f, Code3("commit", "dfnone", "write"), fl, o, d)
      <4>1. PICK o1, d1, o2, d2, o3, d3 :
              /\ o1 = OkAfter("commit", i, fl, o, d) /\ d1 = DfAfter("commit", i, fl, d)
              /\ o2 = OkAfter("dfnone", i, fl, o1, d1) /\ d2 = DfAfter("dfnone", i, fl, d1)
              /\ o3 = OkAfter("write", i, fl, o2, d2) /\ d3 = DfAfter("write", i, fl, d2)
        OBVIOUS
      <4>2. d3 = "no" /\ (fl \in insts[i].gen => o3)
        BY <4>1 DEF DfAfter, OkAfter
      <4>3. End(i, n.f, fl, o3, d3)
        BY <1>6, <1>11, <4>2 DEF End, Held
      <4> QED BY <1>3, <4>1, <4>3, Code3Good
    <3> QED BY <1>7, <3>1, <3>2 DEF Finishes
  <2> QED BY <2>2, <2>4, <2>5
<1> QED BY <1>9, <1>10, <1>11

\* CLC, POPF: SET_DFNONE, and all that they set in xFlags.
LEMMA NoneFinishes ==
  ASSUME NEW i, NEW g \in F, NEW e \in Emission, e = AfterRead(i, g), Solved(i), ~ op(i).may, ~ op(i).skips,
         op(i).kind = "next", op(i).state \in {"SUBSET", "SET_NODF"}, op(i).emit = "none"
  PROVE  Finishes(i, e, EmitInst(i, g))
<1>1. PICK s : s = SETFLAGS(e, insts[i], op(i))
  OBVIOUS
<1>2. /\ insts[i].gen = insts[i].need_after \cap op(i).set /\ "PEND" \notin insts[i].need_after
      /\ \A fl \in Flags : fl \in insts[i].need_after => fl \in op(i).set \/ fl \in insts[i].need_before
  <2>1. "PEND" \notin insts[i].need_after
    BY SolvedIs DEF NoPend
  <2>2. insts[i].gen = insts[i].need_after \cap op(i).set
    BY <2>1, SolvedIs
  <2>3. insts[i].need_after \ insts[i].gen \subseteq insts[i].need_before
    BY <2>1, SolvedIs
  <2> QED BY <2>1, <2>2, <2>3
<1>3. s \in Emission /\ s.ops = e.ops /\ (s.f.dfnone => e.f.dfnone)
  <2>1. insts[i].gen \ op(i).set = {}
    BY <1>2
  <2> QED BY <1>1, <2>1, SetFlagsIs
<1>4. /\ e.ops \in Seq(Micro) /\ "writeall" \in Micro /\ "dfnone" \in Micro
      /\ "commit" \in Micro \ {"read", "skip"} /\ "dfnone" \in Micro \ {"read", "skip"} /\ "writeall" \in Micro \ {"read", "skip"}
  BY DEF Emission, Micro
<1>5. PICK c : c = Emit(s, <<"commit">>)
  OBVIOUS
<1>6. c \in Emission /\ c.f = s.f /\ c.ops = Committed(e.ops)
  BY <1>3, <1>5, EmitCommit
<1>7. PICK n, z : n = EmitInst(i, g) /\ z = SET_DFNONE(c)
  OBVIOUS
<1>8. n = LastWrite(z, "writeall")
  BY <1>1, <1>5, <1>7, EmitInstIs DEF EmitWrites, LastWrite
<1>9. /\ z \in Emission
      /\ \/ z.ops = Committed(e.ops) /\ e.f.dfnone
         \/ z.ops = Append(Committed(e.ops), "dfnone")
  BY <1>3, <1>6, <1>7, SetDfIs
<1>10. CASE z.ops = Committed(e.ops) /\ e.f.dfnone
  <2>1. n.ops = e.ops \o Code2("commit", "writeall") /\ Code2("commit", "writeall") \in Seq(Micro)
    BY <1>4, <1>8, <1>9, <1>10, Last2
  <2>2. ASSUME NEW fl \in Flags, NEW o \in BOOLEAN, NEW d \in Dfs, Mid(i, e.f, fl, o, d)
        PROVE  Good4(i, n.f, Code2("commit", "writeall"), fl, o, d)
    <3>1. PICK o1, d1, o2, d2 : /\ o1 = OkAfter("commit", i, fl, o, d) /\ d1 = DfAfter("commit", i, fl, d)
                                /\ o2 = OkAfter("writeall", i, fl, o1, d1) /\ d2 = DfAfter("writeall", i, fl, d1)
      OBVIOUS
    <3>2. d2 = "no" /\ (fl \in op(i).set \/ o => o2)
      BY <1>10, <2>2, <3>1 DEF DfAfter, OkAfter, Mid
    <3>3. fl \in insts[i].need_after => o2
      BY <1>2, <2>2, <3>2 DEF Mid, Held
    <3>4. End(i, n.f, fl, o2, d2)
      BY <1>2, <3>2, <3>3 DEF End, Held
    <3> QED BY <1>4, <3>1, <3>4, Code2Good
  <2> QED BY <1>7, <2>1, <2>2 DEF Finishes
<1>11. CASE z.ops = Append(Committed(e.ops), "dfnone")
  <2>1. n.ops = e.ops \o Code3("commit", "dfnone", "writeall") /\ Code3("commit", "dfnone", "writeall") \in Seq(Micro)
    <3>1. PICK q, x, y : q = e.ops /\ x = "writeall" /\ y = "dfnone"
      OBVIOUS
    <3>2. q \in Seq(Micro) /\ x \in Micro /\ y \in Micro /\ z.ops = Append(Committed(q), y) /\ n = LastWrite(z, x)
      BY <1>4, <1>8, <1>11, <3>1
    <3>3. n.ops = q \o Code3("commit", y, x) /\ Code3("commit", y, x) \in Seq(Micro)
      BY <1>9, <3>2, Last3
    <3> QED BY <3>1, <3>3
  <2>2. ASSUME NEW fl \in Flags, NEW o \in BOOLEAN, NEW d \in Dfs, Mid(i, e.f, fl, o, d)
        PROVE  Good4(i, n.f, Code3("commit", "dfnone", "writeall"), fl, o, d)
    <3>1. PICK o1, d1, o2, d2, o3, d3 :
            /\ o1 = OkAfter("commit", i, fl, o, d) /\ d1 = DfAfter("commit", i, fl, d)
            /\ o2 = OkAfter("dfnone", i, fl, o1, d1) /\ d2 = DfAfter("dfnone", i, fl, d1)
            /\ o3 = OkAfter("writeall", i, fl, o2, d2) /\ d3 = DfAfter("writeall", i, fl, d2)
      OBVIOUS
    <3>2. d3 = "no" /\ (fl \in op(i).set \/ o => o3)
      BY <3>1 DEF DfAfter, OkAfter
    <3>3. fl \in insts[i].need_after => o3
      BY <1>2, <2>2, <3>2 DEF Mid, Held
    <3>4. End(i, n.f, fl, o3, d3)
      BY <1>2, <3>2, <3>3 DEF End, Held
    <3> QED BY <1>4, <3>1, <3>4, Code3Good
  <2> QED BY <1>7, <2>1, <2>2 DEF Finishes
<1> QED BY <1>9, <1>10, <1>11

\* DAA: a helper that clears df and writes all the flags.
LEMMA DaaFinishes ==
  ASSUME NEW i, NEW g \in F, NEW e \in Emission, e = AfterRead(i, g), ~ op(i).may, ~ op(i).skips,
         op(i).kind = "next", op(i).state = "SET_DF", op(i).set = Flags, op(i).emit = "call"
  PROVE  Finishes(i, e, EmitInst(i, g))
<1>1. PICK s, c, w : s = SETFLAGS(e, insts[i], op(i)) /\ c = Emit(s, <<"commit">>) /\ w = <<"dfnone", "writeall">>
  OBVIOUS
<1>2. s \in Emission /\ s.ops = e.ops
  BY <1>1, SetFlagsIs
<1>3. c \in Emission /\ c.ops = Committed(e.ops)
  BY <1>1, <1>2, EmitCommit
<1>4. /\ e.ops \in Seq(Micro) /\ "writeall" \in Micro /\ "dfnone" \in Micro /\ "commit" \in Micro
      /\ "commit" \in Micro \ {"read", "skip"} /\ "dfnone" \in Micro \ {"read", "skip"} /\ "writeall" \in Micro \ {"read", "skip"}
      /\ w \in Seq(Micro)
  BY <1>1 DEF Emission, Micro
<1>5. PICK n : n = EmitInst(i, g)
  OBVIOUS
<1>6. n = Emit(c, w)
  BY <1>1, <1>5, EmitInstIs DEF EmitWrites
<1>7. n.ops = Committed(e.ops) \o w
  BY <1>3, <1>4, <1>6, EmitIs
<1>8. w = Code2("dfnone", "writeall")
  <2>1. PICK a \in Micro, b \in Micro : a = "dfnone" /\ b = "writeall"
    BY <1>4
  <2>2. PICK u, v : u = <<a, b>> /\ v = Code2(a, b)
    OBVIOUS
  <2>3. u \in Seq(Micro) /\ Len(u) = 2 /\ u[1] = a /\ u[2] = b
    BY <2>1, <2>2
  <2>4. <<b>> \in Seq(Micro) /\ Code1(b) = <<b>>
    <3>1. <<b>> \in Seq(Micro)
      BY <2>1
    <3>2. <<b>> \o <<>> = <<b>>
      BY <3>1, ConcatEmptySeq
    <3> QED BY <3>1, <3>2 DEF Code1, Then
  <2>5. v = <<a>> \o <<b>> /\ <<a>> \in Seq(Micro)
    BY <2>1, <2>2, <2>4 DEF Code2, Then
  <2>6. v \in Seq(Micro) /\ Len(v) = 2 /\ v[1] = a /\ v[2] = b
    BY <2>4, <2>5, ConcatProperties
  <2>7. u = v
    <3>1. \A k \in 1 .. Len(u) : u[k] = v[k]
      BY <2>3, <2>6
    <3> QED BY <2>3, <2>6, <3>1, SeqEqual
  <2> QED BY <1>1, <2>1, <2>2, <2>7
<1>9. n.ops = e.ops \o Code3("commit", "dfnone", "writeall") /\ Code3("commit", "dfnone", "writeall") \in Seq(Micro)
  <2>1. PICK k \in Micro : k = "commit"
    BY <1>4
  <2>2. Committed(e.ops) = e.ops \o Then(k, <<>>)
    BY <1>4, <2>1, ConcatOne DEF Committed
  <2>3. (e.ops \o Then(k, <<>>)) \o w = e.ops \o Then(k, w) /\ Then(k, w) \in Seq(Micro)
    <3>1. PICK q \in Seq(Micro) : q = e.ops
      BY <1>4
    <3>2. (q \o Then(k, <<>>)) \o w = q \o Then(k, w)
      BY <1>4, ConcatOne
    <3>3. Then(k, w) \in Seq(Micro)
      BY <1>4, ThenIs
    <3> QED BY <3>1, <3>2, <3>3
  <2>4. Code3(k, "dfnone", "writeall") = Then(k, w)
    BY <1>8 DEF Code3
  <2> QED BY <1>7, <2>1, <2>2, <2>3, <2>4, Zenon
<1>10. ASSUME NEW fl \in Flags, NEW o \in BOOLEAN, NEW d \in Dfs
       PROVE  Good4(i, n.f, Code3("commit", "dfnone", "writeall"), fl, o, d)
  <2>1. PICK o1, d1, o2, d2, o3, d3 :
          /\ o1 = OkAfter("commit", i, fl, o, d) /\ d1 = DfAfter("commit", i, fl, d)
          /\ o2 = OkAfter("dfnone", i, fl, o1, d1) /\ d2 = DfAfter("dfnone", i, fl, d1)
          /\ o3 = OkAfter("writeall", i, fl, o2, d2) /\ d3 = DfAfter("writeall", i, fl, d2)
    OBVIOUS
  <2>2. d3 = "no" /\ o3
    BY <2>1 DEF DfAfter, OkAfter
  <2>3. End(i, n.f, fl, o3, d3)
    BY <2>2 DEF End, Held, Rec
  <2> QED BY <1>4, <2>1, <2>3, Code3Good
<1> QED BY <1>5, <1>9, <1>10 DEF Finishes

\* INC: all the flags but CF, which stays where it is held.
LEMMA IncFinishes ==
  ASSUME NEW i, NEW g \in F, NEW e \in Emission, e = AfterRead(i, g), Solved(i), ~ op(i).may, ~ op(i).skips,
         insts[i].need_after \in Needs,
         op(i).kind = "next", op(i).state = "SUBSET_PENDING", op(i).set = Flags \ {"CF"}, op(i).emit = "lazy"
  PROVE  Finishes(i, e, EmitInst(i, g))
<1>1. PICK s : s = SETFLAGS(e, insts[i], op(i))
  OBVIOUS
<1>2. /\ s \in Emission /\ ("PEND" \in insts[i].gen => s.f.pending # "PENDING")
      /\ \/ s.ops = e.ops /\ (s.f.dfnone <=> e.f.dfnone)
         \/ s.ops = Append(e.ops, "update") /\ insts[i].gen \ op(i).set # {}
  BY <1>1, SetFlagsIs
<1>3. /\ e.ops \in Seq(Micro) /\ "update" \in Micro \ {"read", "skip"}
      /\ "commit" \in Micro \ {"read", "skip"} /\ "dfnone" \in Micro \ {"read", "skip"} /\ "setdf" \in Micro \ {"read", "skip"}
      /\ "write" \in Micro \ {"read", "skip"} /\ "write" \in Micro /\ "setdf" \in Micro /\ "dfnone" \in Micro
  BY DEF Emission, Micro
<1>4. PICK c : c = Emit(s, <<"commit">>)
  OBVIOUS
<1>5. c \in Emission /\ c.f = s.f /\ c.ops = Committed(s.ops)
  BY <1>2, <1>4, EmitCommit
<1>6. /\ \A fl \in Flags : fl # "CF" => (fl \in insts[i].gen <=> fl \in insts[i].need_after)
      /\ "PEND" \in insts[i].gen <=> "PEND" \in insts[i].need_after
      /\ "CF" \in insts[i].need_after => "CF" \in insts[i].need_before
      /\ "PEND" \in insts[i].gen => "CF" \in insts[i].need_after
      /\ "PEND" \notin insts[i].gen => insts[i].gen \ op(i).set = {}
      /\ insts[i].gen \subseteq insts[i].need_after
      /\ \A fl \in Flags : fl \in op(i).set <=> fl # "CF"
  <2>1. PICK a, m, p : a = insts[i].need_after /\ m = insts[i].gen /\ p = op(i).set
    OBVIOUS
  <2>2. m = (a \cap p) \cup (IF "PEND" \in a THEN {"PEND"} ELSE {}) /\ p = Flags \ {"CF"}
        /\ ("PEND" \in a => Flags \ p \subseteq a)
    BY <2>1, SolvedIs DEF HasPend
  <2>3. (a \ m) \ {"PEND"} \subseteq insts[i].need_before
    BY <2>1, <2>2, SolvedIs, FlagsAssumption
  <2> QED BY <2>1, <2>2, <2>3, FlagsAssumption
<1>7. PICK n : n = EmitInst(i, g)
  OBVIOUS
<1>8. n = LastWrite(IF "PEND" \in insts[i].gen THEN SET_DF(c, insts[i])
                    ELSE IF insts[i].gen # {} THEN SET_DFNONE(c) ELSE c, "write")
  BY <1>1, <1>4, <1>7, EmitInstIs DEF EmitWrites, LastWrite
<1>9. CASE insts[i].gen = {}
  <2>1. s.ops = e.ops /\ (s.f.dfnone <=> e.f.dfnone) /\ "PEND" \notin insts[i].need_after
    BY <1>2, <1>6, <1>9
  <2>2. n.f = c.f /\ n.ops = e.ops \o Code2("commit", "write") /\ Code2("commit", "write") \in Seq(Micro)
    <3>1. n = LastWrite(c, "write") /\ c.ops = Committed(e.ops)
      BY <1>5, <1>8, <1>9, <2>1
    <3> QED BY <1>3, <1>5, <3>1, LastIs, Last2
  <2>3. ASSUME NEW fl \in Flags, NEW o \in BOOLEAN, NEW d \in Dfs, Mid(i, e.f, fl, o, d)
        PROVE  Good4(i, n.f, Code2("commit", "write"), fl, o, d)
    <3>1. PICK o1, d1, o2, d2 : /\ o1 = OkAfter("commit", i, fl, o, d) /\ d1 = DfAfter("commit", i, fl, d)
                                /\ o2 = OkAfter("write", i, fl, o1, d1) /\ d2 = DfAfter("write", i, fl, d1)
      OBVIOUS
    <3>2. d2 = d1 /\ (d = "no" => d1 = "no") /\ (fl = "CF" => d1 = d /\ (o => o2))
      BY <1>6, <3>1 DEF DfAfter, OkAfter
    <3>3. fl \in insts[i].need_after => fl = "CF" /\ fl \in insts[i].need_before
      BY <1>6, <1>9
    <3>4. fl \in insts[i].need_after => Held(o2, d2)
      BY <2>3, <3>2, <3>3 DEF Held, Mid
    <3>5. n.f.dfnone => d2 = "no"
      BY <1>5, <2>1, <2>2, <2>3, <3>2 DEF Mid
    <3>6. End(i, n.f, fl, o2, d2)
      BY <2>1, <3>4, <3>5 DEF End
    <3> QED BY <1>3, <3>1, <3>6, Code2Good
  <2> QED BY <1>7, <2>2, <2>3 DEF Finishes
<1>10. CASE "PEND" \in insts[i].gen
  <2>1. PICK z : z = SET_DF(c, insts[i])
    OBVIOUS
  <2>2. z \in Emission /\ z.ops = Append(Committed(s.ops), "setdf") /\ ~ z.f.dfnone
    BY <1>2, <1>5, <1>10, <2>1, SetDfIs
  <2>3. n = LastWrite(z, "write")
    BY <1>8, <1>10, <2>1
  <2>4. n.f = z.f
    BY <1>3, <2>2, <2>3, LastIs
  <2>5. "CF" \in insts[i].need_before
    BY <1>6, <1>10
  <2>6. ASSUME NEW fl \in Flags, NEW o \in BOOLEAN, NEW d, fl = "CF" => o
        PROVE  LET o1 == OkAfter("commit", i, fl, o, d)
                   d1 == DfAfter("commit", i, fl, d)
                   o2 == OkAfter("setdf", i, fl, o1, d1)
                   d2 == DfAfter("setdf", i, fl, d1)
                   o3 == OkAfter("write", i, fl, o2, d2)
                   d3 == DfAfter("write", i, fl, d2)
               IN  End(i, n.f, fl, o3, d3)
    <3>1. PICK o1, d1, o2, d2, o3, d3 :
            /\ o1 = OkAfter("commit", i, fl, o, d) /\ d1 = DfAfter("commit", i, fl, d)
            /\ o2 = OkAfter("setdf", i, fl, o1, d1) /\ d2 = DfAfter("setdf", i, fl, d1)
            /\ o3 = OkAfter("write", i, fl, o2, d2) /\ d3 = DfAfter("write", i, fl, d2)
      OBVIOUS
    <3>2. CASE fl = "CF"
      <4>1. d3 = "no" /\ o3
        BY <1>6, <2>6, <3>1, <3>2 DEF DfAfter, OkAfter
      <4>2. End(i, n.f, fl, o3, d3)
        BY <4>1 DEF End, Held, Rec
      <4> QED BY <3>1, <4>2
    <3>3. CASE fl # "CF"
      <4>1. d3 = "ok" /\ (fl \in insts[i].gen => o3)
        BY <1>6, <3>1, <3>3 DEF DfAfter, OkAfter
      <4>2. End(i, n.f, fl, o3, d3)
        BY <1>6, <2>2, <2>4, <3>3, <4>1 DEF End, Held, Rec
      <4> QED BY <3>1, <4>2
    <3> QED BY <3>2, <3>3
  <2>7. CASE s.ops = e.ops
    <3>1. n.ops = e.ops \o Code3("commit", "setdf", "write") /\ Code3("commit", "setdf", "write") \in Seq(Micro)
      <4>1. z.ops = Append(Committed(e.ops), "setdf")
        BY <2>2, <2>7
      <4>2. z \in Emission /\ e.ops \in Seq(Micro) /\ "write" \in Micro /\ "setdf" \in Micro
        BY <1>3, <2>2
      <4>3. PICK q : q = e.ops
        OBVIOUS
      <4>4. q \in Seq(Micro) /\ z.ops = Append(Committed(q), "setdf")
        BY <4>1, <4>2, <4>3
      <4>5. n.ops = q \o Code3("commit", "setdf", "write") /\ Code3("commit", "setdf", "write") \in Seq(Micro)
        BY <2>3, <4>2, <4>4, LastCodes
      <4> QED BY <4>3, <4>5
    <3>2. ASSUME NEW fl \in Flags, NEW o \in BOOLEAN, NEW d \in Dfs, Mid(i, e.f, fl, o, d)
          PROVE  Good4(i, n.f, Code3("commit", "setdf", "write"), fl, o, d)
      <4>1. fl = "CF" => o
        BY <2>5, <3>2 DEF Mid, Held
      <4> QED BY <1>3, <2>6, <4>1, Code3Good
    <3> QED BY <1>7, <3>1, <3>2 DEF Finishes
  <2>8. CASE s.ops = Append(e.ops, "update")
    <3>1. /\ n.ops = e.ops \o Code4("update", "commit", "setdf", "write")
          /\ Code4("update", "commit", "setdf", "write") \in Seq(Micro)
      <4>1. z.ops = Append(Committed(Append(e.ops, "update")), "setdf")
        BY <2>2, <2>8
      <4>2. z \in Emission /\ e.ops \in Seq(Micro) /\ "write" \in Micro /\ "setdf" \in Micro
        BY <1>3, <2>2
      <4>3. PICK q : q = e.ops
        OBVIOUS
      <4>4. q \in Seq(Micro) /\ z.ops = Append(Committed(Append(q, "update")), "setdf")
        BY <4>1, <4>2, <4>3
      <4>5. /\ n.ops = q \o Code4("update", "commit", "setdf", "write")
            /\ Code4("update", "commit", "setdf", "write") \in Seq(Micro)
        BY <2>3, <4>2, <4>4, LastCodes
      <4> QED BY <4>3, <4>5
    <3>2. ASSUME NEW fl \in Flags, NEW o \in BOOLEAN, NEW d \in Dfs, Mid(i, e.f, fl, o, d)
          PROVE  Good4(i, n.f, Code4("update", "commit", "setdf", "write"), fl, o, d)
      <4>1. PICK p, q : p = OkAfter("update", i, fl, o, d) /\ q = DfAfter("update", i, fl, d)
        OBVIOUS
      <4>2. p \in BOOLEAN /\ (fl = "CF" => p)
        BY <2>5, <3>2, <4>1 DEF OkAfter, Mid, Held, Rec, Dfs
      <4>3. PICK o1, d1, o2, d2, o3, d3 :
              /\ o1 = OkAfter("commit", i, fl, p, q) /\ d1 = DfAfter("commit", i, fl, q)
              /\ o2 = OkAfter("setdf", i, fl, o1, d1) /\ d2 = DfAfter("setdf", i, fl, d1)
              /\ o3 = OkAfter("write", i, fl, o2, d2) /\ d3 = DfAfter("write", i, fl, d2)
        OBVIOUS
      <4>4. End(i, n.f, fl, o3, d3)
        BY <2>6, <4>2, <4>3
      <4> QED BY <1>3, <4>1, <4>3, <4>4, Code4Good
    <3> QED BY <1>7, <3>1, <3>2 DEF Finishes
  <2> QED BY <1>2, <2>7, <2>8
<1>11. CASE insts[i].gen # {} /\ "PEND" \notin insts[i].gen
  <2>1. PICK z : z = SET_DFNONE(c)
    OBVIOUS
  <2>2. s.ops = e.ops /\ (s.f.dfnone <=> e.f.dfnone) /\ "PEND" \notin insts[i].need_after
    BY <1>2, <1>6, <1>11
  <2>3. /\ z \in Emission
        /\ \/ z.ops = Committed(e.ops) /\ e.f.dfnone
           \/ z.ops = Append(Committed(e.ops), "dfnone")
    BY <1>5, <2>1, <2>2, SetDfIs
  <2>4. n = LastWrite(z, "write")
    BY <1>8, <1>11, <2>1
  <2>5. ASSUME NEW fl \in Flags, NEW o \in BOOLEAN, NEW d, Mid(i, e.f, fl, o, d), NEW p, NEW q,
               q = "no", (fl # "CF" /\ fl \in insts[i].gen) \/ (fl = "CF" /\ o) => p
        PROVE  End(i, n.f, fl, p, q)
    <3>1. fl \in insts[i].need_after => p
      BY <1>6, <2>5 DEF Mid, Held
    <3> QED BY <2>2, <2>5, <3>1 DEF End, Held
  <2>6. CASE z.ops = Committed(e.ops) /\ e.f.dfnone
    <3>1. n.ops = e.ops \o Code2("commit", "write") /\ Code2("commit", "write") \in Seq(Micro)
      BY <1>3, <2>3, <2>4, <2>6, Last2
    <3>2. ASSUME NEW fl \in Flags, NEW o \in BOOLEAN, NEW d \in Dfs, Mid(i, e.f, fl, o, d)
          PROVE  Good4(i, n.f, Code2("commit", "write"), fl, o, d)
      <4>1. PICK o1, d1, o2, d2 : /\ o1 = OkAfter("commit", i, fl, o, d) /\ d1 = DfAfter("commit", i, fl, d)
                                  /\ o2 = OkAfter("write", i, fl, o1, d1) /\ d2 = DfAfter("write", i, fl, d1)
        OBVIOUS
      <4>2. d2 = "no" /\ ((fl # "CF" /\ fl \in insts[i].gen) \/ (fl = "CF" /\ o) => o2)
        BY <1>6, <2>6, <3>2, <4>1 DEF DfAfter, OkAfter, Mid
      <4>3. End(i, n.f, fl, o2, d2)
        BY <2>5, <3>2, <4>2
      <4> QED BY <1>3, <4>1, <4>3, Code2Good
    <3> QED BY <1>7, <3>1, <3>2 DEF Finishes
  <2>7. CASE z.ops = Append(Committed(e.ops), "dfnone")
    <3>1. n.ops = e.ops \o Code3("commit", "dfnone", "write") /\ Code3("commit", "dfnone", "write") \in Seq(Micro)
      <4>1. z \in Emission /\ e.ops \in Seq(Micro) /\ "write" \in Micro /\ "dfnone" \in Micro
        BY <1>3, <2>3
      <4>3. PICK q : q = e.ops
        OBVIOUS
      <4>4. q \in Seq(Micro) /\ z.ops = Append(Committed(q), "dfnone")
        BY <2>7, <4>1, <4>3
      <4>5. n.ops = q \o Code3("commit", "dfnone", "write") /\ Code3("commit", "dfnone", "write") \in Seq(Micro)
        BY <2>4, <4>1, <4>4, LastCodes
      <4> QED BY <4>3, <4>5
    <3>2. ASSUME NEW fl \in Flags, NEW o \in BOOLEAN, NEW d \in Dfs, Mid(i, e.f, fl, o, d)
          PROVE  Good4(i, n.f, Code3("commit", "dfnone", "write"), fl, o, d)
      <4>1. PICK o1, d1, o2, d2, o3, d3 :
              /\ o1 = OkAfter("commit", i, fl, o, d) /\ d1 = DfAfter("commit", i, fl, d)
              /\ o2 = OkAfter("dfnone", i, fl, o1, d1) /\ d2 = DfAfter("dfnone", i, fl, d1)
              /\ o3 = OkAfter("write", i, fl, o2, d2) /\ d3 = DfAfter("write", i, fl, d2)
        OBVIOUS
      <4>2. d3 = "no" /\ ((fl # "CF" /\ fl \in insts[i].gen) \/ (fl = "CF" /\ o) => o3)
        BY <1>6, <4>1 DEF DfAfter, OkAfter
      <4>3. End(i, n.f, fl, o3, d3)
        BY <2>5, <3>2, <4>2
      <4> QED BY <1>3, <4>1, <4>3, Code3Good
    <3> QED BY <1>7, <3>1, <3>2 DEF Finishes
  <2> QED BY <2>3, <2>6, <2>7
<1> QED BY <1>9, <1>10, <1>11

-----------------------------------------------------------------------------
(***************************************************************************)
(* The instructions that write every flag they say they set; a RET that    *)
(* asks for what is deferred.                                              *)
(***************************************************************************)
Plain == DOMAIN Repertoire \ ({"mul", "cmc", "shlcl"} \cup IF SafeFlags = 0 THEN {"ret"} ELSE {})

LEMMA PlainIs ==
  ASSUME NEW k \in Plain
  PROVE  LET p == Repertoire[k]
         IN  /\ ~ p.may /\ ~ p.skips
             /\ \/ p.state = "UNKNOWN" /\ p.set = {} /\ p.emit = "-" /\ (p.kind = "ret" => "PEND" \in p.use)
                \/ p.state = "SET_NODF" /\ p.emit = "-" /\ p.kind = "native"
                \/ p.state = "SET_PENDING" /\ p.set = Flags /\ p.emit = "lazy" /\ p.kind = "next"
                \/ p.state = "SUBSET_PENDING" /\ p.set = Flags \ {"CF"} /\ p.emit = "lazy" /\ p.kind = "next"
                \/ p.state \in {"SUBSET", "SET_NODF"} /\ p.emit = "none" /\ p.kind = "next"
                \/ p.state = "SET_DF" /\ p.set = Flags /\ p.emit = "call" /\ p.kind = "next"
<1>1. CASE k \in {"nop", "pushf", "jc", "jp", "jecxz", "jmp"}
  <2>1. ASSUME NEW p \in {NOP, PUSHF, Jcc("CF"), Jcc("PF"), JECXZ, JMP}
        PROVE  ~ p.may /\ ~ p.skips /\ p.state = "UNKNOWN" /\ p.set = {} /\ p.emit = "-" /\ (p.kind = "ret" => "PEND" \in p.use)
    <3>1. CASE p \in {NOP, PUSHF}
      BY <3>1 DEF NoFlags, NOP, PUSHF
    <3>2. CASE p \in {Jcc("CF"), Jcc("PF"), JECXZ}
      BY <3>2 DEF NoFlags, Jcc, JECXZ
    <3>3. CASE p = JMP
      BY <3>3 DEF NoFlags, JMP
    <3> QED BY <3>1, <3>2, <3>3
  <2>2. Repertoire[k] \in {NOP, PUSHF, Jcc("CF"), Jcc("PF"), JECXZ, JMP}
    BY <1>1 DEF Repertoire
  <2> QED BY <2>1, <2>2
<1>2. CASE k = "native"
  BY <1>2 DEF Repertoire, NoFlags, NativeCall
<1>3. CASE k \in {"add", "adc"}
  <2>1. ASSUME NEW p \in {ADD, ADC}
        PROVE  ~ p.may /\ ~ p.skips /\ p.state = "SET_PENDING" /\ p.set = Flags /\ p.emit = "lazy" /\ p.kind = "next"
    BY DEF NoFlags, ADD, ADC
  <2>2. Repertoire[k] \in {ADD, ADC}
    BY <1>3 DEF Repertoire
  <2> QED BY <2>1, <2>2
<1>4. CASE k = "inc"
  BY <1>4 DEF Repertoire, NoFlags, INC
<1>5. CASE k \in {"clc", "popf"}
  <2>1. ASSUME NEW p \in {CLC, POPF}
        PROVE  ~ p.may /\ ~ p.skips /\ p.state \in {"SUBSET", "SET_NODF"} /\ p.emit = "none" /\ p.kind = "next"
    BY DEF NoFlags, CLC, POPF
  <2>2. Repertoire[k] \in {CLC, POPF}
    BY <1>5 DEF Repertoire
  <2> QED BY <2>1, <2>2
<1>6. CASE k = "daa"
  BY <1>6 DEF Repertoire, NoFlags, DAA
<1>7. CASE k = "ret"
  BY <1>7 DEF Plain, Repertoire, NoFlags, RET
<1> QED BY <1>1, <1>2, <1>3, <1>4, <1>5, <1>6, <1>7 DEF Plain, Repertoire

\* The code of a solved instruction reads the flags when they are there, and
\* leaves what is needed after it.
LEMMA InstGood ==
  ASSUME InstsOK, NEW i \in DOMAIN insts, insts[i].op \in Plain, Solved(i),
         NEW g \in F, insts[i].pred = <<>> => g = Unknown,
         NEW fl \in Flags, NEW o \in BOOLEAN, NEW d \in Dfs, Ready(i, g, fl, o, d)
  PROVE  Good6(i, EmitInst(i, g).f, EmitInst(i, g).ops, fl, o, d)
<1>1. PICK e, n : e = AfterRead(i, g) /\ n = EmitInst(i, g)
  OBVIOUS
<1>2. e \in Emission
  BY <1>1, AfterReadIs
<1>3. /\ ~ op(i).may /\ ~ op(i).skips
      /\ \/ op(i).state = "UNKNOWN" /\ op(i).set = {} /\ op(i).emit = "-" /\ (op(i).kind = "ret" => "PEND" \in op(i).use)
         \/ op(i).state = "SET_NODF" /\ op(i).emit = "-" /\ op(i).kind = "native"
         \/ op(i).state = "SET_PENDING" /\ op(i).set = Flags /\ op(i).emit = "lazy" /\ op(i).kind = "next"
         \/ op(i).state = "SUBSET_PENDING" /\ op(i).set = Flags \ {"CF"} /\ op(i).emit = "lazy" /\ op(i).kind = "next"
         \/ op(i).state \in {"SUBSET", "SET_NODF"} /\ op(i).emit = "none" /\ op(i).kind = "next"
         \/ op(i).state = "SET_DF" /\ op(i).set = Flags /\ op(i).emit = "call" /\ op(i).kind = "next"
  BY PlainIs DEF op
<1>4. insts[i].need_after \in Needs
  BY DEF InstsOK, Inst
<1>5. Finishes(i, e, EmitInst(i, g))
  <2>1. CASE op(i).state = "UNKNOWN" /\ op(i).set = {} /\ op(i).emit = "-" /\ (op(i).kind = "ret" => "PEND" \in op(i).use)
    BY <1>1, <1>2, <1>3, <2>1, UnknownFinishes
  <2>2. CASE op(i).state = "SET_NODF" /\ op(i).emit = "-" /\ op(i).kind = "native"
    BY <1>1, <1>2, <1>3, <2>2, NativeFinishes
  <2>3. CASE op(i).state = "SET_PENDING" /\ op(i).set = Flags /\ op(i).emit = "lazy" /\ op(i).kind = "next"
    BY <1>1, <1>2, <1>3, <1>4, <2>3, AddFinishes
  <2>4. CASE op(i).state = "SUBSET_PENDING" /\ op(i).set = Flags \ {"CF"} /\ op(i).emit = "lazy" /\ op(i).kind = "next"
    BY <1>1, <1>2, <1>3, <1>4, <2>4, IncFinishes
  <2>5. CASE op(i).state \in {"SUBSET", "SET_NODF"} /\ op(i).emit = "none" /\ op(i).kind = "next"
    BY <1>1, <1>2, <1>3, <2>5, NoneFinishes
  <2>6. CASE op(i).state = "SET_DF" /\ op(i).set = Flags /\ op(i).emit = "call" /\ op(i).kind = "next"
    BY <1>1, <1>2, <1>3, <2>6, DaaFinishes
  <2> QED BY <1>3, <2>1, <2>2, <2>3, <2>4, <2>5, <2>6
<1>6. PICK t \in Seq(Micro) :
        /\ n.ops = e.ops \o t
        /\ \A p \in BOOLEAN, q \in Dfs : Mid(i, e.f, fl, p, q) => Good4(i, n.f, t, fl, p, q)
  BY <1>1, <1>5 DEF Finishes
<1>7. op(i).use \subseteq insts[i].need_before
  BY <1>3, SolvedIs
<1>8. Good6(i, n.f, e.ops \o t, fl, o, d)
  BY <1>1, <1>6, <1>7, ReadsGood
<1> QED BY <1>1, <1>6, <1>8
=============================================================================
