-------------------------- MODULE MCParseDocument --------------------------
(***************************************************************************)
(* The files ParseDocument is checked on.  They are written as terms, and  *)
(* Decoded makes the heap of them that the YAML decoder makes: an alias    *)
(* names the last anchor of its name that is written before it.            *)
(***************************************************************************)
EXTENDS ParseDocument

Term(kind, tag, value, anchor, content) ==
  [kind |-> kind, tag |-> tag, value |-> value, anchor |-> anchor, content |-> content]

S(v) == Term("scalar", IF v = "<<" THEN "!!merge" ELSE IF v = "~" THEN "!!null" ELSE "!!str", v, "", << >>)
L(items) == Term("sequence", "!!seq", "", "", items)
M(content) == Term("mapping", "!!map", "", "", content)
R(segs) == Term("sequence", "!reference", "", "", [i \in DOMAIN segs |-> S(segs[i])])
A(name) == Term("alias", "", name, "", << >>)
Anchored(name, t) == [t EXCEPT !.anchor = name]

(* The nodes of a term in the order in which they are written: a node is   *)
(* its place in it, and its content follows.                               *)
RECURSIVE Written(_)
Written(t) == <<t>> \o FlattenSeq([i \in DOMAIN t.content |-> Written(t.content[i])])

ContentOf(all, n) ==
  LET content == all[n].content
      before(i) == FlattenSeq([j \in 1 .. i - 1 |-> Written(content[j])])
  IN  [i \in DOMAIN content |-> n + 1 + Len(before(i))]

NamedBy(all, n) == Max({ m \in 1 .. n - 1 : all[m].anchor = all[n].value })

NodeOf(all, n) ==
  LET children == ContentOf(all, n)
      is(kind) == all[n].kind = kind
  IN  Node(all[n].kind, all[n].tag, IF is("alias") THEN "" ELSE all[n].value,
           IF is("mapping") THEN [i \in 1 .. Len(children) \div 2 |-> <<children[2 * i - 1], children[2 * i]>>]
                            ELSE << >>,
           IF is("mapping") THEN << >> ELSE children,
           IF is("alias") THEN NamedBy(all, n) ELSE None)

Decoded(docs, broken, rootFile) ==
  LET all == FlattenSeq([i \in DOMAIN docs |-> Written(docs[i])])
      root(i) == 1 + Len(FlattenSeq([j \in 1 .. i - 1 |-> Written(docs[j])]))
  IN  [nodes |-> [n \in DOMAIN all |-> NodeOf(all, n)], docs |-> [i \in DOMAIN docs |-> root(i)],
       broken |-> broken, rootFile |-> rootFile]

One(t) == Decoded(<<t>>, FALSE, TRUE)

-----------------------------------------------------------------------------
Commands(names) == L([i \in DOMAIN names |-> S(names[i])])
Mapping(entries) == M(FlattenSeq(entries))

(* Templates and jobs with every order of own keys, repeated keys and      *)
(* merge keys, with aliases of parts and of the mapping itself.            *)
Template ==
  { <<S("script"), Anchored("x", Commands(<<"t1", "t2">>))>>, <<S("script"), S("t3")>>,
    <<S("image"), S("t4")>>, <<S("<<"), A("u")>>, <<S("needs"), A("t")>> }
Job ==
  { <<S("script"), Commands(<<"j1">>)>>, <<S("image"), S("j2")>>, <<S("image"), A("u")>>,
    <<S("<<"), A("t")>>, <<S("<<"), L(<<A("t"), A("u")>>)>>, <<S("<<"), L(<<A("u"), A("t")>>)>> }
Merges ==
  { One(Mapping(<< <<S(".u"), Anchored("u", Mapping(<< <<S("image"), S("u1")>>, <<S("tags"), S("u2")>> >>))>>,
                   <<S(".t"), Anchored("t", Mapping(t))>>, <<S("job"), Mapping(j)>> >>)) :
      t \in BoundedSeq(Template, 2), j \in BoundedSeq(Job, 2) \cup
        { <<a, b, c>> : a \in Job, b \in {<<S("image"), S("j2")>>, <<S("<<"), A("t")>>}, c \in Job } }

(* What is written twice, with anchors on what is dropped, and scripts of  *)
(* every form.                                                             *)
Script ==
  { S("s1"), S("~"), L(<<S("s1"), L(<<S("s2"), S("s3")>>)>>), L(<<L(<<L(<<S("s1")>>)>>), S("s2")>>),
    A("x"), L(<<A("x"), S("s3")>>), L(<<L(<<A("x")>>), A("x")>>), L(<<R(<<".t", "script">>), S("s3")>>),
    R(<<".t", "script">>), Mapping(<< <<S("s1"), S("s2")>> >>) }
Twice(k, v, w) ==
  One(Mapping(<< <<S(".t"), Mapping(<< <<S("script"), Anchored("x", Commands(<<"t1", "t2">>))>> >>)>>,
                 <<S("before_script"), w>>, <<S(k), Mapping(<< <<S("script"), v>>, <<S("image"), S("i")>> >>)>>,
                 <<S("job"), Mapping(<< <<S("script"), w>>, <<S("image"), S("i")>>, <<S("script"), v>>,
                     <<S("hooks"), Mapping(<< <<S("pre_get_sources_script"), w>> >>)>> >>)>> >>))
Scripts == { Twice(k, v, w) : k \in {"default", "variables", "job"}, v \in Script, w \in Script }

DeadAnchor ==
  { One(Mapping(<< <<S("job"), Mapping(<< <<S("image"), S("i1")>>, <<S("script"), v>>, <<S("image"), S("i2")>> >>)>>,
                   <<S("job"), Mapping(<< <<S("script"), w>> >>)>>, <<S("other"), A("x")>> >>)) :
      v \in {Anchored("x", Commands(<<"s1">>)),
             Anchored("x", Mapping(<< <<S("a"), S("i1")>>, <<S("a"), S("i2")>> >>))},
      w \in {S("s2"), A("x")} }

(* References from everywhere to everywhere.                               *)
To(k) == R(<<k, "script">>)
Item == {S("c1"), To(".a"), To(".b"), To("job"), R(<<".a", "missing">>)}
Body(v) == Mapping(<< <<S("script"), v>> >>)
References ==
  { One(Mapping(<< <<S(".a"), Body(a)>>, <<S("job"), Body(j)>>, <<S(".b"), Body(b)>> >>)) :
      a \in { L(s) : s \in BoundedSeq(Item, 1) } \cup {To(".b"), To("job")},
      b \in { L(s) : s \in BoundedSeq(Item, 1) } \cup {To(".a"), S("c2")},
      j \in { L(s) : s \in BoundedSeq(Item, 2) } \cup Item }

(* Lists that double, as aliases and as references, past the budget.       *)
Doubled(name, t) == Anchored(name, L(<<t, t, S("c")>>))
Budget ==
  { One(Mapping(<< <<S("a"), Doubled("a", S("c"))>>, <<S("b"), Doubled("b", A("a"))>>,
                   <<S("c"), Doubled("c", A("b"))>>, <<S("d"), L([i \in 1 .. n |-> t])>> >>)) :
      n \in 1 .. 3, t \in {A("a"), A("b"), A("c")} }
  \cup
  { One(Mapping(<< <<S("d"), L([i \in 1 .. n |-> R(<<t>>)])>>, <<S("a"), L(<<S("c"), S("c")>>)>>,
                   <<S("b"), L(<<R(<<"a">>), R(<<"a">>), S("c")>>)>>, <<S("c"), L(<<R(<<"b">>), R(<<"b">>)>>)>>,
                   <<S("e"), R(<<"a">>)>> >>)) :
      n \in 1 .. 3, t \in {"a", "b", "c"} }
  \cup
  { One(Mapping(<< <<S("x"), Anchored("x", L(<<R(<<"a">>), S("c")>>))>>, <<S("a"), Commands(<<"s1", "s2">>)>>,
                   <<S("job"), Body(L(<<A("x"), A("x"), t>>))>> >>)) : t \in {A("x"), S("c"), L(<<A("x")>>)} }

(* Streams of documents, with a spec: header, empty ones and broken ones.  *)
Documents == {S("~"), S("text"), Body(S("c")), Mapping(<< <<S("spec"), Mapping(<< <<S("a"), S("1")>>, <<S("a"), S("2")>> >>)>> >>),
              Mapping(<< <<S("job"), Body(Commands(<<"s1">>))>>, <<S("default"), Body(S("s2"))>> >>)}
Streams == { Decoded(s, b, r) : s \in BoundedSeq(Documents, 3), b \in BOOLEAN, r \in BOOLEAN }

AllFiles == Merges \cup Scripts \cup DeadAnchor \cup References \cup Budget \cup Streams
=============================================================================
