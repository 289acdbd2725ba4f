---------------------------- MODULE CatalogProofs ----------------------------
(***************************************************************************)
(* Proofs about the administration of the catalog, for any number of       *)
(* terminals and scripts, any backends deployed, any catalog to begin      *)
(* with, and whatever is granted that is not the analyst's to have.  The   *)
(* inductive invariant, Inv, says that what is on its way into the         *)
(* analyst's server was found by a name that is distinct from all that is  *)
(* beyond it, that an identity, once it was the analyst's, is nobody       *)
(* else's, and of an undisturbed script what it has done so far.           *)
(***************************************************************************)
EXTENDS Catalog, SequenceTheorems, WellFoundedInduction, TLAPS

----------------------------------------------------------------------------
(* Names. *)

\* The words in the names of what is beyond the analyst.
ReservedWords ==
  {"erp", "payments", "wire", "controlplane", "register", "mcp", "server", "list", "control",
   "plane", "recent", "blocks", "evaluate", "policy"}

\* What is beyond the analyst is named with these words alone.
LEMMA BeyondWords ==
  ASSUME NEW name \in Beyond
  PROVE  name \in Seq(ReservedWords)
<1>1. CASE name = Wire
  BY <1>1 DEF Wire, ReservedWords
<1>2. CASE name # Wire
  <2>1. Slug("controlplane") = <<"controlplane">>
    BY DEF Slug, ToSet, A2A
  <2>2. PICK w \in ToSet(Operator.wants) : name = <<"controlplane">> \o w
    BY <1>2, <2>1 DEF Beyond
  <2>3. w \in {<<"register", "mcp", "server">>, <<"list", "control", "plane">>,
               <<"recent", "blocks">>, <<"evaluate", "policy">>}
    BY DEF Operator, ToSet
  <2>4. w \in Seq(ReservedWords)
    <3>1. CASE w = <<"register", "mcp", "server">>
      BY <3>1 DEF ReservedWords
    <3>2. CASE w = <<"list", "control", "plane">>
      BY <3>2 DEF ReservedWords
    <3>3. CASE w = <<"recent", "blocks">>
      BY <3>3 DEF ReservedWords
    <3>4. CASE w = <<"evaluate", "policy">>
      BY <3>4 DEF ReservedWords
    <3>5. QED
      BY <2>3, <3>1, <3>2, <3>3, <3>4
  <2>5. <<"controlplane">> \in Seq(ReservedWords)
    BY DEF ReservedWords
  <2>6. QED
    BY <2>2, <2>4, <2>5
<1>3. QED
  BY <1>1, <1>2

\* A name with a word of its own is distinct from those.
LEMMA DistinctByWord ==
  ASSUME NEW want, NEW k \in DOMAIN want, want[k] \notin ReservedWords
  PROVE  Distinct(want)
<1>1. ASSUME NEW name \in Beyond
      PROVE  want[k] \notin ToSet(name)
  BY BeyondWords DEF ToSet
<1>2. QED
  BY <1>1 DEF Distinct

\* What the analyst is to have is named distinctly.
LEMMA AnalystsWants ==
  ASSUME NEW k \in DOMAIN FinOps.wants
  PROVE  Distinct(FinOps.wants[k])
<1> DEFINE w == FinOps.wants[k]
<1>1. \/ w = <<"list", "pending", "expenses">>
      \/ w = <<"get", "expense">>
      \/ w = <<"get", "receipt">>
      \/ w = <<"approve">>
      \/ w = <<"reimburse">>
      \/ w = <<"get", "policy">>
      \/ w = <<"wire", "limit">>
      \/ w = <<"a2a", "auditor">>
  BY DEF FinOps
<1> HIDE DEF w
<1>2. CASE w[1] \in {"get", "approve", "reimburse", "a2a"}
  <2>1. 1 \in DOMAIN w /\ w[1] \notin ReservedWords
    BY <1>1, <1>2 DEF ReservedWords
  <2>2. QED
    BY <2>1, DistinctByWord DEF w
<1>3. CASE w = <<"list", "pending", "expenses">> \/ w = <<"wire", "limit">>
  <2>1. 2 \in DOMAIN w /\ w[2] \notin ReservedWords
    BY <1>3 DEF ReservedWords
  <2>2. QED
    BY <2>1, DistinctByWord DEF w
<1>4. QED
  BY <1>1, <1>2, <1>3

\* A name in which a distinct one occurs is distinct.
LEMMA OccursDistinct ==
  ASSUME NEW W, NEW want, NEW name \in Seq(W), want \in SubSeqs(name), Distinct(want)
  PROVE  Distinct(name)
<1>1. PICK i \in 0..Len(name), j \in 0..Len(name) : want = SubSeq(name, i + 1, j)
  BY DEF SubSeqs
<1>2. PICK k \in DOMAIN want : \A n \in Beyond : want[k] \notin ToSet(n)
  BY DEF Distinct
<1>3. k + i \in DOMAIN name /\ want[k] = name[k + i]
  BY <1>1
<1>4. QED
  BY <1>2, <1>3 DEF Distinct

\* Positions counted from the end.
LEMMA FromTheEnd ==
  ASSUME NEW l \in Nat, NEW n \in Nat, NEW k \in 1..l, l <= n
  PROVE  \E i \in 1..l : /\ i \in 1..n
                         /\ l - i + 1 = k /\ n - i + 1 = n - l + k /\ n - l + k \in 1..n
<1>1. l - k + 1 \in 1..l
  OBVIOUS
<1>2. QED
  BY <1>1

\* So is one that ends with a distinct one.
LEMMA EndsDistinct ==
  ASSUME NEW V, NEW W, NEW want \in Seq(V), NEW name \in Seq(W), IsSuffix(want, name),
         Distinct(want)
  PROVE  Distinct(name)
<1>1. PICK k \in DOMAIN want : \A n \in Beyond : want[k] \notin ToSet(n)
  BY DEF Distinct
<1> DEFINE l == Len(want)
           n == Len(name)
<1>2. /\ Reverse(want) \in Seq(V) /\ Len(Reverse(want)) = l
      /\ Reverse(name) \in Seq(W) /\ Len(Reverse(name)) = n
      /\ \A i \in 1..l : Reverse(want)[i] = want[l - i + 1]
      /\ \A i \in 1..n : Reverse(name)[i] = name[n - i + 1]
  BY DEF Reverse
<1>3. l <= n /\ \A i \in 1..l : Reverse(want)[i] = Reverse(name)[i]
  <2>1. l <= n /\ SubSeq(Reverse(want), 1, l) = SubSeq(Reverse(name), 1, l)
    BY <1>2 DEF IsSuffix, IsPrefix
  <2>2. \A i \in 1..l : /\ SubSeq(Reverse(want), 1, l)[i] = Reverse(want)[i]
                        /\ SubSeq(Reverse(name), 1, l)[i] = Reverse(name)[i]
    BY <1>2, <2>1
  <2>3. QED
    BY <2>1, <2>2
<1>4. want[k] = name[n - l + k] /\ n - l + k \in 1..n
  <2>1. k \in 1..l /\ l \in Nat /\ n \in Nat /\ l <= n
    BY <1>3
  <2>2. PICK i \in 1..l : /\ i \in 1..n
                          /\ l - i + 1 = k /\ n - i + 1 = n - l + k /\ n - l + k \in 1..n
    BY <2>1, FromTheEnd
  <2>3. Reverse(want)[i] = Reverse(name)[i]
    BY <1>3, <2>2
  <2>4. Reverse(want)[i] = want[k] /\ Reverse(name)[i] = name[n - l + k]
    <3>1. Reverse(want)[i] = want[l - i + 1] /\ Reverse(name)[i] = name[n - i + 1]
      BY <1>2, <2>2
    <3>2. QED
      BY <2>2, <3>1
  <2>5. QED
    BY <2>2, <2>3, <2>4
<1>5. QED
  BY <1>1, <1>4 DEF Distinct

\* Nothing beyond the analyst has a distinct name.
LEMMA BeyondNotDistinct ==
  ASSUME NEW name \in Beyond
  PROVE  ~Distinct(name)
BY BeyondWords DEF Distinct, ToSet

\* The words in the names of all tools.
Words == ReservedWords \cup
  {"expense", "db", "pending", "expenses", "get", "receipt", "approve", "reimburse", "docs",
   "limit", "notify", "corpus", "fx", "rates", "rate", "currencies", "convert", "sales", "tax",
   "add", "a2a", "auditor", "payments", "chair"}

\* The prefixes of the tools' names are made of them.
LEMMA SlugType ==
  ASSUME NEW b \in Backends
  PROVE  Slug(b) \in Seq(Words)
<1>1. \/ b = "expense-db"   \/ b = "erp-payments" \/ b = "policy-docs" \/ b = "notify"
      \/ b = "controlplane" \/ b = "corpus"       \/ b = "fx-rates"    \/ b = "sales-tax"
      \/ b \in ToSet(A2A)
  BY DEF Backends, MCP, ToSet
<1>2. ToSet(A2A) = {"auditor", "payments", "chair"}
  BY DEF A2A, ToSet
<1>3. \/ Slug(b) \in {<<"expense", "db">>, <<"erp", "payments">>, <<"policy", "docs">>}
      \/ Slug(b) \in {<<"fx", "rates">>, <<"sales", "tax">>, <<"a2a">>}
      \/ Slug(b) = <<b>> /\ b \in {"notify", "controlplane", "corpus"}
  BY <1>1, <1>2 DEF Slug
<1>4. ASSUME NEW x \in Words, NEW y \in Words
      PROVE  <<x>> \in Seq(Words) /\ <<x, y>> \in Seq(Words)
  OBVIOUS
<1>5. /\ {"expense", "db", "erp", "payments", "policy", "docs", "fx", "rates"} \subseteq Words
      /\ {"sales", "tax", "a2a", "notify", "controlplane", "corpus"} \subseteq Words
  BY DEF Words, ReservedWords
<1>6. CASE Slug(b) \in {<<"expense", "db">>, <<"erp", "payments">>, <<"policy", "docs">>}
  BY <1>4, <1>5, <1>6
<1>7. CASE Slug(b) \in {<<"fx", "rates">>, <<"sales", "tax">>, <<"a2a">>}
  BY <1>4, <1>5, <1>7
<1>8. CASE Slug(b) = <<b>> /\ b \in {"notify", "controlplane", "corpus"}
  BY <1>4, <1>5, <1>8
<1>9. QED
  BY <1>3, <1>6, <1>7, <1>8

\* The names of a backend's own tools.
LEMMA ToolsOfType ==
  ASSUME NEW b \in Backends
  PROVE  ToolsOf(b) \in Seq(Seq(Words))
<1>1. \/ b = "expense-db"   \/ b = "erp-payments" \/ b = "policy-docs" \/ b = "notify"
      \/ b = "controlplane" \/ b = "corpus"       \/ b = "fx-rates"    \/ b = "sales-tax"
      \/ b \in {"auditor", "payments", "chair"}
  BY DEF Backends, MCP, A2A, ToSet
<1>2. ASSUME NEW S, NEW x \in S, NEW y \in S, NEW z \in S, NEW v \in S
      PROVE  /\ <<x>> \in Seq(S) /\ <<x, y>> \in Seq(S) /\ <<x, y, z>> \in Seq(S)
             /\ <<x, y, z, v>> \in Seq(S)
  OBVIOUS
<1>3. /\ {"list", "pending", "expenses", "get", "expense", "receipt"} \subseteq Words
      /\ {"approve", "reimburse", "wire", "policy", "limit", "notify"} \subseteq Words
      /\ {"register", "mcp", "server", "control", "plane", "recent", "blocks"} \subseteq Words
      /\ {"evaluate", "corpus", "fx", "rate", "currencies", "convert", "add", "tax"} \subseteq Words
      /\ {"auditor", "payments", "chair"} \subseteq Words
  BY DEF Words, ReservedWords
<1> DEFINE N == Seq(Words)
<1>4. /\ <<"list", "pending", "expenses">> \in N /\ <<"get", "expense">> \in N
      /\ <<"get", "receipt">> \in N
  BY <1>2, <1>3
<1>5. /\ <<"approve">> \in N /\ <<"reimburse">> \in N /\ <<"wire">> \in N
      /\ <<"get", "policy">> \in N /\ <<"wire", "limit">> \in N /\ <<"notify">> \in N
  BY <1>2, <1>3
<1>6. /\ <<"register", "mcp", "server">> \in N /\ <<"list", "control", "plane">> \in N
      /\ <<"recent", "blocks">> \in N /\ <<"evaluate", "policy">> \in N
  BY <1>2, <1>3
<1>7. /\ <<"get", "corpus">> \in N /\ <<"get", "fx", "rate">> \in N
      /\ <<"list", "currencies">> \in N /\ <<"convert">> \in N /\ <<"add", "tax">> \in N
  BY <1>2, <1>3
<1>8. b \in {"auditor", "payments", "chair"} => <<b>> \in N
  BY <1>2, <1>3
<1> HIDE DEF N
<1>9. ToolsOf(b) \in Seq(N)
  <2>1. CASE b = "expense-db"
    <3>1. ToolsOf(b) = <<<<"list", "pending", "expenses">>, <<"get", "expense">>, <<"get", "receipt">>>>
      BY <2>1 DEF ToolsOf
    <3>2. QED
      BY <3>1, <1>2, <1>4
  <2>2. CASE b = "erp-payments"
    <3>1. ToolsOf(b) = <<<<"approve">>, <<"reimburse">>, <<"wire">>>>
      BY <2>2 DEF ToolsOf
    <3>2. QED
      BY <3>1, <1>2, <1>5
  <2>3. CASE b = "policy-docs"
    <3>1. ToolsOf(b) = <<<<"get", "policy">>, <<"wire", "limit">>>>
      BY <2>3 DEF ToolsOf
    <3>2. QED
      BY <3>1, <1>2, <1>5
  <2>4. CASE b = "notify"
    <3>1. ToolsOf(b) = <<<<"notify">>>>
      BY <2>4 DEF ToolsOf
    <3>2. QED
      BY <3>1, <1>2, <1>5
  <2>5. CASE b = "controlplane"
    <3>1. ToolsOf(b) = <<<<"register", "mcp", "server">>, <<"list", "control", "plane">>,
                      <<"recent", "blocks">>, <<"evaluate", "policy">>>>
      BY <2>5 DEF ToolsOf, Operator
    <3>2. QED
      BY <3>1, <1>2, <1>6
  <2>6. CASE b = "corpus"
    <3>1. ToolsOf(b) = <<<<"get", "corpus">>>>
      BY <2>6 DEF ToolsOf
    <3>2. QED
      BY <3>1, <1>2, <1>7
  <2>7. CASE b = "fx-rates"
    <3>1. ToolsOf(b) = <<<<"get", "fx", "rate">>, <<"list", "currencies">>, <<"convert">>>>
      BY <2>7 DEF ToolsOf
    <3>2. QED
      BY <3>1, <1>2, <1>7
  <2>8. CASE b = "sales-tax"
    <3>1. ToolsOf(b) = <<<<"add", "tax">>>>
      BY <2>8 DEF ToolsOf
    <3>2. QED
      BY <3>1, <1>2, <1>7
  <2>9. CASE b \in {"auditor", "payments", "chair"}
    <3>1. ToolsOf(b) = <<<<b>>>>
      BY <2>9 DEF ToolsOf
    <3>2. QED
      BY <3>1, <1>2, <1>8, <2>9
  <2>10. QED
    BY <1>1, <2>1, <2>2, <2>3, <2>4, <2>5, <2>6, <2>7, <2>8, <2>9
<1>10. QED
  BY <1>9 DEF N

\* The names of tools are sequences of words.
LEMMA ToolNamesType ==
  ASSUME NEW n \in ToolNames
  PROVE  n \in Seq(Words)
<1>1. ASSUME NEW b \in Backends, NEW w \in ToSet(ToolsOf(b))
      PROVE  Slug(b) \o w \in Seq(Words)
  <2>1. w \in Seq(Words)
    BY ToolsOfType DEF ToSet
  <2>2. QED
    BY <2>1, SlugType
<1>2. PICK b \in Backends : \E w \in ToSet(ToolsOf(b)) : n = Slug(b) \o w
  BY DEF ToolNames
<1>3. QED
  BY <1>1, <1>2

----------------------------------------------------------------------------
(* Resolving names. *)

\* A set of natural numbers has a least.
LEMMA LeastOfNaturals ==
  ASSUME NEW T, T \subseteq Nat, T # {}
  PROVE  Min(T) \in T /\ \A k \in T : Min(T) <= k
<1>1. OpToRel(<, Nat) = {ss \in Nat \X Nat : ss[1] < ss[2]}
  BY DEF OpToRel
<1>2. PICK x \in T : \A y \in T : ~(<<y, x>> \in OpToRel(<, Nat))
  BY NatLessThanWellFounded, WFMin
<1>3. \A y \in T : ~(y < x)
  BY <1>1, <1>2
<1>4. \A y \in T : x <= y
  BY <1>3
<1>5. QED
  BY <1>4 DEF Min

\* Of some places in a list there is a first.
LEMMA FirstPlace ==
  ASSUME NEW n, NEW I, I \subseteq 1..n, I # {}
  PROVE  Min(I) \in I
<1>1. I \subseteq Nat
  OBVIOUS
<1>2. QED
  BY <1>1, LeastOfNaturals

\* What seed.py finds for a distinct name has a distinct name.
LEMMA IdsDistinct ==
  ASSUME NEW W, NEW want, Distinct(want), NEW list, NEW t \in ids(want, list),
         t.name \in Seq(W)
  PROVE  Distinct(t.name)
<1> DEFINE I == {i \in 1..Len(list) : want \in SubSeqs(list[i].name)}
<1>1. I # {} /\ t = list[Min(I)]
  BY DEF ids, FirstWith, SelectInSeq
<1>2. I \subseteq 1..Len(list)
  OBVIOUS
<1> HIDE DEF I
<1>3. Min(I) \in I
  BY <1>1, <1>2, FirstPlace
<1>4. want \in SubSeqs(t.name)
  BY <1>1, <1>3 DEF I
<1>5. QED
  BY <1>4, OccursDistinct

\* So has what grant.py finds.
LEMMA MatchDistinct ==
  ASSUME NEW V, NEW W, NEW want \in Seq(V), Distinct(want), NEW list,
         NEW t \in match_tool_ids(want, list), t.name \in Seq(W)
  PROVE  Distinct(t.name)
<1> DEFINE E == {i \in 1..Len(list) : list[i].name = want}
           S == {i \in 1..Len(list) : IsSuffix(want, list[i].name)}
           O == {i \in 1..Len(list) : want \in SubSeqs(list[i].name)}
<1>1. \/ E # {} /\ t = list[Min(E)]
      \/ S # {} /\ t = list[Min(S)]
      \/ O # {} /\ t = list[Min(O)]
  BY DEF match_tool_ids, FirstWith, SelectInSeq
<1>2. E \subseteq 1..Len(list) /\ S \subseteq 1..Len(list) /\ O \subseteq 1..Len(list)
  OBVIOUS
<1> HIDE DEF E, S, O
<1>3. CASE E # {} /\ t = list[Min(E)]
  <2>1. Min(E) \in E
    BY <1>2, <1>3, FirstPlace
  <2>2. t.name = want
    BY <1>3, <2>1 DEF E
  <2>3. QED
    BY <2>2
<1>4. CASE S # {} /\ t = list[Min(S)]
  <2>1. Min(S) \in S
    BY <1>2, <1>4, FirstPlace
  <2>2. IsSuffix(want, t.name)
    BY <1>4, <2>1 DEF S
  <2>3. QED
    BY <2>2, EndsDistinct
<1>5. CASE O # {} /\ t = list[Min(O)]
  <2>1. Min(O) \in O
    BY <1>2, <1>5, FirstPlace
  <2>2. want \in SubSeqs(t.name)
    BY <1>5, <2>1 DEF O
  <2>3. QED
    BY <2>2, OccursDistinct
<1>6. QED
  BY <1>1, <1>3, <1>4, <1>5

----------------------------------------------------------------------------
(* What the calls do to the catalog. *)

\* The tools of all backends.
LEMMA KnownTools ==
  ASSUME NEW b \in Backends, NEW w \in ToSet(ToolsOf(b))
  PROVE  \/ b = "expense-db" /\ w = <<"list", "pending", "expenses">>
         \/ b = "expense-db" /\ w = <<"get", "expense">>
         \/ b = "expense-db" /\ w = <<"get", "receipt">>
         \/ b = "erp-payments" /\ w = <<"approve">>
         \/ b = "erp-payments" /\ w = <<"reimburse">>
         \/ b = "erp-payments" /\ w = <<"wire">>
         \/ b = "policy-docs" /\ w = <<"get", "policy">>
         \/ b = "policy-docs" /\ w = <<"wire", "limit">>
         \/ b = "notify" /\ w = <<"notify">>
         \/ b = "controlplane" /\ w = <<"register", "mcp", "server">>
         \/ b = "controlplane" /\ w = <<"list", "control", "plane">>
         \/ b = "controlplane" /\ w = <<"recent", "blocks">>
         \/ b = "controlplane" /\ w = <<"evaluate", "policy">>
         \/ b = "corpus" /\ w = <<"get", "corpus">>
         \/ b = "fx-rates" /\ w = <<"get", "fx", "rate">>
         \/ b = "fx-rates" /\ w = <<"list", "currencies">>
         \/ b = "fx-rates" /\ w = <<"convert">>
         \/ b = "sales-tax" /\ w = <<"add", "tax">>
         \/ b \in {"auditor", "payments", "chair"} /\ w = <<b>>
<1>1. \/ b = "expense-db"   \/ b = "erp-payments" \/ b = "policy-docs" \/ b = "notify"
      \/ b = "controlplane" \/ b = "corpus"       \/ b = "fx-rates"    \/ b = "sales-tax"
      \/ b \in {"auditor", "payments", "chair"}
  BY DEF Backends, MCP, A2A, ToSet
<1>2. CASE b = "expense-db"
  BY <1>2 DEF ToolsOf, ToSet
<1>3. CASE b = "erp-payments"
  BY <1>3 DEF ToolsOf, ToSet
<1>4. CASE b = "policy-docs"
  BY <1>4 DEF ToolsOf, ToSet
<1>5. CASE b = "notify"
  BY <1>5 DEF ToolsOf, ToSet
<1>6. CASE b = "controlplane"
  BY <1>6 DEF ToolsOf, ToSet, Operator
<1>7. CASE b = "corpus"
  BY <1>7 DEF ToolsOf, ToSet
<1>8. CASE b = "fx-rates"
  BY <1>8 DEF ToolsOf, ToSet
<1>9. CASE b = "sales-tax"
  BY <1>9 DEF ToolsOf, ToSet
<1>10. CASE b \in {"auditor", "payments", "chair"}
  BY <1>10 DEF ToolsOf, ToSet
<1>11. QED
  BY <1>1, <1>2, <1>3, <1>4, <1>5, <1>6, <1>7, <1>8, <1>9, <1>10

\* The last words of the tools' names.
LEMMA LastWords ==
  ASSUME NEW b \in Backends, NEW i \in DOMAIN ToolsOf(b), NEW w, w = ToolsOf(b)[i]
  PROVE  \/ b = "expense-db" /\ i = 1 /\ w[Len(w)] = "expenses"
         \/ b = "expense-db" /\ i = 2 /\ w[Len(w)] = "expense"
         \/ b = "expense-db" /\ i = 3 /\ w[Len(w)] = "receipt"
         \/ b = "erp-payments" /\ i = 1 /\ w[Len(w)] = "approve"
         \/ b = "erp-payments" /\ i = 2 /\ w[Len(w)] = "reimburse"
         \/ b = "erp-payments" /\ i = 3 /\ w[Len(w)] = "wire"
         \/ b = "policy-docs" /\ i = 1 /\ Len(w) = 2 /\ w[2] = "policy" /\ w[1] = "get"
         \/ b = "policy-docs" /\ i = 2 /\ w[Len(w)] = "limit"
         \/ b = "notify" /\ i = 1 /\ w[Len(w)] = "notify"
         \/ b = "controlplane" /\ i = 1 /\ w[Len(w)] = "server"
         \/ b = "controlplane" /\ i = 2 /\ w[Len(w)] = "plane"
         \/ b = "controlplane" /\ i = 3 /\ w[Len(w)] = "blocks"
         \/ b = "controlplane" /\ i = 4 /\ Len(w) = 2 /\ w[2] = "policy" /\ w[1] = "evaluate"
         \/ b = "corpus" /\ i = 1 /\ w[Len(w)] = "corpus"
         \/ b = "fx-rates" /\ i = 1 /\ w[Len(w)] = "rate"
         \/ b = "fx-rates" /\ i = 2 /\ w[Len(w)] = "currencies"
         \/ b = "fx-rates" /\ i = 3 /\ w[Len(w)] = "convert"
         \/ b = "sales-tax" /\ i = 1 /\ w[Len(w)] = "tax"
         \/ b \in {"auditor", "payments", "chair"} /\ i = 1 /\ w[Len(w)] = b
<1>1. \/ b = "expense-db"   \/ b = "erp-payments" \/ b = "policy-docs" \/ b = "notify"
      \/ b = "controlplane" \/ b = "corpus"       \/ b = "fx-rates"    \/ b = "sales-tax"
      \/ b \in {"auditor", "payments", "chair"}
  BY DEF Backends, MCP, A2A, ToSet
<1>2. CASE b = "expense-db"
  <2>1. ToolsOf(b) = <<<<"list", "pending", "expenses">>, <<"get", "expense">>, <<"get", "receipt">>>>
    BY <1>2 DEF ToolsOf
  <2>2. \/ i = 1 /\ w = <<"list", "pending", "expenses">>
        \/ i = 2 /\ w = <<"get", "expense">>
        \/ i = 3 /\ w = <<"get", "receipt">>
    BY <2>1
  <2>3. w = <<"list", "pending", "expenses">> => w[Len(w)] = "expenses"
    OBVIOUS
  <2>4. w = <<"get", "expense">> => w[Len(w)] = "expense"
    OBVIOUS
  <2>5. w = <<"get", "receipt">> => w[Len(w)] = "receipt"
    OBVIOUS
  <2>6. QED
    BY <1>2, <2>2, <2>3, <2>4, <2>5
<1>3. CASE b = "erp-payments"
  <2>1. ToolsOf(b) = <<<<"approve">>, <<"reimburse">>, <<"wire">>>>
    BY <1>3 DEF ToolsOf
  <2>2. \/ i = 1 /\ w = <<"approve">>
        \/ i = 2 /\ w = <<"reimburse">>
        \/ i = 3 /\ w = <<"wire">>
    BY <2>1
  <2>3. w = <<"approve">> => w[Len(w)] = "approve"
    OBVIOUS
  <2>4. w = <<"reimburse">> => w[Len(w)] = "reimburse"
    OBVIOUS
  <2>5. w = <<"wire">> => w[Len(w)] = "wire"
    OBVIOUS
  <2>6. QED
    BY <1>3, <2>2, <2>3, <2>4, <2>5
<1>4. CASE b = "policy-docs"
  <2>1. ToolsOf(b) = <<<<"get", "policy">>, <<"wire", "limit">>>>
    BY <1>4 DEF ToolsOf
  <2>2. \/ i = 1 /\ w = <<"get", "policy">>
        \/ i = 2 /\ w = <<"wire", "limit">>
    BY <2>1
  <2>3. w = <<"get", "policy">> => Len(w) = 2 /\ w[2] = "policy" /\ w[1] = "get"
    OBVIOUS
  <2>4. w = <<"wire", "limit">> => w[Len(w)] = "limit"
    OBVIOUS
  <2>5. QED
    BY <1>4, <2>2, <2>3, <2>4
<1>5. CASE b = "notify"
  <2>1. ToolsOf(b) = <<<<"notify">>>>
    BY <1>5 DEF ToolsOf
  <2>2. i = 1 /\ w = <<"notify">>
    BY <2>1
  <2>3. QED
    BY <1>5, <2>2
<1>6. CASE b = "controlplane"
  <2>1. ToolsOf(b) =
          <<<<"register", "mcp", "server">>, <<"list", "control", "plane">>,
            <<"recent", "blocks">>, <<"evaluate", "policy">>>>
    BY <1>6 DEF ToolsOf, Operator
  <2>2. \/ i = 1 /\ w = <<"register", "mcp", "server">>
        \/ i = 2 /\ w = <<"list", "control", "plane">>
        \/ i = 3 /\ w = <<"recent", "blocks">>
        \/ i = 4 /\ w = <<"evaluate", "policy">>
    BY <2>1
  <2>3. w = <<"register", "mcp", "server">> => w[Len(w)] = "server"
    OBVIOUS
  <2>4. w = <<"list", "control", "plane">> => w[Len(w)] = "plane"
    OBVIOUS
  <2>5. w = <<"recent", "blocks">> => w[Len(w)] = "blocks"
    OBVIOUS
  <2>6. w = <<"evaluate", "policy">> => Len(w) = 2 /\ w[2] = "policy" /\ w[1] = "evaluate"
    OBVIOUS
  <2>7. QED
    BY <1>6, <2>2, <2>3, <2>4, <2>5, <2>6, SMTT(20)
<1>7. CASE b = "corpus"
  <2>1. ToolsOf(b) = <<<<"get", "corpus">>>>
    BY <1>7 DEF ToolsOf
  <2>2. i = 1 /\ w = <<"get", "corpus">>
    BY <2>1
  <2>3. QED
    BY <1>7, <2>2
<1>8. CASE b = "fx-rates"
  <2>1. ToolsOf(b) = <<<<"get", "fx", "rate">>, <<"list", "currencies">>, <<"convert">>>>
    BY <1>8 DEF ToolsOf
  <2>2. \/ i = 1 /\ w = <<"get", "fx", "rate">>
        \/ i = 2 /\ w = <<"list", "currencies">>
        \/ i = 3 /\ w = <<"convert">>
    BY <2>1
  <2>3. w = <<"get", "fx", "rate">> => w[Len(w)] = "rate"
    OBVIOUS
  <2>4. w = <<"list", "currencies">> => w[Len(w)] = "currencies"
    OBVIOUS
  <2>5. w = <<"convert">> => w[Len(w)] = "convert"
    OBVIOUS
  <2>6. QED
    BY <1>8, <2>2, <2>3, <2>4, <2>5, SMTT(20)
<1>9. CASE b = "sales-tax"
  <2>1. ToolsOf(b) = <<<<"add", "tax">>>>
    BY <1>9 DEF ToolsOf
  <2>2. i = 1 /\ w = <<"add", "tax">>
    BY <2>1
  <2>3. QED
    BY <1>9, <2>2
<1>10. CASE b \in {"auditor", "payments", "chair"}
  <2>1. ToolsOf(b) = <<<<b>>>>
    BY <1>10 DEF ToolsOf
  <2>2. i = 1 /\ w = <<b>>
    BY <2>1
  <2>3. QED
    BY <1>10, <2>2
<1>11. QED
  BY <1>1, <1>2, <1>3, <1>4, <1>5, <1>6, <1>7, <1>8, <1>9, <1>10

\* A tool is known by the last words of its name.
LEMMA KnownByLastWords ==
  ASSUME NEW b \in Backends, NEW w \in ToSet(ToolsOf(b)),
         NEW c \in Backends, NEW v \in ToSet(ToolsOf(c)),
         w[Len(w)] = v[Len(v)],
         Len(w) > 1 /\ Len(v) > 1 => w[Len(w) - 1] = v[Len(v) - 1]
  PROVE  b = c /\ w = v
<1>1. PICK i \in DOMAIN ToolsOf(b) : w = ToolsOf(b)[i]
  BY DEF ToSet
<1>2. PICK j \in DOMAIN ToolsOf(c) : v = ToolsOf(c)[j]
  BY DEF ToSet
<1>3. b = c /\ i = j
  BY <1>1, <1>2, LastWords
<1>4. QED
  BY <1>1, <1>2, <1>3

\* A name that ends with another has its words at the end.
LEMMA SuffixPlaces ==
  ASSUME NEW V, NEW W, NEW want \in Seq(V), NEW name \in Seq(W), IsSuffix(want, name)
  PROVE  /\ Len(want) <= Len(name)
         /\ \A k \in 1..Len(want) : want[k] = name[Len(name) - Len(want) + k]
<1> DEFINE l == Len(want)
           n == Len(name)
<1>1. /\ Reverse(want) \in Seq(V) /\ Len(Reverse(want)) = l
      /\ Reverse(name) \in Seq(W) /\ Len(Reverse(name)) = n
      /\ \A i \in 1..l : Reverse(want)[i] = want[l - i + 1]
      /\ \A i \in 1..n : Reverse(name)[i] = name[n - i + 1]
  BY DEF Reverse
<1>2. l <= n /\ \A i \in 1..l : Reverse(want)[i] = Reverse(name)[i]
  <2>1. l <= n /\ SubSeq(Reverse(want), 1, l) = SubSeq(Reverse(name), 1, l)
    BY <1>1 DEF IsSuffix, IsPrefix
  <2>2. \A i \in 1..l : /\ SubSeq(Reverse(want), 1, l)[i] = Reverse(want)[i]
                        /\ SubSeq(Reverse(name), 1, l)[i] = Reverse(name)[i]
    BY <1>1, <2>1
  <2>3. QED
    BY <2>1, <2>2
<1>3. ASSUME NEW k \in 1..l
      PROVE  want[k] = name[n - l + k]
  <2>1. l \in Nat /\ n \in Nat /\ l <= n
    BY <1>2
  <2>2. PICK i \in 1..l : /\ i \in 1..n
                          /\ l - i + 1 = k /\ n - i + 1 = n - l + k /\ n - l + k \in 1..n
    BY <2>1, FromTheEnd
  <2>3. Reverse(want)[i] = want[l - i + 1] /\ Reverse(name)[i] = name[n - i + 1]
    BY <1>1, <2>2
  <2>4. Reverse(want)[i] = want[k] /\ Reverse(name)[i] = name[n - l + k]
    BY <2>2, <2>3
  <2>5. QED
    BY <1>2, <2>4
<1>4. QED
  BY <1>2, <1>3

\* A name is behind its prefix, place by place.
LEMMA BehindPrefix ==
  ASSUME NEW W, NEW s \in Seq(W), NEW w \in Seq(W)
  PROVE  /\ s \o w \in Seq(W) /\ Len(s \o w) = Len(s) + Len(w)
         /\ \A k \in 1..Len(w) : (s \o w)[Len(s) + k] = w[k]
<1>1. /\ s \o w \in Seq(W) /\ Len(s \o w) = Len(s) + Len(w)
      /\ \A k \in 1..(Len(s) + Len(w)) :
           (s \o w)[k] = IF k <= Len(s) THEN s[k] ELSE w[k - Len(s)]
  BY ConcatProperties
<1>2. ASSUME NEW k \in 1..Len(w)
      PROVE  (s \o w)[Len(s) + k] = w[k]
  <2>1. /\ Len(s) \in Nat /\ Len(w) \in Nat
        /\ Len(s) + k \in 1..(Len(s) + Len(w)) /\ ~(Len(s) + k <= Len(s))
        /\ Len(s) + k - Len(s) = k
    OBVIOUS
  <2>2. QED
    BY <1>1, <2>1
<1>3. QED
  BY <1>1, <1>2

\* A name with a prefix ends with it, and it occurs in it.
LEMMA EndsAndOccurs ==
  ASSUME NEW W, NEW s \in Seq(W), NEW w \in Seq(W)
  PROVE  IsSuffix(w, s \o w) /\ w \in SubSeqs(s \o w)
<1> DEFINE n == s \o w
           l == Len(w)
           m == Len(s)
<1>1. /\ n \in Seq(W) /\ Len(n) = m + l /\ m \in Nat /\ l \in Nat
      /\ \A k \in 1..l : n[m + k] = w[k]
  BY BehindPrefix
<1> HIDE DEF n
<1>2. IsSuffix(w, n)
  <2>1. /\ Reverse(w) \in Seq(W) /\ Len(Reverse(w)) = l
        /\ Reverse(n) \in Seq(W) /\ Len(Reverse(n)) = m + l
        /\ \A i \in 1..l : Reverse(w)[i] = w[l - i + 1]
        /\ \A i \in 1..(m + l) : Reverse(n)[i] = n[m + l - i + 1]
    BY <1>1 DEF Reverse
  <2>2. ASSUME NEW i \in 1..l
        PROVE  Reverse(w)[i] = Reverse(n)[i]
    <3>1. l - i + 1 \in 1..l /\ i \in 1..(m + l) /\ m + l - i + 1 = m + (l - i + 1)
      BY <1>1
    <3>2. Reverse(n)[i] = n[m + (l - i + 1)]
      BY <2>1, <3>1
    <3>3. QED
      BY <1>1, <2>1, <3>1, <3>2
  <2> DEFINE A == Reverse(w)
             B == Reverse(n)
  <2>3. SubSeq(A, 1, l) = SubSeq(B, 1, l)
    <3>1. l <= m + l
      BY <1>1
    <3>2. /\ A \in Seq(W) /\ Len(A) = l /\ B \in Seq(W) /\ Len(B) = m + l
          /\ \A i \in 1..l : A[i] = B[i]
      BY <2>1, <2>2
    <3> HIDE DEF A, B
    <3>3. \A i \in 1..l : A[i] \in W /\ B[i] \in W
      BY <1>1, <3>1, <3>2
    <3>4. /\ SubSeq(A, 1, l) = [i \in 1..l |-> A[i]]
          /\ SubSeq(B, 1, l) = [i \in 1..l |-> B[i]]
      BY <1>1, <3>2
    <3>5. QED
      BY <3>2, <3>4
  <2>4. l <= m + l
    BY <1>1
  <2>5. QED
    BY <2>1, <2>3, <2>4 DEF IsSuffix, IsPrefix
<1>3. w \in SubSeqs(n)
  <2>1. w = SubSeq(n, m + 1, m + l)
    <3>1. \A i \in (m + 1)..(m + l) : n[i] \in W
      BY <1>1
    <3>2. m + 1 \in Int /\ m + l \in Int
      BY <1>1
    <3>3. /\ SubSeq(n, m + 1, m + l) \in Seq(W)
          /\ Len(SubSeq(n, m + 1, m + l)) = IF m + 1 <= m + l THEN m + l - (m + 1) + 1 ELSE 0
          /\ \A k \in 1..(m + l - (m + 1) + 1) : SubSeq(n, m + 1, m + l)[k] = n[m + 1 + k - 1]
      BY <3>1, <3>2, SubSeqProperties
    <3>4. m + l - (m + 1) + 1 = l /\ (~(m + 1 <= m + l) => l = 0)
      BY <1>1
    <3>5. \A k \in 1..l : m + 1 + k - 1 = m + k
      BY <1>1
    <3> DEFINE u == SubSeq(n, m + 1, m + l)
    <3>6. u \in Seq(W) /\ Len(u) = l /\ \A k \in 1..l : u[k] = w[k]
      BY <1>1, <3>3, <3>4, <3>5
    <3> HIDE DEF u
    <3>7. u = w
      BY <3>6, SeqEqual
    <3>8. QED
      BY <3>7 DEF u
  <2>2. m \in 0..Len(n) /\ m + l \in 0..Len(n)
    BY <1>1
  <2> DEFINE j == m + l
  <2>3. w = SubSeq(n, m + 1, j) /\ j \in 0..Len(n)
    BY <2>1, <2>2
  <2> HIDE DEF j, n, l, m
  <2>4. \E i, k \in 0..Len(n) : w = SubSeq(n, i + 1, k)
    BY <2>2, <2>3
  <2>5. QED
    BY <2>4 DEF SubSeqs
<1>4. QED
  BY <1>2, <1>3 DEF n

\* What occurs in a name has its places there, one behind the other.
LEMMA OccursPlaces ==
  ASSUME NEW W, NEW want, NEW name \in Seq(W), want \in SubSeqs(name)
  PROVE  \E i \in Nat : \A k \in DOMAIN want : k + i \in DOMAIN name /\ want[k] = name[k + i]
<1>1. PICK i \in 0..Len(name), j \in 0..Len(name) : want = SubSeq(name, i + 1, j)
  BY DEF SubSeqs
<1>2. \A k \in DOMAIN want : k + i \in DOMAIN name /\ want[k] = name[k + i]
  BY <1>1
<1>3. QED
  BY <1>2

\* A name that one of a backend's own ends is the name of that one.
LEMMA EndsOnlyItsOwn ==
  ASSUME NEW b \in Backends, NEW w \in ToSet(ToolsOf(b)), NEW name \in ToolNames,
         IsSuffix(w, name)
  PROVE  name = Slug(b) \o w
<1>1. PICK c \in Backends : \E v \in ToSet(ToolsOf(c)) : name = Slug(c) \o v
  BY DEF ToolNames
<1>2. PICK v \in ToSet(ToolsOf(c)) : name = Slug(c) \o v
  BY <1>1
<1>3. /\ w \in Seq(Words) /\ v \in Seq(Words) /\ Slug(c) \in Seq(Words) /\ name \in Seq(Words)
      /\ w # <<>> /\ v # <<>>
  <2>1. ASSUME NEW d \in Backends, NEW u \in ToSet(ToolsOf(d))
        PROVE  u \in Seq(Words) /\ u # <<>>
    <3>1. ToolsOf(d) \in Seq(Seq(Words))
      BY ToolsOfType
    <3>2. u \in Seq(Words)
      BY <3>1 DEF ToSet
    <3>3. u # <<>>
      BY KnownTools
    <3>4. QED
      BY <3>2, <3>3
  <2>2. QED
    BY <2>1, SlugType, ToolNamesType
<1> DEFINE l == Len(w)
           m == Len(v)
           s == Len(Slug(c))
           n == Len(name)
<1>4. /\ n = s + m /\ l <= n
      /\ \A k \in 1..l : w[k] = name[n - l + k]
      /\ \A k \in 1..m : v[k] = name[s + k]
  <2>1. n = s + m /\ \A k \in 1..m : (Slug(c) \o v)[s + k] = v[k]
    BY <1>2, <1>3, BehindPrefix
  <2>2. l <= n /\ \A k \in 1..l : w[k] = name[n - l + k]
    BY <1>3, SuffixPlaces
  <2>3. QED
    BY <1>2, <2>1, <2>2
<1>5. l \in Nat \ {0} /\ m \in Nat \ {0} /\ s \in Nat
  BY <1>3
<1> HIDE DEF l, m, s, n
<1>6. w[l] = v[m]
  <2>1. l \in 1..l /\ n - l + l = n /\ m \in 1..m /\ s + m = n
    BY <1>4, <1>5
  <2>2. w[l] = name[n] /\ v[m] = name[n]
    BY <1>4, <2>1
  <2>3. QED
    BY <2>2
<1>7. ASSUME l > 1, m > 1
      PROVE  w[l - 1] = v[m - 1]
  <2>1. l - 1 \in 1..l /\ n - l + (l - 1) = n - 1 /\ m - 1 \in 1..m /\ s + (m - 1) = n - 1
    BY <1>4, <1>5, <1>7
  <2>2. w[l - 1] = name[n - 1] /\ v[m - 1] = name[n - 1]
    BY <1>4, <2>1
  <2>3. QED
    BY <2>2
<1>8. b = c /\ w = v
  BY <1>6, <1>7, KnownByLastWords DEF l, m
<1>9. QED
  BY <1>2, <1>8

\* No tool is listed under the name that a backend has for it or for another.
LEMMA NeverItsOwn ==
  ASSUME NEW b \in Backends, NEW w \in ToSet(ToolsOf(b)), NEW name \in ToolNames
  PROVE  name # w
<1> SUFFICES ASSUME name = w
             PROVE  FALSE
  OBVIOUS
<1>1. name \in Seq(Words) /\ Slug(b) \in Seq(Words)
  BY SlugType, ToolNamesType
<1>2. <<>> \in Seq(Words) /\ <<>> \o name = name
  BY <1>1
<1>3. IsSuffix(name, name)
  BY <1>1, <1>2, EndsAndOccurs
<1>4. name = Slug(b) \o name
  BY <1>3, EndsOnlyItsOwn
<1>5. Len(name) = Len(Slug(b)) + Len(name)
  BY <1>1, <1>4, BehindPrefix
<1>6. Len(Slug(b)) # 0
  BY DEF Slug
<1>7. QED
  BY <1>1, <1>5, <1>6

\* Only the tool u of the backend d has all of these words in its name.
OnlyTool(words, d, u) ==
  \A b \in Backends : \A w \in ToSet(ToolsOf(b)) :
    words \subseteq ToSet(Slug(b)) \cup ToSet(w) => b = d /\ w = u

\* What the analyst is to have is found by these words.
LEMMA OnlyTools ==
  /\ OnlyTool({"pending"}, "expense-db", <<"list", "pending", "expenses">>)
  /\ OnlyTool({"receipt"}, "expense-db", <<"get", "receipt">>)
  /\ OnlyTool({"approve"}, "erp-payments", <<"approve">>)
  /\ OnlyTool({"reimburse"}, "erp-payments", <<"reimburse">>)
  /\ OnlyTool({"limit"}, "policy-docs", <<"wire", "limit">>)
  /\ OnlyTool({"auditor"}, "auditor", <<"auditor">>)
  /\ OnlyTool({"get", "policy"}, "policy-docs", <<"get", "policy">>)
  /\ \A b \in Backends : \A w \in ToSet(ToolsOf(b)) :
       {"get", "expense"} \subseteq ToSet(Slug(b)) \cup ToSet(w) =>
         b = "expense-db" /\ (w = <<"get", "expense">> \/ w = <<"get", "receipt">>)
<1> DEFINE N(b, w) == ToSet(Slug(b)) \cup ToSet(w)
<1>1. ASSUME NEW b \in Backends, NEW w \in ToSet(ToolsOf(b))
      PROVE  /\ "pending" \in N(b, w) => b = "expense-db" /\ w = <<"list", "pending", "expenses">>
             /\ "receipt" \in N(b, w) => b = "expense-db" /\ w = <<"get", "receipt">>
             /\ "approve" \in N(b, w) => b = "erp-payments" /\ w = <<"approve">>
             /\ "reimburse" \in N(b, w) => b = "erp-payments" /\ w = <<"reimburse">>
             /\ "limit" \in N(b, w) => b = "policy-docs" /\ w = <<"wire", "limit">>
             /\ "auditor" \in N(b, w) => b = "auditor" /\ w = <<"auditor">>
             /\ "get" \in N(b, w) /\ "policy" \in N(b, w) => b = "policy-docs" /\ w = <<"get", "policy">>
             /\ "get" \in N(b, w) /\ "expense" \in N(b, w) =>
                  b = "expense-db" /\ (w = <<"get", "expense">> \/ w = <<"get", "receipt">>)
  <2>1. \/ b = "expense-db"   \/ b = "erp-payments" \/ b = "policy-docs" \/ b = "notify"
        \/ b = "controlplane" \/ b = "corpus"       \/ b = "fx-rates"    \/ b = "sales-tax"
        \/ b \in {"auditor", "payments", "chair"}
    BY DEF Backends, MCP, A2A, ToSet
  <2>2. CASE b = "expense-db"
    <3>1. ToSet(Slug(b)) = {"expense", "db"}
      BY <2>2 DEF Slug, ToSet, A2A
    <3>2. \/ w = <<"list", "pending", "expenses">>
          \/ w = <<"get", "expense">>
          \/ w = <<"get", "receipt">>
      BY <2>2, KnownTools
    <3>3. w = <<"list", "pending", "expenses">> => ToSet(w) = {"list", "pending", "expenses"}
      BY DEF ToSet
    <3>4. w = <<"get", "expense">> => ToSet(w) = {"get", "expense"}
      BY DEF ToSet
    <3>5. w = <<"get", "receipt">> => ToSet(w) = {"get", "receipt"}
      BY DEF ToSet
    <3>6. QED
      BY <2>2, <3>1, <3>2, <3>3, <3>4, <3>5
  <2>3. CASE b = "erp-payments"
    <3>1. ToSet(Slug(b)) = {"erp", "payments"}
      BY <2>3 DEF Slug, ToSet, A2A
    <3>2. w = <<"approve">> \/ w = <<"reimburse">> \/ w = <<"wire">>
      BY <2>3, KnownTools
    <3>3. w = <<"approve">> => ToSet(w) = {"approve"}
      BY DEF ToSet
    <3>4. w = <<"reimburse">> => ToSet(w) = {"reimburse"}
      BY DEF ToSet
    <3>5. w = <<"wire">> => ToSet(w) = {"wire"}
      BY DEF ToSet
    <3>6. QED
      BY <2>3, <3>1, <3>2, <3>3, <3>4, <3>5
  <2>4. CASE b = "policy-docs"
    <3>1. ToSet(Slug(b)) = {"policy", "docs"}
      BY <2>4 DEF Slug, ToSet, A2A
    <3>2. w = <<"get", "policy">> \/ w = <<"wire", "limit">>
      BY <2>4, KnownTools
    <3>3. w = <<"get", "policy">> => ToSet(w) = {"get", "policy"}
      BY DEF ToSet
    <3>4. w = <<"wire", "limit">> => ToSet(w) = {"wire", "limit"}
      BY DEF ToSet
    <3>5. QED
      BY <2>4, <3>1, <3>2, <3>3, <3>4
  <2>5. CASE b = "notify"
    <3>1. ToSet(Slug(b)) = {"notify"}
      BY <2>5 DEF Slug, ToSet, A2A
    <3>2. w = <<"notify">>
      BY <2>5, KnownTools
    <3>3. w = <<"notify">> => ToSet(w) = {"notify"}
      BY DEF ToSet
    <3>4. QED
      BY <2>5, <3>1, <3>2, <3>3
  <2>6. CASE b = "controlplane"
    <3>1. ToSet(Slug(b)) = {"controlplane"}
      BY <2>6 DEF Slug, ToSet, A2A
    <3>2. \/ w = <<"register", "mcp", "server">>
          \/ w = <<"list", "control", "plane">>
          \/ w = <<"recent", "blocks">>
          \/ w = <<"evaluate", "policy">>
      BY <2>6, KnownTools
    <3>3. w = <<"register", "mcp", "server">> => ToSet(w) = {"register", "mcp", "server"}
      BY DEF ToSet
    <3>4. w = <<"list", "control", "plane">> => ToSet(w) = {"list", "control", "plane"}
      BY DEF ToSet
    <3>5. w = <<"recent", "blocks">> => ToSet(w) = {"recent", "blocks"}
      BY DEF ToSet
    <3>6. w = <<"evaluate", "policy">> => ToSet(w) = {"evaluate", "policy"}
      BY DEF ToSet
    <3>7. QED
      BY <2>6, <3>1, <3>2, <3>3, <3>4, <3>5, <3>6
  <2>7. CASE b = "corpus"
    <3>1. ToSet(Slug(b)) = {"corpus"}
      BY <2>7 DEF Slug, ToSet, A2A
    <3>2. w = <<"get", "corpus">>
      BY <2>7, KnownTools
    <3>3. w = <<"get", "corpus">> => ToSet(w) = {"get", "corpus"}
      BY DEF ToSet
    <3>4. QED
      BY <2>7, <3>1, <3>2, <3>3
  <2>8. CASE b = "fx-rates"
    <3>1. ToSet(Slug(b)) = {"fx", "rates"}
      BY <2>8 DEF Slug, ToSet, A2A
    <3>2. w = <<"get", "fx", "rate">> \/ w = <<"list", "currencies">> \/ w = <<"convert">>
      BY <2>8, KnownTools
    <3>3. w = <<"get", "fx", "rate">> => ToSet(w) = {"get", "fx", "rate"}
      BY DEF ToSet
    <3>4. w = <<"list", "currencies">> => ToSet(w) = {"list", "currencies"}
      BY DEF ToSet
    <3>5. w = <<"convert">> => ToSet(w) = {"convert"}
      BY DEF ToSet
    <3>6. QED
      BY <2>8, <3>1, <3>2, <3>3, <3>4, <3>5
  <2>9. CASE b = "sales-tax"
    <3>1. ToSet(Slug(b)) = {"sales", "tax"}
      BY <2>9 DEF Slug, ToSet, A2A
    <3>2. w = <<"add", "tax">>
      BY <2>9, KnownTools
    <3>3. w = <<"add", "tax">> => ToSet(w) = {"add", "tax"}
      BY DEF ToSet
    <3>4. QED
      BY <2>9, <3>1, <3>2, <3>3
  <2>10. CASE b \in {"auditor", "payments", "chair"}
    <3>1. ToSet(Slug(b)) = {"a2a"}
      BY <2>10 DEF Slug, ToSet, A2A
    <3>2. w = <<b>>
      BY <2>10, KnownTools
    <3>3. ToSet(w) = {b}
      BY <3>2 DEF ToSet
    <3>4. QED
      BY <2>10, <3>1, <3>2, <3>3
  <2>11. QED
    BY <2>1, <2>2, <2>3, <2>4, <2>5, <2>6, <2>7, <2>8, <2>9, <2>10
<1>2. OnlyTool({"pending"}, "expense-db", <<"list", "pending", "expenses">>)
  BY <1>1, SMT DEF OnlyTool
<1>3. OnlyTool({"receipt"}, "expense-db", <<"get", "receipt">>)
  BY <1>1, SMT DEF OnlyTool
<1>4. OnlyTool({"approve"}, "erp-payments", <<"approve">>)
  BY <1>1, SMT DEF OnlyTool
<1>5. OnlyTool({"reimburse"}, "erp-payments", <<"reimburse">>)
  BY <1>1, SMT DEF OnlyTool
<1>6. OnlyTool({"limit"}, "policy-docs", <<"wire", "limit">>)
  BY <1>1, SMT DEF OnlyTool
<1>7. OnlyTool({"auditor"}, "auditor", <<"auditor">>)
  BY <1>1, SMT DEF OnlyTool
<1>8. OnlyTool({"get", "policy"}, "policy-docs", <<"get", "policy">>)
  BY <1>1, SMT DEF OnlyTool
<1>9. \A b \in Backends : \A w \in ToSet(ToolsOf(b)) :
        {"get", "expense"} \subseteq ToSet(Slug(b)) \cup ToSet(w) =>
          b = "expense-db" /\ (w = <<"get", "expense">> \/ w = <<"get", "receipt">>)
  BY <1>1, SMT
<1>10. QED
  BY <1>2, <1>3, <1>4, <1>5, <1>6, <1>7, <1>8, <1>9

\* The words of a name are those of its prefix and of what it ends with.
LEMMA WordsOfName ==
  ASSUME NEW W, NEW s \in Seq(W), NEW w \in Seq(W)
  PROVE  ToSet(s \o w) = ToSet(s) \cup ToSet(w)
<1>1. /\ s \o w \in Seq(W) /\ Len(s \o w) = Len(s) + Len(w)
      /\ \A k \in 1..(Len(s) + Len(w)) :
           (s \o w)[k] = IF k <= Len(s) THEN s[k] ELSE w[k - Len(s)]
  BY ConcatProperties
<1> DEFINE n == s \o w
<1> HIDE DEF n
<1>2. /\ DOMAIN s = 1..Len(s) /\ DOMAIN w = 1..Len(w) /\ Len(s) \in Nat /\ Len(w) \in Nat
      /\ DOMAIN n = 1..(Len(s) + Len(w))
      /\ \A k \in 1..(Len(s) + Len(w)) : n[k] = IF k <= Len(s) THEN s[k] ELSE w[k - Len(s)]
  BY <1>1 DEF n
<1>3. ASSUME NEW k \in DOMAIN n
      PROVE  n[k] \in ToSet(s) \cup ToSet(w)
  BY <1>2 DEF ToSet
<1>4. ASSUME NEW k \in DOMAIN s
      PROVE  s[k] \in ToSet(n)
  <2>1. k \in DOMAIN n /\ n[k] = s[k]
    BY <1>2
  <2>2. QED
    BY <2>1 DEF ToSet
<1>5. ASSUME NEW k \in DOMAIN w
      PROVE  w[k] \in ToSet(n)
  <2>1. Len(s) + k \in DOMAIN n /\ n[Len(s) + k] = w[k]
    BY <1>1, <1>2, BehindPrefix DEF n
  <2>2. QED
    BY <2>1 DEF ToSet
<1>6. ToSet(n) = ToSet(s) \cup ToSet(w)
  BY <1>3, <1>4, <1>5 DEF ToSet
<1>7. QED
  BY <1>6 DEF n

\* The tools have names of their own.
LEMMA OwnNames ==
  ASSUME NEW b \in Backends, NEW w \in ToSet(ToolsOf(b))
  PROVE  w \in Seq(Words) /\ w # <<>> /\ Slug(b) \in Seq(Words)
<1>1. ToolsOf(b) \in Seq(Seq(Words))
  BY ToolsOfType
<1>2. w \in Seq(Words)
  BY <1>1 DEF ToSet
<1>3. w # <<>>
  BY KnownTools
<1>4. QED
  BY <1>2, <1>3, SlugType

\* A name in which one that the analyst is to have occurs is the name of that
\* one.
LEMMA OccursOnlyItsOwn ==
  ASSUME NEW b \in Backends, NEW w \in ToSet(ToolsOf(b)), NEW want \in ToSet(FinOps.wants),
         want \in {w, Slug(b) \o w}, NEW name \in ToolNames, want \in SubSeqs(name)
  PROVE  name = Slug(b) \o w
<1>1. PICK c \in Backends : \E v \in ToSet(ToolsOf(c)) : name = Slug(c) \o v
  BY DEF ToolNames
<1>2. PICK v \in ToSet(ToolsOf(c)) : name = Slug(c) \o v
  BY <1>1
<1> DEFINE M == ToSet(Slug(b)) \cup ToSet(w)
           N == ToSet(Slug(c)) \cup ToSet(v)
<1>3. PICK i \in Nat : \A k \in DOMAIN want : k + i \in DOMAIN name /\ want[k] = name[k + i]
  BY OccursPlaces, ToolNamesType
<1>4. ToSet(want) \subseteq M /\ ToSet(want) \subseteq N /\ ToSet(w) \subseteq ToSet(want)
  <2>1. ToSet(name) = N /\ ToSet(Slug(b) \o w) = M
    BY <1>2, OwnNames, WordsOfName
  <2>2. ToSet(want) \subseteq ToSet(name)
    BY <1>3 DEF ToSet
  <2>3. QED
    BY <2>1, <2>2
<1>5. /\ "pending" \in ToSet(want) => b = c /\ w = v
      /\ "receipt" \in ToSet(want) => b = c /\ w = v
      /\ "approve" \in ToSet(want) => b = c /\ w = v
      /\ "reimburse" \in ToSet(want) => b = c /\ w = v
      /\ "limit" \in ToSet(want) => b = c /\ w = v
      /\ "auditor" \in ToSet(want) => b = c /\ w = v
      /\ {"get", "policy"} \subseteq ToSet(want) => b = c /\ w = v
  <2>1. ASSUME NEW S, NEW d, NEW u, OnlyTool(S, d, u), S \subseteq ToSet(want)
        PROVE  b = c /\ w = v
    BY <1>4, <2>1 DEF OnlyTool
  <2> HIDE DEF M, N
  <2>2. QED
    BY <2>1, OnlyTools
<1>6. ASSUME want = <<"get", "expense">>
      PROVE  b = c /\ w = v
  <2>1. ToSet(want) = {"get", "expense"}
    BY <1>6 DEF ToSet
  <2>2. w # <<"get", "receipt">>
    BY <1>4, <2>1 DEF ToSet
  <2>3. /\ b = "expense-db" /\ w \in {<<"get", "expense">>, <<"get", "receipt">>}
        /\ c = "expense-db" /\ v \in {<<"get", "expense">>, <<"get", "receipt">>}
    BY <1>4, <2>1, OnlyTools
  <2>4. v # <<"get", "receipt">>
    <3> SUFFICES ASSUME v = <<"get", "receipt">>
                 PROVE  FALSE
      OBVIOUS
    <3>1. name = <<"expense", "db">> \o <<"get", "receipt">>
      <4>1. Slug(c) = <<"expense", "db">>
        BY <2>3 DEF Slug, ToSet, A2A
      <4>2. QED
        BY <1>2, <4>1
    <3>2. DOMAIN name = 1..4 /\ name[1] = "expense" /\ name[2] = "db" /\ name[4] = "receipt"
      BY <3>1
    <3>3. /\ 1 + i \in DOMAIN name /\ name[1 + i] = "get"
          /\ 2 + i \in DOMAIN name /\ name[2 + i] = "expense"
      BY <1>3, <1>6
    <3>4. 1 + i \in {1, 2, 3, 4} /\ 2 + i \in {1, 2, 3, 4}
      BY <3>2, <3>3
    <3>5. i \in {0, 1, 2}
      BY <3>4
    <3>6. QED
      BY <3>2, <3>3, <3>5
  <2>5. QED
    BY <2>2, <2>3, <2>4
<1>7. b = c /\ w = v
  <2>1. \/ want = <<"list", "pending", "expenses">>
        \/ want = <<"get", "expense">>
        \/ want = <<"get", "receipt">>
        \/ want = <<"approve">>
        \/ want = <<"reimburse">>
        \/ want = <<"get", "policy">>
        \/ want = <<"wire", "limit">>
        \/ want = <<"a2a", "auditor">>
    BY DEF FinOps, ToSet
  <2>2. /\ want = <<"list", "pending", "expenses">> => "pending" \in ToSet(want)
        /\ want = <<"get", "receipt">> => "receipt" \in ToSet(want)
        /\ want = <<"wire", "limit">> => "limit" \in ToSet(want)
    BY DEF ToSet
  <2>3. /\ want = <<"approve">> => "approve" \in ToSet(want)
        /\ want = <<"reimburse">> => "reimburse" \in ToSet(want)
    BY DEF ToSet
  <2>4. /\ want = <<"a2a", "auditor">> => "auditor" \in ToSet(want)
        /\ want = <<"get", "policy">> => {"get", "policy"} \subseteq ToSet(want)
    BY DEF ToSet
  <2>5. QED
    BY <1>5, <1>6, <2>1, <2>2, <2>3, <2>4
<1>8. QED
  BY <1>2, <1>7

\* What is in a list of tools.
LEMMA InList ==
  ASSUME NEW list \in Seq(Tools), NEW i \in 1..Len(list)
  PROVE  list[i] \in ToSet(list) /\ list[i] \in Tools /\ list[i].name \in ToolNames
<1>1. list[i] \in Tools
  OBVIOUS
<1>2. list[i].name \in ToolNames
  BY <1>1 DEF Tools
<1>3. QED
  BY <1>1, <1>2 DEF ToSet

\* seed.py finds the tool that the analyst is to have, whatever else is listed
\* and in whatever order.
LEMMA SeedFinds ==
  ASSUME NEW b \in Backends, NEW w \in ToSet(ToolsOf(b)), NEW want \in ToSet(FinOps.wants),
         want \in {w, Slug(b) \o w}, NEW list \in Seq(Tools),
         NEW t \in ToSet(list), t.name = Slug(b) \o w
  PROVE  \E u \in ids(want, list) : u.name = t.name /\ u \in ToSet(list)
<1> DEFINE I == {i \in 1..Len(list) : want \in SubSeqs(list[i].name)}
           k == Min(I)
<1>1. I \subseteq 1..Len(list) /\ DOMAIN list = 1..Len(list)
  OBVIOUS
<1>2. want \in SubSeqs(t.name)
  <2>1. w \in Seq(Words) /\ Slug(b) \in Seq(Words) /\ Slug(b) \o w \in Seq(Words)
    BY OwnNames, BehindPrefix
  <2>2. w \in SubSeqs(Slug(b) \o w)
    BY <2>1, EndsAndOccurs
  <2>3. t.name \in SubSeqs(t.name)
    <3>1. <<>> \in Seq(Words) /\ <<>> \o t.name = t.name
      BY <2>1
    <3>2. QED
      BY <2>1, <3>1, EndsAndOccurs
  <2>4. QED
    BY <2>2, <2>3
<1>3. I # {}
  BY <1>1, <1>2 DEF ToSet
<1>4. ids(want, list) = IF I # {} THEN (IF k = 0 THEN {} ELSE {list[k]}) ELSE {}
  BY DEF ids, FirstWith, SelectInSeq
<1> HIDE DEF I
<1>5. k \in I
  BY <1>1, <1>3, FirstPlace
<1>6. k \in 1..Len(list) /\ want \in SubSeqs(list[k].name)
  BY <1>5 DEF I
<1>7. list[k] \in ToSet(list) /\ list[k] \in Tools /\ list[k].name \in ToolNames
  BY <1>6, InList
<1>8. ids(want, list) = {list[k]}
  <2>1. k # 0
    BY <1>6
  <2> HIDE DEF k
  <2>2. QED
    BY <1>3, <1>4, <2>1
<1>9. list[k].name = t.name
  BY <1>6, <1>7, OccursOnlyItsOwn
<1>10. QED
  BY <1>7, <1>8, <1>9

\* What either script finds was listed.
LEMMA FoundInList ==
  ASSUME NEW list, NEW S, list \in Seq(S), NEW want
  PROVE  ids(want, list) \subseteq ToSet(list) /\ match_tool_ids(want, list) \subseteq ToSet(list)
<1> DEFINE E == {i \in 1..Len(list) : list[i].name = want}
           Z == {i \in 1..Len(list) : IsSuffix(want, list[i].name)}
           O == {i \in 1..Len(list) : want \in SubSeqs(list[i].name)}
<1>1. ASSUME NEW t \in ids(want, list) \cup match_tool_ids(want, list)
      PROVE  \E I \in {E, Z, O} : I # {} /\ t = list[Min(I)]
  BY <1>1 DEF ids, match_tool_ids, FirstWith, SelectInSeq
<1>2. ASSUME NEW I \in {E, Z, O}, I # {}
      PROVE  list[Min(I)] \in ToSet(list)
  <2>1. I \subseteq 1..Len(list)
    OBVIOUS
  <2> HIDE DEF E, Z, O
  <2>2. Min(I) \in 1..Len(list)
    BY <1>2, <2>1, FirstPlace
  <2>3. QED
    BY <2>2 DEF ToSet
<1> HIDE DEF E, Z, O
<1>3. QED
  BY <1>1, <1>2

\* grant.py finds a tool by the name that it is listed under.
LEMMA MatchFindsByName ==
  ASSUME NEW list \in Seq(Tools), NEW t \in ToSet(list)
  PROVE  \E u \in match_tool_ids(t.name, list) : u.name = t.name
<1> DEFINE want == t.name
           I == {i \in 1..Len(list) : list[i].name = want}
           k == Min(I)
<1>1. I \subseteq 1..Len(list) /\ DOMAIN list = 1..Len(list)
  OBVIOUS
<1>2. I # {}
  BY <1>1 DEF ToSet
<1> DEFINE E == {list[k]}
<1>3. k \in I
  <2> HIDE DEF I
  <2>1. QED
    BY <1>1, <1>2, FirstPlace
<1>4. k \in 1..Len(list) /\ list[k].name = want
  BY <1>3
<1>5. match_tool_ids(want, list) = E
  <2> DEFINE Equals(u) == u.name = want
  <2>1. SelectInSeq(list, Equals) = k
    BY <1>2 DEF SelectInSeq
  <2>2. FirstWith(Equals, list) = E
    <3>1. k # 0
      BY <1>4
    <3> HIDE DEF k
    <3>2. QED
      BY <2>1, <3>1 DEF FirstWith
  <2>3. E # {}
    OBVIOUS
  <2>4. QED
    BY <2>2, <2>3 DEF match_tool_ids
<1>6. QED
  BY <1>4, <1>5

\* And by the name that its backend has for it.
LEMMA MatchFindsByEnd ==
  ASSUME NEW b \in Backends, NEW w \in ToSet(ToolsOf(b)), NEW list \in Seq(Tools),
         NEW t \in ToSet(list), t.name = Slug(b) \o w
  PROVE  \E u \in match_tool_ids(w, list) : u.name = t.name
<1> DEFINE Equals(u) == u.name = w
           EndsWith(u) == IsSuffix(w, u.name)
           E == {i \in 1..Len(list) : list[i].name = w}
           I == {i \in 1..Len(list) : IsSuffix(w, list[i].name)}
           k == Min(I)
<1>1. I \subseteq 1..Len(list) /\ DOMAIN list = 1..Len(list)
  OBVIOUS
<1>2. \A i \in 1..Len(list) : list[i] \in Tools /\ list[i].name \in ToolNames
  BY InList
<1>3. E = {}
  BY <1>2, NeverItsOwn
<1>4. I # {}
  <2>1. IsSuffix(w, t.name)
    BY OwnNames, EndsAndOccurs
  <2>2. QED
    BY <1>1, <2>1 DEF ToSet
<1>5. k \in I
  <2> HIDE DEF I
  <2>1. QED
    BY <1>1, <1>4, FirstPlace
<1>6. k \in 1..Len(list) /\ IsSuffix(w, list[k].name)
  BY <1>5
<1>7. list[k].name = t.name
  BY <1>2, <1>6, EndsOnlyItsOwn
<1>8. match_tool_ids(w, list) = {list[k]}
  <2>1. FirstWith(Equals, list) = {}
    BY <1>3 DEF FirstWith, SelectInSeq
  <2>2. SelectInSeq(list, EndsWith) = k
    BY <1>4 DEF SelectInSeq
  <2>3. FirstWith(EndsWith, list) = {list[k]}
    <3>1. k # 0
      BY <1>6
    <3> HIDE DEF k
    <3>2. QED
      BY <2>2, <3>1 DEF FirstWith
  <2>4. {list[k]} # {}
    OBVIOUS
  <2>5. QED
    BY <2>1, <2>3, <2>4 DEF match_tool_ids
<1>9. QED
  BY <1>7, <1>8

----------------------------------------------------------------------------
(* The list of tools. *)

\* A list of lists, one behind the other, is a list of what is in them.
LEMMA Flattened ==
  ASSUME NEW S, NEW seqs \in Seq(Seq(S))
  PROVE  /\ FlattenSeq(seqs) \in Seq(S)
         /\ ToSet(FlattenSeq(seqs)) = UNION {ToSet(seqs[i]) : i \in DOMAIN seqs}
<1> DEFINE n == Len(seqs)
           Def(m, f) == f = [i \in 1..m |-> IF i = 1 THEN seqs[i] ELSE f[i - 1] \o seqs[i]]
<1>0. n \in Nat /\ DOMAIN seqs = 1..n /\ \A i \in 1..n : seqs[i] \in Seq(S)
  OBVIOUS
<1> HIDE DEF n
<1>1. CASE n = 0
  <2>1. FlattenSeq(seqs) = seqs /\ seqs = <<>>
    BY <1>0, <1>1 DEF FlattenSeq, n
  <2>2. QED
    BY <2>1 DEF ToSet
<1>2. CASE n # 0
  <2> DEFINE Fails == {m \in Nat \ {0} : m <= n /\ ~\E f : Def(m, f)}
  <2>1. \E f : Def(1, f)
    <3> DEFINE f == [i \in 1..1 |-> seqs[1]]
    <3>1. f = [i \in 1..1 |-> IF i = 1 THEN seqs[i] ELSE f[i - 1] \o seqs[i]]
      OBVIOUS
    <3>2. QED
      BY <3>1
  <2>2. ASSUME NEW m \in Nat \ {0, 1}, NEW f, Def(m - 1, f)
        PROVE  \E g : Def(m, g)
    <3> DEFINE g == [i \in 1..m |-> IF i < m THEN f[i] ELSE f[m - 1] \o seqs[m]]
               h == [i \in 1..m |-> IF i = 1 THEN seqs[i] ELSE g[i - 1] \o seqs[i]]
    <3>1. ASSUME NEW i \in 1..m
          PROVE  g[i] = h[i]
      <4>1. CASE i = m
        <5>1. m - 1 \in 1..m /\ m - 1 < m /\ i # 1
          BY <4>1
        <5>2. g[m - 1] = f[m - 1]
          BY <5>1
        <5>3. g[i] = f[m - 1] \o seqs[m]
          <6>1. ~(i < m)
            BY <4>1
          <6>2. QED
            BY <6>1, Zenon
        <5>4. h[i] = g[i - 1] \o seqs[i]
          BY <5>1
        <5>5. QED
          BY <4>1, <5>2, <5>3, <5>4
      <4>2. CASE i # m
        <5>1. i \in 1..(m - 1) /\ i < m
          BY <4>2
        <5>2. g[i] = f[i]
          BY <5>1
        <5>3. f[i] = IF i = 1 THEN seqs[i] ELSE f[i - 1] \o seqs[i]
          BY <2>2, <5>1
        <5>4. i # 1 => g[i - 1] = f[i - 1]
          BY <5>1
        <5>5. h[i] = IF i = 1 THEN seqs[i] ELSE g[i - 1] \o seqs[i]
          OBVIOUS
        <5> HIDE DEF g, h
        <5>6. QED
          BY <5>2, <5>3, <5>4, <5>5
      <4>3. QED
        BY <4>1, <4>2
    <3>2. g = h
      BY <3>1
    <3>3. Def(m, g)
      BY <3>2
    <3> HIDE DEF g, h
    <3>4. QED
      BY <3>3
  <2>3. Fails = {}
    <3> SUFFICES ASSUME Fails # {}
                 PROVE  FALSE
      OBVIOUS
    <3>1. Fails \subseteq Nat
      OBVIOUS
    <3> DEFINE m == Min(Fails)
    <3>2. m \in Fails /\ \A k \in Fails : m <= k
      <4> HIDE DEF Fails
      <4>1. QED
        BY <3>1, LeastOfNaturals
    <3> HIDE DEF m
    <3>3. m \in Nat \ {0} /\ m <= n /\ ~\E f : Def(m, f)
      BY <3>2
    <3>4. m # 1
      BY <2>1, <3>3
    <3>5. m - 1 \in Nat \ {0} /\ m - 1 <= n /\ ~(m <= m - 1)
      BY <1>0, <3>3, <3>4
    <3>6. m - 1 \notin Fails
      BY <3>2, <3>5
    <3>7. \E f : Def(m - 1, f)
      BY <3>5, <3>6
    <3> HIDE DEF Def
    <3>8. QED
      BY <2>2, <3>3, <3>4, <3>7
  <2> DEFINE c == CHOOSE f : Def(n, f)
  <2>4. Def(n, c)
    <3> HIDE DEF Def
    <3>1. \E f : Def(n, f)
      <4>1. n \in Nat \ {0} /\ n <= n
        BY <1>0, <1>2
      <4>2. QED
        BY <2>3, <4>1
    <3>2. QED
      BY <3>1
  <2>5. FlattenSeq(seqs) = c[n]
    BY <1>2 DEF FlattenSeq, n
  <2> HIDE DEF c
  <2> DEFINE OK(i) == /\ c[i] \in Seq(S)
                      /\ ToSet(c[i]) = UNION {ToSet(seqs[j]) : j \in 1..i}
             Wrong == {i \in 1..n : ~OK(i)}
  <2>6. ASSUME NEW i \in 1..n, i # 1 => OK(i - 1)
        PROVE  OK(i)
    <3>1. c[i] = IF i = 1 THEN seqs[i] ELSE c[i - 1] \o seqs[i]
      BY <2>4
    <3>2. seqs[i] \in Seq(S)
      BY <1>0
    <3>3. CASE i = 1
      BY <3>1, <3>2, <3>3
    <3>4. CASE i # 1
      <4>1. c[i - 1] \in Seq(S) /\ c[i] = c[i - 1] \o seqs[i]
        BY <2>6, <3>1, <3>4
      <4>2. c[i] \in Seq(S) /\ ToSet(c[i]) = ToSet(c[i - 1]) \cup ToSet(seqs[i])
        BY <3>2, <4>1, WordsOfName
      <4>3. \A j : j \in 1..i <=> j \in 1..(i - 1) \/ j = i
        BY <1>0
      <4>4. ToSet(c[i - 1]) = UNION {ToSet(seqs[j]) : j \in 1..(i - 1)}
        BY <2>6, <3>4
      <4>5. ASSUME NEW x
            PROVE  x \in ToSet(c[i]) <=> \E j \in 1..i : x \in ToSet(seqs[j])
        BY <4>2, <4>3, <4>4
      <4>6. QED
        BY <4>2, <4>5
    <3>5. QED
      BY <3>3, <3>4
  <2>7. Wrong = {}
    <3> SUFFICES ASSUME Wrong # {}
                 PROVE  FALSE
      OBVIOUS
    <3>1. Wrong \subseteq Nat
      OBVIOUS
    <3> DEFINE m == Min(Wrong)
    <3>2. m \in Wrong /\ \A k \in Wrong : m <= k
      <4> HIDE DEF Wrong
      <4>1. QED
        BY <3>1, LeastOfNaturals
    <3> HIDE DEF m, OK
    <3>3. m \in 1..n /\ ~OK(m)
      BY <3>2
    <3>4. m # 1 => m - 1 \in 1..n /\ ~(m <= m - 1)
      BY <1>0, <3>3
    <3>5. m # 1 => OK(m - 1)
      BY <3>2, <3>4
    <3>6. QED
      BY <2>6, <3>3, <3>5
  <2>8. OK(n)
    <3>1. n \in 1..n
      BY <1>0, <1>2
    <3> HIDE DEF OK
    <3>2. QED
      BY <2>7, <3>1
  <2>9. QED
    BY <1>0, <2>5, <2>8
<1>3. QED
  BY <1>1, <1>2

\* Taking the first occurrence out of a list leaves the others as they were.
LEMMA RemoveFirstKeeps ==
  ASSUME NEW S, NEW s \in Seq(S), NEW e, IsInjective(s)
  PROVE  /\ RemoveFirst(s, e) \in Seq(S) /\ IsInjective(RemoveFirst(s, e))
         /\ ToSet(RemoveFirst(s, e)) \subseteq ToSet(s)
         /\ ToSet(s) \ {e} \subseteq ToSet(RemoveFirst(s, e))
<1>1. CASE ~\E i \in 1..Len(s) : s[i] = e
  BY <1>1 DEF RemoveFirst
<1>2. CASE \E i \in 1..Len(s) : s[i] = e
  <2> DEFINE I == {i \in 1..Len(s) : s[i] = e}
             m == Min(I)
             r == RemoveFirst(s, e)
  <2>1. I \subseteq 1..Len(s) /\ I # {}
    BY <1>2
  <2>2. r = SubSeq(s, 1, m - 1) \o SubSeq(s, m + 1, Len(s))
    BY <1>2, <2>1 DEF RemoveFirst, RemoveAt, SelectInSeq
  <2> HIDE DEF I
  <2>3. m \in 1..Len(s)
    BY <2>1, FirstPlace
  <2> DEFINE n == Len(s)
             A == SubSeq(s, 1, m - 1)
             B == SubSeq(s, m + 1, n)
  <2>n. n \in Nat /\ DOMAIN s = 1..n /\ m \in Nat /\ 1 <= m /\ m <= n
    BY <2>3
  <2> HIDE DEF m, r, n
  <2>a. A \in Seq(S) /\ Len(A) = m - 1 /\ \A k \in 1..(m - 1) : A[k] = s[k]
    BY <2>n DEF n
  <2>b. B \in Seq(S) /\ Len(B) = n - m /\ \A k \in 1..(n - m) : B[k] = s[m + k]
    <3>1. m + 1 \in Int /\ n \in Int /\ \A i \in (m + 1)..n : s[i] \in S
      BY <2>n
    <3>2. /\ B \in Seq(S) /\ Len(B) = IF m + 1 <= n THEN n - (m + 1) + 1 ELSE 0
          /\ \A k \in 1..(n - (m + 1) + 1) : B[k] = s[(m + 1) + k - 1]
      BY <3>1, SubSeqProperties DEF B
    <3>3. n - (m + 1) + 1 = n - m /\ (~(m + 1 <= n) => n - m = 0)
      BY <2>n
    <3>4. \A k \in 1..(n - m) : (m + 1) + k - 1 = m + k
      BY <2>n
    <3> HIDE DEF B
    <3>5. QED
      BY <3>2, <3>3, <3>4
  <2> HIDE DEF A, B
  <2>4. r = A \o B
    BY <2>2 DEF A, B, n, r
  <2>c. r \in Seq(S) /\ Len(r) = Len(A) + Len(B)
    BY <2>4, <2>a, <2>b, ConcatProperties
  <2>d. \A k \in 1..(Len(A) + Len(B)) : r[k] = IF k <= Len(A) THEN A[k] ELSE B[k - Len(A)]
    BY <2>4, <2>a, <2>b, ConcatProperties
  <2>5. r \in Seq(S) /\ Len(r) = n - 1
    BY <2>c, <2>a, <2>b, <2>n
  <2>6. ASSUME NEW k \in 1..Len(r)
        PROVE  /\ k < m => r[k] = s[k] /\ k \in 1..n
               /\ k >= m => r[k] = s[k + 1] /\ k + 1 \in 1..n
    <3>1. k \in Nat /\ 1 <= k /\ k <= n - 1
      BY <2>5, <2>n
    <3>2. r[k] = IF k <= m - 1 THEN A[k] ELSE B[k - (m - 1)]
      BY <2>a, <2>c, <2>d
    <3>3. CASE k < m
      <4>1. k \in 1..(m - 1) /\ k <= m - 1
        BY <2>n, <3>1, <3>3
      <4>2. QED
        BY <2>a, <2>n, <3>1, <3>2, <3>3, <4>1
    <3>4. CASE k >= m
      <4>1. k - (m - 1) \in 1..(n - m) /\ m + (k - (m - 1)) = k + 1 /\ ~(k <= m - 1)
        BY <2>n, <3>1, <3>4
      <4>2. r[k] = B[k - (m - 1)]
        BY <3>2, <4>1
      <4>3. B[k - (m - 1)] = s[k + 1]
        BY <2>b, <4>1
      <4>4. QED
        BY <2>n, <3>1, <3>4, <4>2, <4>3
    <3>5. QED
      BY <2>n, <3>1, <3>3, <3>4
  <2>7. \A k \in DOMAIN r : r[k] \in ToSet(s)
    <3> SUFFICES ASSUME NEW k \in 1..Len(r)
                 PROVE  r[k] \in ToSet(s)
      BY <2>5
    <3>1. k \in Nat /\ (k < m \/ k >= m)
      BY <2>5, <2>n
    <3>2. QED
      BY <2>6, <2>n, <3>1 DEF ToSet
  <2>8. ASSUME NEW j \in 1..Len(r), NEW k \in 1..Len(r), r[j] = r[k]
        PROVE  j = k
    <3>1. \A x, y \in 1..n : s[x] = s[y] => x = y
      BY <2>n DEF IsInjective
    <3>n. j \in Nat /\ k \in Nat
      BY <2>5, <2>n
    <3>2. CASE j < m /\ k < m
      BY <2>6, <2>8, <3>1, <3>2
    <3>3. CASE j < m /\ k >= m
      <4>1. j = k + 1
        BY <2>6, <2>8, <3>1, <3>3
      <4>2. QED
        BY <2>n, <3>n, <3>3, <4>1
    <3>4. CASE j >= m /\ k < m
      <4>1. k = j + 1
        BY <2>6, <2>8, <3>1, <3>4
      <4>2. QED
        BY <2>n, <3>n, <3>4, <4>1
    <3>5. CASE j >= m /\ k >= m
      <4>1. j + 1 = k + 1
        BY <2>6, <2>8, <3>1, <3>5
      <4>2. QED
        BY <3>n, <4>1
    <3>6. QED
      BY <2>n, <3>n, <3>2, <3>3, <3>4, <3>5
  <2>9. ASSUME NEW i \in 1..n, s[i] # e
        PROVE  s[i] \in ToSet(r)
    <3>1. s[m] = e
      BY <2>1, FirstPlace DEF I, m
    <3>2. i < m \/ i > m
      BY <2>9, <2>n, <3>1
    <3>3. CASE i < m
      <4>1. i \in 1..Len(r) /\ i \in DOMAIN r
        BY <2>5, <2>n, <3>3
      <4>2. QED
        BY <2>6, <3>3, <4>1 DEF ToSet
    <3>4. CASE i > m
      <4>1. i - 1 \in 1..Len(r) /\ i - 1 \in DOMAIN r /\ i - 1 >= m /\ i - 1 + 1 = i
        BY <2>5, <2>n, <3>4
      <4>2. r[i - 1] = s[i]
        BY <2>6, <4>1
      <4>3. QED
        BY <4>1, <4>2 DEF ToSet
    <3>5. QED
      BY <3>2, <3>3, <3>4
  <2>10. ToSet(s) \ {e} \subseteq ToSet(r)
    BY <2>9, <2>n DEF ToSet
  <2>11. ToSet(r) \subseteq ToSet(s)
    BY <2>7 DEF ToSet
  <2>12. IsInjective(r)
    BY <2>5, <2>8 DEF IsInjective
  <2>13. QED
    BY <2>5, <2>10, <2>11, <2>12 DEF r
<1>3. QED
  BY <1>1, <1>2

\* A server that is made can be in anybody's name but gives the analyst only
\* what is not beyond it.
MayMake(name, tools) ==
  /\ name \in Owners \ ServerNames
  /\ name = "FinOps" => \A t \in tools : t.name \in ToolNames => Distinct(t.name)

\* What a call can do to the catalog.
Effect ==
  \/ UNCHANGED catalog
  \/ \E b \in Backends : MayRegister(b) /\ Register(b)
  \/ \E b : Unregister(b)
  \/ \E id : DeleteServer(id)
  \/ \E name, tools : MayMake(name, tools) /\ CreateServer(name, tools)

\* The invariants of the catalog itself.
CatalogOK ==
  /\ listed \in Seq(Backends) /\ IsInjective(listed)
  /\ gen \in [Backends -> 0..MaxGen] /\ \A b \in Registered : gen[b] > 0
  /\ made \in Nat /\ servers \subseteq [name : Owners, id : 1..made, tools : SUBSET Tools]
  /\ \A s, t \in servers : s.name = t.name \/ s.id = t.id => s = t
  /\ \A s \in servers : s.name = "FinOps" => \A t \in s.tools : Distinct(t.name)

\* What the gateway still has of some tools are tools.
LEMMA CurrentType ==
  ASSUME CatalogOK, NEW tools
  PROVE  Current(tools) \subseteq Tools \cap tools
<1> SUFFICES ASSUME NEW t \in Current(tools)
             PROVE  t \in Tools
  BY DEF Current
<1>1. PICK b \in Registered : t \in ToSet(OfBackend(b))
  BY DEF Current
<1>2. b \in Backends
  BY DEF CatalogOK, Registered, ToSet
<1>3. ToolsOf(b) \in Seq(Seq(Words))
  BY <1>2, ToolsOfType
<1>4. PICK k \in 1..Len(ToolsOf(b)) : t = [name |-> Slug(b) \o ToolsOf(b)[k], of |-> b, gen |-> gen[b]]
  BY <1>1, <1>3 DEF OfBackend, ToSet
<1>5. ToolsOf(b)[k] \in ToSet(ToolsOf(b))
  BY <1>3 DEF ToSet
<1>6. Slug(b) \o ToolsOf(b)[k] \in ToolNames
  BY <1>2, <1>5 DEF ToolNames
<1>7. gen[b] \in Nat
  BY <1>2, CatalogAssumption DEF CatalogOK
<1>8. QED
  BY <1>2, <1>4, <1>6, <1>7 DEF Tools

\* No call breaks the catalog, makes a backend older, or gives an identity that
\* was the analyst's, or was given to nobody yet, to somebody else.
LEMMA CatalogKept ==
  ASSUME CatalogOK, Effect
  PROVE  /\ CatalogOK' /\ made <= made'
         /\ \A b \in Backends : gen[b] <= gen'[b]
         /\ \A u \in 0..made : (\A s \in servers : s.id = u => s.name = "FinOps")
                               => (\A s \in servers' : s.id = u => s.name = "FinOps")
<1>1. \A b \in Backends : gen[b] \in Nat
  BY CatalogAssumption DEF CatalogOK
<1>2. CASE UNCHANGED catalog
  BY <1>1, <1>2 DEF catalog, CatalogOK, Registered
<1>3. ASSUME NEW b \in Backends, MayRegister(b), Register(b)
      PROVE  /\ CatalogOK'
             /\ made' = made /\ servers' = servers
             /\ \A c \in Backends : gen[c] <= gen'[c]
  <2>1. /\ listed' = Append(listed, b) /\ gen' = [gen EXCEPT ![b] = gen[b] + 1]
        /\ servers' = servers /\ made' = made
    BY <1>3 DEF Register
  <2>2. b \notin ToSet(listed) /\ gen[b] < MaxGen
    BY <1>3 DEF MayRegister, Registered
  <2>3. listed' \in Seq(Backends) /\ ToSet(listed') \subseteq ToSet(listed) \cup {b}
    <3>1. listed \in Seq(Backends) /\ listed' \in Seq(Backends)
      BY <2>1 DEF CatalogOK
    <3>2. \A i \in DOMAIN listed' : listed'[i] = b \/ (i \in DOMAIN listed /\ listed'[i] = listed[i])
      BY <2>1, <3>1
    <3>3. QED
      BY <3>1, <3>2 DEF ToSet
  <2>4. IsInjective(listed')
    BY <2>1, <2>2 DEF CatalogOK, ToSet, IsInjective
  <2>5. gen[b] + 1 \in 0..MaxGen /\ gen[b] + 1 > 0
    BY <1>1, <2>2, CatalogAssumption
  <2>6. gen' \in [Backends -> 0..MaxGen] /\ gen'[b] = gen[b] + 1
    BY <2>1, <2>5 DEF CatalogOK
  <2>7. \A c \in ToSet(listed') : gen'[c] > 0
    BY <2>1, <2>3, <2>5, <2>6 DEF CatalogOK, Registered, ToSet
  <2>8. \A c \in Backends : gen[c] <= gen'[c]
    BY <1>1, <2>1, <2>6 DEF CatalogOK
  <2>9. QED
    BY <2>1, <2>3, <2>4, <2>6, <2>7, <2>8 DEF CatalogOK, Registered, ServerNames
<1>4. ASSUME NEW b, Unregister(b)
      PROVE  /\ CatalogOK'
             /\ made' = made /\ gen' = gen
             /\ \A s \in servers' : \E t \in servers : s.id = t.id /\ s.name = t.name
  <2>1. /\ listed' = RemoveFirst(listed, b) /\ gen' = gen /\ made' = made
        /\ servers' = {[s EXCEPT !.tools = {t \in @ : t.of # b}] : s \in servers}
    BY <1>4 DEF Unregister
  <2>2. /\ listed' \in Seq(Backends) /\ IsInjective(listed')
        /\ \A c \in ToSet(listed') : gen[c] > 0
    BY <2>1, RemoveFirstKeeps DEF CatalogOK, Registered
  <2>3. ASSUME NEW x \in servers'
        PROVE  \E s \in servers : /\ x = [name |-> s.name, id |-> s.id, tools |-> x.tools]
                                  /\ x.tools \subseteq s.tools
    <3>1. PICK s \in servers : x = [s EXCEPT !.tools = {t \in @ : t.of # b}]
      BY <2>1
    <3>2. s \in [name : Owners, id : 1..made, tools : SUBSET Tools]
      BY DEF CatalogOK
    <3>3. QED
      BY <3>1, <3>2
  <2>4. servers' \subseteq [name : Owners, id : 1..made, tools : SUBSET Tools]
    BY <2>3 DEF CatalogOK
  <2>5. ASSUME NEW x \in servers', NEW y \in servers', x.name = y.name \/ x.id = y.id
        PROVE  x = y
    <3>1. PICK s \in servers : x = [s EXCEPT !.tools = {t \in @ : t.of # b}]
      BY <2>1
    <3>2. PICK z \in servers : y = [z EXCEPT !.tools = {t \in @ : t.of # b}]
      BY <2>1
    <3>3. /\ s \in [name : Owners, id : 1..made, tools : SUBSET Tools]
          /\ z \in [name : Owners, id : 1..made, tools : SUBSET Tools]
      BY DEF CatalogOK
    <3>4. x.name = s.name /\ x.id = s.id /\ y.name = z.name /\ y.id = z.id
      BY <3>1, <3>2, <3>3
    <3>5. s = z
      BY <2>5, <3>4 DEF CatalogOK
    <3>6. QED
      BY <3>1, <3>2, <3>5
  <2>6. ASSUME NEW x \in servers', x.name = "FinOps", NEW t \in x.tools
        PROVE  Distinct(t.name)
    BY <2>3, <2>6 DEF CatalogOK
  <2>7. \A x \in servers' : \E s \in servers : x.id = s.id /\ x.name = s.name
    BY <2>3
  <2>8. QED
    BY <2>1, <2>2, <2>4, <2>5, <2>6, <2>7 DEF CatalogOK, Registered
<1>5. ASSUME NEW id, DeleteServer(id)
      PROVE  CatalogOK' /\ made' = made /\ gen' = gen /\ servers' \subseteq servers
  BY <1>5 DEF DeleteServer, CatalogOK, Registered
<1>6. ASSUME NEW name, NEW tools, MayMake(name, tools), CreateServer(name, tools)
      PROVE  /\ CatalogOK' /\ made' = made + 1 /\ gen' = gen
             /\ \A s \in servers' : s \in servers \/ s.id = made + 1
  <2> DEFINE new == [name |-> name, id |-> made + 1, tools |-> Current(tools)]
  <2>1. /\ servers' = servers \cup {new} /\ made' = made + 1
        /\ listed' = listed /\ gen' = gen
    BY <1>6 DEF CreateServer
  <2>2. /\ name \in Owners /\ \A s \in servers : s.name # name
        /\ name = "FinOps" => \A t \in tools : t.name \in ToolNames => Distinct(t.name)
    BY <1>6 DEF MayMake, ServerNames
  <2>3. Current(tools) \subseteq Tools \cap tools
    BY CurrentType
  <2>4. made \in Nat /\ \A s \in servers : s \in [name : Owners, id : 1..made, tools : SUBSET Tools]
    BY DEF CatalogOK
  <2>5. /\ made + 1 \in Nat /\ made + 1 \in 1..(made + 1)
        /\ \A x \in 1..made : x \in 1..(made + 1) /\ x # made + 1
    BY <2>4
  <2>6. new \in [name : Owners, id : 1..(made + 1), tools : SUBSET Tools]
    BY <2>2, <2>3, <2>5
  <2>7. \A s \in servers : s \in [name : Owners, id : 1..(made + 1), tools : SUBSET Tools]
    BY <2>4, <2>5
  <2>8. \A s \in servers : s.name # new.name /\ s.id # new.id
    BY <2>2, <2>4, <2>5
  <2>9. name = "FinOps" => \A t \in new.tools : Distinct(t.name)
    BY <2>2, <2>3 DEF Tools
  <2>10. new.name = name /\ new.id = made + 1
    OBVIOUS
  <2> HIDE DEF new
  <2>11. servers' \subseteq [name : Owners, id : 1..made', tools : SUBSET Tools]
    BY <2>1, <2>6, <2>7
  <2>12. \A s, t \in servers' : s.name = t.name \/ s.id = t.id => s = t
    BY <2>1, <2>8 DEF CatalogOK
  <2>13. \A s \in servers' : s.name = "FinOps" => \A t \in s.tools : Distinct(t.name)
    BY <2>1, <2>9, <2>10 DEF CatalogOK
  <2>14. QED
    BY <2>1, <2>5, <2>10, <2>11, <2>12, <2>13 DEF CatalogOK, Registered
<1>7. made \in Nat /\ \A u \in 0..made : u # made + 1
  BY DEF CatalogOK
<1>8. QED
  BY <1>1, <1>2, <1>3, <1>4, <1>5, <1>6, <1>7 DEF Effect, catalog

----------------------------------------------------------------------------
(* The scripts. *)

SeedStages == {"mcp", "post mcp", "fx-rates", "a2a", "post a2a", "tools", "servers", "delete", "make"}

\* What the position of a script says of it, when the backends are of the ages g.
RunOK(r, g) ==
  /\ DOMAIN r = DOMAIN Idle /\ r.before \in Nat
  /\ r.at # "idle" => r.job \in Jobs
  /\ r.at = "done" <=> r.result # None
  /\ r.at \in SeedStages => r.job.task = "seed"
  /\ r.at \in {"servers", "delete", "make"} => r.todo \in Seq(ToSet(Personas))
  /\ r.at = "make" => r.todo # <<>>
  /\ r.at \in {"grant", "union", "drop", "create"} => r.job.task = "grant"
  /\ r.at \in {"union", "drop", "create"} /\ r.job.server = "FinOps" =>
       \A t \in r.want : t.name \in ToolNames => Distinct(t.name)
  /\ r.at \in {"register", "post", "register_mcp_server"} =>
       r.job.task \in {"register", "register_mcp_server"} /\ r.before <= g[r.job.backend]
  /\ r.result = "ok" /\ r.job.task \in {"register", "register_mcp_server"} =>
       r.before < g[r.job.backend]

\* What a script has found and kept is distinct enough for whom it is.
RunsOK == DOMAIN run = Processes /\ \A p \in Processes : RunOK(run[p], gen)

\* A run of seed.py that has not come to the virtual servers.
LEMMA GoesOn ==
  ASSUME NEW r, NEW g, RunOK(r, g), r.at \in SeedStages,
         NEW n, DOMAIN n = DOMAIN r, n.job = r.job, n.before = r.before, n.result = r.result,
         n.at \in {"mcp", "post mcp", "fx-rates", "a2a", "post a2a", "tools"}
  PROVE  RunOK(n, g)
BY DEF RunOK, SeedStages

\* A run that ends has a result, and a registration that succeeded is new.
LEMMA EndsOK ==
  ASSUME NEW r, NEW g, RunOK(r, g), r.at \notin {"idle", "done"}, NEW result \in {"ok", "failed"},
         result = "ok" /\ r.job.task \in {"register", "register_mcp_server"} =>
           r.before < g[r.job.backend]
  PROVE  RunOK(Ends(r, result), g)
<1> DEFINE n == Ends(r, result)
<1>1. /\ DOMAIN n = DOMAIN Idle /\ n.before = r.before /\ n.job = r.job
      /\ n.at = "done" /\ n.result = result
  BY DEF Ends, Idle
<1> HIDE DEF n
<1>2. RunOK(n, g)
  BY <1>1, CatalogAssumption DEF RunOK, SeedStages
<1>3. QED
  BY <1>2 DEF n

\* What holds of a run still holds when backends have become newer.
LEMMA RunOKLater ==
  ASSUME NEW r, NEW g \in [Backends -> Nat], RunOK(r, g),
         NEW h \in [Backends -> Nat], \A b \in Backends : g[b] <= h[b]
  PROVE  RunOK(r, h)
<1>1. r.at \in {"register", "post", "register_mcp_server"} => r.before <= h[r.job.backend]
  <2> SUFFICES ASSUME r.at \in {"register", "post", "register_mcp_server"}
               PROVE  r.before <= h[r.job.backend]
    OBVIOUS
  <2>1. r.job.backend \in Backends /\ r.before \in Nat /\ r.before <= g[r.job.backend]
    BY CatalogAssumption DEF RunOK
  <2>2. QED
    BY <2>1
<1>2. r.result = "ok" /\ r.job.task \in {"register", "register_mcp_server"} =>
        r.before < h[r.job.backend]
  <2> SUFFICES ASSUME r.result = "ok", r.job.task \in {"register", "register_mcp_server"}
               PROVE  r.before < h[r.job.backend]
    OBVIOUS
  <2>1. r.at = "done" /\ r.job \in Jobs
    BY CatalogAssumption DEF RunOK
  <2>2. r.job.backend \in Backends /\ r.before \in Nat /\ r.before < g[r.job.backend]
    BY <2>1, CatalogAssumption DEF RunOK
  <2>3. QED
    BY <2>2
<1>3. QED
  BY <1>1, <1>2 DEF RunOK

\* A run that was disturbed is as good as before.
LEMMA RunOKDisturbed ==
  ASSUME NEW r, NEW g, RunOK(r, g), NEW x
  PROVE  RunOK([r EXCEPT !.clean = x], g)
<1> DEFINE n == [r EXCEPT !.clean = x]
<1>1. /\ DOMAIN n = DOMAIN r /\ n.at = r.at /\ n.job = r.job /\ n.before = r.before
      /\ n.result = r.result /\ n.todo = r.todo /\ n.want = r.want
  BY DEF RunOK, Idle
<1> HIDE DEF n
<1>2. RunOK(n, g)
  BY <1>1 DEF RunOK
<1>3. QED
  BY <1>2 DEF n

\* A step of one terminal keeps the invariant if it keeps it for that terminal.
LEMMA BecomesOK ==
  ASSUME CatalogOK, RunsOK, Effect, NEW p \in Processes, NEW n, Becomes(p, n), RunOK(n, gen')
  PROVE  RunsOK'
<1>1. /\ gen \in [Backends -> Nat] /\ gen' \in [Backends -> Nat]
      /\ \A b \in Backends : gen[b] <= gen'[b]
  BY CatalogKept, CatalogAssumption DEF CatalogOK
<1>2. run' = [q \in Processes |-> IF q = p THEN n
                                  ELSE [run[q] EXCEPT !.clean = @ /\ catalog' = catalog]]
  BY DEF Becomes
<1>3. ASSUME NEW q \in Processes, q # p
      PROVE  RunOK(run'[q], gen')
  <2>1. RunOK(run[q], gen')
    BY <1>1, RunOKLater DEF RunsOK
  <2>2. run'[q] = [run[q] EXCEPT !.clean = run[q].clean /\ catalog' = catalog]
    BY <1>2, <1>3
  <2>3. QED
    BY <2>1, <2>2, RunOKDisturbed
<1>4. QED
  BY <1>2, <1>3 DEF RunsOK

\* The same while no backend is registered, or whether one is or not; a fault is
\* only remembered.
LEMMA BecomesOKNow ==
  ASSUME CatalogOK, RunsOK, Effect, NEW p \in Processes, NEW n, RunOK(n, gen),
         Becomes(p, n) \/ Becomes(p, Faulty(n))
  PROVE  RunsOK'
<1>1. RunOK(Faulty(n), gen)
  BY RunOKDisturbed DEF Faulty
<1>2. /\ gen \in [Backends -> Nat] /\ gen' \in [Backends -> Nat]
      /\ \A b \in Backends : gen[b] <= gen'[b]
  BY CatalogKept, CatalogAssumption DEF CatalogOK
<1>3. RunOK(n, gen') /\ RunOK(Faulty(n), gen')
  BY <1>1, <1>2, RunOKLater
<1>4. QED
  BY <1>3, BecomesOK

\* The steps of seed.py before it comes to the virtual servers.
LEMMA SeedRegistersOK ==
  ASSUME CatalogOK, RunsOK, NEW p \in Processes,
         SeedReads(p) \/ SeedPosts(p) \/ SeedDropsFxRates(p)
  PROVE  Effect /\ RunsOK'
<1> DEFINE r == run[p]
<1>0. RunOK(r, gen) /\ DOMAIN r = DOMAIN Idle
  BY DEF RunsOK, RunOK
<1>1. CASE SeedReads(p)
  <2>1. PICK todo, at :
          LET n == [r EXCEPT !.todo = todo, !.at = at]
          IN  /\ at \in {"post mcp", "post a2a"}
              /\ Becomes(p, n) \/ Becomes(p, Faulty(n))
    BY <1>1 DEF SeedReads
  <2>2. r.at \in {"mcp", "a2a"} /\ UNCHANGED catalog
    BY <1>1 DEF SeedReads
  <2> DEFINE n == [r EXCEPT !.todo = todo, !.at = at]
  <2>3. RunOK(n, gen)
    <3>1. /\ DOMAIN n = DOMAIN r /\ n.job = r.job /\ n.before = r.before
          /\ n.result = r.result /\ n.at = at
      BY <1>0 DEF Idle
    <3> HIDE DEF n, r
    <3>2. QED
      BY <1>0, <2>1, <2>2, <3>1, GoesOn DEF SeedStages
  <2>4. Effect
    BY <2>2 DEF Effect
  <2>5. QED
    BY <2>1, <2>3, <2>4, BecomesOKNow
<1>2. CASE SeedPosts(p)
  <2> DEFINE next == [r EXCEPT !.todo = Tail(@)]
  <2>1. r.at \in {"post mcp", "post a2a"}
    BY <1>2 DEF SeedPosts
  <2>2. \/ /\ UNCHANGED catalog
           /\ \E at \in {"fx-rates", "tools"} : Becomes(p, [r EXCEPT !.at = at])
        \/ /\ MayRegister(Head(r.todo)) /\ Register(Head(r.todo))
           /\ Becomes(p, next)
        \/ UNCHANGED catalog /\ Becomes(p, Faulty(next))
    BY <1>2 DEF SeedPosts
  <2>3. Effect
    BY <2>2, CatalogAssumption DEF Effect, MayRegister
  <2>4. ASSUME NEW at \in {"fx-rates", "tools"}
        PROVE  RunOK([r EXCEPT !.at = at], gen)
    <3> DEFINE n == [r EXCEPT !.at = at]
    <3>1. /\ DOMAIN n = DOMAIN r /\ n.job = r.job /\ n.before = r.before
          /\ n.result = r.result /\ n.at = at
      BY <1>0 DEF Idle
    <3> HIDE DEF n, r
    <3>2. RunOK(n, gen)
      BY <1>0, <2>1, <3>1, GoesOn DEF SeedStages
    <3>3. QED
      BY <3>2 DEF n
  <2>5. RunOK(next, gen)
    <3>1. /\ DOMAIN next = DOMAIN r /\ next.job = r.job /\ next.before = r.before
          /\ next.result = r.result /\ next.at = r.at
      BY <1>0 DEF Idle
    <3> HIDE DEF next, r
    <3>2. QED
      BY <1>0, <2>1, <3>1, GoesOn DEF SeedStages
  <2>6. QED
    BY <2>2, <2>3, <2>4, <2>5, BecomesOKNow
<1>3. CASE SeedDropsFxRates(p)
  <2> DEFINE next == [r EXCEPT !.at = "a2a"]
  <2>1. r.at = "fx-rates" /\ (Becomes(p, next) \/ Becomes(p, Faulty(next)))
    BY <1>3 DEF SeedDropsFxRates
  <2>2. Effect
    BY <1>3 DEF SeedDropsFxRates, Effect
  <2>3. RunOK(next, gen)
    <3>1. /\ DOMAIN next = DOMAIN r /\ next.job = r.job /\ next.before = r.before
          /\ next.result = r.result /\ next.at = "a2a"
      BY <1>0 DEF Idle
    <3> HIDE DEF next, r
    <3>2. QED
      BY <1>0, <2>1, <3>1, GoesOn DEF SeedStages
  <2>4. QED
    BY <2>1, <2>2, <2>3, BecomesOKNow
<1>4. QED
  BY <1>1, <1>2, <1>3

\* A run of seed.py that is among the virtual servers.
LEMMA SeedGoesOn ==
  ASSUME NEW r, NEW g, RunOK(r, g), r.at \in SeedStages,
         NEW n, DOMAIN n = DOMAIN r, n.job = r.job, n.before = r.before, n.result = r.result,
         n.at \in {"servers", "delete", "make"}, n.todo \in Seq(ToSet(Personas)),
         n.at = "make" => n.todo # <<>>
  PROVE  RunOK(n, g)
BY DEF RunOK, SeedStages

\* A run of grant.py that has something to grant.
LEMMA GrantGoesOn ==
  ASSUME NEW r, NEW g, RunOK(r, g), r.at \in {"grant", "union", "drop", "create"},
         NEW n, DOMAIN n = DOMAIN r, n.job = r.job, n.before = r.before, n.result = r.result,
         n.at \in {"union", "drop", "create"},
         r.job.server = "FinOps" => \A t \in n.want : t.name \in ToolNames => Distinct(t.name)
  PROVE  RunOK(n, g)
BY DEF RunOK, SeedStages

\* A tool that is found for a wanted name that is distinct, by either script.
LEMMA FoundDistinct ==
  ASSUME NEW V, NEW want \in Seq(V), Distinct(want), NEW list,
         NEW t \in ids(want, list) \cup match_tool_ids(want, list), t.name \in ToolNames
  PROVE  Distinct(t.name)
<1>1. t.name \in Seq(Words)
  BY ToolNamesType
<1>2. QED
  BY <1>1, IdsDistinct, MatchDistinct

\* seed.py may make the server of each persona, if there is none.
LEMMA SeedMayMake ==
  ASSUME NEW s \in ToSet(Personas), s.name \notin ServerNames, NEW list
  PROVE  MayMake(s.name, UNION {ids(s.wants[k], list) : k \in DOMAIN s.wants})
<1> DEFINE tools == UNION {ids(s.wants[k], list) : k \in DOMAIN s.wants}
<1>1. s.name \in Owners
  BY DEF Owners
<1>2. ASSUME s.name = "FinOps", NEW t \in tools, t.name \in ToolNames
      PROVE  Distinct(t.name)
  <2>1. ToSet(Personas) = {FinOps, Treasury, Operator}
    BY DEF Personas, ToSet
  <2>2. Treasury.name = "Treasury" /\ Operator.name = "Operator"
    BY DEF Treasury, Operator
  <2>3. s = FinOps
    BY <1>2, <2>1, <2>2
  <2>4. PICK k \in DOMAIN FinOps.wants : t \in ids(FinOps.wants[k], list)
    BY <1>2, <2>3
  <2>5. Distinct(FinOps.wants[k])
    BY <2>4, AnalystsWants
  <2>6. t.name \in Seq(Words)
    BY <1>2, ToolNamesType
  <2>7. QED
    BY <2>4, <2>5, <2>6, IdsDistinct
<1>3. QED
  BY <1>1, <1>2 DEF MayMake

\* The steps of seed.py among the virtual servers.
LEMMA SeedServersOK ==
  ASSUME CatalogOK, RunsOK, NEW p \in Processes,
         \/ SeedListsTools(p) \/ SeedReadsServers(p) \/ SeedDeletes(p) \/ SeedMakes(p)
         \/ SeedEnds(p)
  PROVE  Effect /\ RunsOK'
<1> DEFINE r == run[p]
<1>0. RunOK(r, gen) /\ DOMAIN r = DOMAIN Idle
  BY DEF RunsOK, RunOK
<1>1. CASE SeedListsTools(p)
  <2>1. PICK list :
          LET n == [r EXCEPT !.at = "servers", !.seen = list, !.todo = Personas]
          IN  Becomes(p, n) \/ Becomes(p, Faulty(n))
    BY <1>1 DEF SeedListsTools
  <2>2. r.at = "tools" /\ UNCHANGED catalog
    BY <1>1 DEF SeedListsTools
  <2> DEFINE n == [r EXCEPT !.at = "servers", !.seen = list, !.todo = Personas]
  <2>3. RunOK(n, gen)
    <3>1. /\ DOMAIN n = DOMAIN r /\ n.job = r.job /\ n.before = r.before
          /\ n.result = r.result /\ n.at = "servers" /\ n.todo = Personas
      BY <1>0 DEF Idle
    <3>2. Personas \in Seq(ToSet(Personas))
      BY DEF Personas, ToSet
    <3> HIDE DEF n, r
    <3>3. QED
      BY <1>0, <2>2, <3>1, <3>2, SeedGoesOn DEF SeedStages
  <2>4. Effect
    BY <2>2 DEF Effect
  <2>5. QED
    BY <2>1, <2>3, <2>4, BecomesOKNow
<1>2. CASE SeedReadsServers(p)
  <2>1. PICK read :
          LET n == [r EXCEPT !.at = "delete", !.ids = read]
          IN  Becomes(p, n) \/ Becomes(p, Faulty(n))
    BY <1>2 DEF SeedReadsServers
  <2>2. r.at = "servers" /\ UNCHANGED catalog
    BY <1>2 DEF SeedReadsServers
  <2> DEFINE n == [r EXCEPT !.at = "delete", !.ids = read]
  <2>3. RunOK(n, gen)
    <3>1. /\ DOMAIN n = DOMAIN r /\ n.job = r.job /\ n.before = r.before
          /\ n.result = r.result /\ n.at = "delete" /\ n.todo = r.todo
      BY <1>0 DEF Idle
    <3>2. r.todo \in Seq(ToSet(Personas))
      BY <1>0, <2>2 DEF RunOK
    <3> HIDE DEF n, r
    <3>3. QED
      BY <1>0, <2>2, <3>1, <3>2, SeedGoesOn DEF SeedStages
  <2>4. Effect
    BY <2>2 DEF Effect
  <2>5. QED
    BY <2>1, <2>3, <2>4, BecomesOKNow
<1>3. CASE SeedDeletes(p)
  <2> DEFINE n == [r EXCEPT !.at = "make"]
  <2>1. r.at = "delete" /\ r.todo # <<>> /\ (Becomes(p, n) \/ Becomes(p, Faulty(n)))
    BY <1>3 DEF SeedDeletes
  <2>2. Effect
    BY <1>3 DEF SeedDeletes, Effect
  <2>3. RunOK(n, gen)
    <3>1. /\ DOMAIN n = DOMAIN r /\ n.job = r.job /\ n.before = r.before
          /\ n.result = r.result /\ n.at = "make" /\ n.todo = r.todo
      BY <1>0 DEF Idle
    <3>2. r.todo \in Seq(ToSet(Personas))
      BY <1>0, <2>1 DEF RunOK
    <3> HIDE DEF n, r
    <3>3. QED
      BY <1>0, <2>1, <3>1, <3>2, SeedGoesOn DEF SeedStages
  <2>4. QED
    BY <2>1, <2>2, <2>3, BecomesOKNow
<1>4. CASE SeedMakes(p)
  <2> DEFINE n == [r EXCEPT !.at = "delete", !.todo = Tail(@)]
             s == Head(r.todo)
             tools == UNION {ids(s.wants[k], r.seen) : k \in DOMAIN s.wants}
  <2>1. r.at = "make" /\ (Becomes(p, n) \/ Becomes(p, Faulty(n)))
    BY <1>4 DEF SeedMakes
  <2>2. UNCHANGED catalog \/ (s.name \notin ServerNames /\ CreateServer(s.name, tools))
    BY <1>4 DEF SeedMakes
  <2>3. r.todo \in Seq(ToSet(Personas)) /\ r.todo # <<>>
    BY <1>0, <2>1 DEF RunOK
  <2>4. s \in ToSet(Personas) /\ Tail(r.todo) \in Seq(ToSet(Personas))
    BY <2>3
  <2>5. Effect
    BY <2>2, <2>4, SeedMayMake DEF Effect
  <2>6. RunOK(n, gen)
    <3>1. /\ DOMAIN n = DOMAIN r /\ n.job = r.job /\ n.before = r.before
          /\ n.result = r.result /\ n.at = "delete" /\ n.todo = Tail(r.todo)
      BY <1>0 DEF Idle
    <3> HIDE DEF n, r
    <3>2. QED
      BY <1>0, <2>1, <2>4, <3>1, SeedGoesOn DEF SeedStages
  <2>7. QED
    BY <2>1, <2>5, <2>6, BecomesOKNow
<1>5. CASE SeedEnds(p)
  <2>1. /\ r.at = "delete" /\ UNCHANGED catalog
        /\ Becomes(p, Ends(r, "ok"))
    BY <1>5 DEF SeedEnds
  <2>2. Effect
    BY <2>1 DEF Effect
  <2>3. r.job.task = "seed"
    BY <1>0, <2>1 DEF RunOK, SeedStages
  <2> HIDE DEF r
  <2>4. RunOK(Ends(r, "ok"), gen)
    BY <1>0, <2>1, <2>3, EndsOK
  <2>5. QED
    BY <2>1, <2>2, <2>4, BecomesOKNow
<1>6. QED
  BY <1>1, <1>2, <1>3, <1>4, <1>5

\* The steps of grant.py.
LEMMA GrantOK ==
  ASSUME CatalogOK, RunsOK, NEW p \in Processes,
         GrantReads(p) \/ GrantUnites(p) \/ GrantDeletes(p) \/ GrantCreates(p)
  PROVE  Effect /\ RunsOK'
<1> DEFINE r == run[p]
<1>0. /\ RunOK(r, gen) /\ DOMAIN r = DOMAIN Idle
      /\ r.at \in {"grant", "union", "drop", "create"}
      /\ r.job.task = "grant" /\ r.job \in Jobs
  BY DEF RunsOK, RunOK, GrantReads, GrantUnites, GrantDeletes, GrantCreates
<1>e. ASSUME NEW result \in {"ok", "failed"}
      PROVE  RunOK(Ends(r, result), gen)
  <2> HIDE DEF r
  <2>1. QED
    BY <1>0, EndsOK
<1>1. CASE GrantReads(p)
  <2>1. PICK list :
          LET want == UNION {match_tool_ids(r.job.names[k], list) : k \in DOMAIN r.job.names}
          IN  \/ Becomes(p, Ends(r, "failed"))
              \/ Becomes(p, [r EXCEPT !.at = "union", !.seen = list, !.want = want])
    BY <1>1 DEF GrantReads
  <2>2. UNCHANGED catalog
    BY <1>1 DEF GrantReads
  <2> DEFINE want == UNION {match_tool_ids(r.job.names[k], list) : k \in DOMAIN r.job.names}
             n == [r EXCEPT !.at = "union", !.seen = list, !.want = want]
  <2>3. ASSUME r.job.server = "FinOps", NEW t \in want, t.name \in ToolNames
        PROVE  Distinct(t.name)
    <3>1. PICK k \in DOMAIN r.job.names : t \in match_tool_ids(r.job.names[k], list)
      BY <2>3
    <3>2. r.job.names[k] \in Seq(STRING) /\ Distinct(r.job.names[k])
      BY <1>0, <2>3, <3>1, CatalogAssumption
    <3> HIDE DEF r, want
    <3>3. QED
      BY <2>3, <3>1, <3>2, FoundDistinct
  <2>4. RunOK(n, gen)
    <3>1. /\ DOMAIN n = DOMAIN r /\ n.job = r.job /\ n.before = r.before
          /\ n.result = r.result /\ n.at = "union" /\ n.want = want
      BY <1>0 DEF Idle
    <3> HIDE DEF n, r, want
    <3>2. QED
      BY <1>0, <2>3, <3>1, GrantGoesOn
  <2>5. Effect
    BY <2>2 DEF Effect
  <2>6. QED
    BY <1>e, <2>1, <2>4, <2>5, BecomesOKNow
<1>2. CASE GrantUnites(p)
  <2> DEFINE had == Exposed(r.job.server)
             want == r.want \cup keep(NamesOf(had), r.seen)
             id == {IdOf(r.job.server)}
  <2>1. /\ r.at = "union" /\ UNCHANGED catalog
        /\ \/ \E at \in {"drop", "create"} :
                Becomes(p, [r EXCEPT !.seen = <<>>, !.had = had, !.ids = id, !.want = want, !.at = at])
           \/ Becomes(p, Faulty([r EXCEPT !.seen = <<>>, !.at = "create"]))
    <3>1. [[r EXCEPT !.seen = <<>>, !.had = had, !.ids = id, !.want = want] EXCEPT !.at = "drop"]
            = [r EXCEPT !.seen = <<>>, !.had = had, !.ids = id, !.want = want, !.at = "drop"]
      OBVIOUS
    <3>2. [[r EXCEPT !.seen = <<>>, !.had = had, !.ids = id, !.want = want] EXCEPT !.at = "create"]
            = [r EXCEPT !.seen = <<>>, !.had = had, !.ids = id, !.want = want, !.at = "create"]
      OBVIOUS
    <3>3. QED
      BY <1>2, <3>1, <3>2 DEF GrantUnites
  <2>2. r.job.server = "FinOps" => \A t \in r.want : t.name \in ToolNames => Distinct(t.name)
    BY <1>0, <2>1 DEF RunOK
  <2>3. ASSUME r.job.server = "FinOps", NEW t \in keep(NamesOf(had), r.seen), t.name \in ToolNames
        PROVE  Distinct(t.name)
    <3>1. PICK name \in NamesOf(had) : t \in match_tool_ids(name, r.seen)
      BY <2>3 DEF keep
    <3>2. PICK u \in had : name = u.name
      BY <3>1 DEF NamesOf
    <3>3. PICK s \in servers : s.name = "FinOps" /\ u \in s.tools
      BY <2>3, <3>2 DEF Exposed
    <3>4. u \in Tools /\ Distinct(u.name)
      BY <3>3 DEF CatalogOK
    <3>5. name \in Seq(Words)
      BY <3>2, <3>4, ToolNamesType DEF Tools
    <3> HIDE DEF r, had
    <3>6. QED
      BY <2>3, <3>1, <3>2, <3>4, <3>5, FoundDistinct
  <2>4. ASSUME NEW at \in {"drop", "create"}
        PROVE  RunOK([r EXCEPT !.seen = <<>>, !.had = had, !.ids = id, !.want = want, !.at = at], gen)
    <3> DEFINE n == [r EXCEPT !.seen = <<>>, !.had = had, !.ids = id, !.want = want, !.at = at]
    <3>1. /\ DOMAIN n = DOMAIN r /\ n.job = r.job /\ n.before = r.before
          /\ n.result = r.result /\ n.at = at /\ n.want = want
      BY <1>0 DEF Idle
    <3>2. r.job.server = "FinOps" => \A t \in want : t.name \in ToolNames => Distinct(t.name)
      BY <2>2, <2>3
    <3> HIDE DEF n, r, want
    <3>3. RunOK(n, gen)
      BY <1>0, <3>1, <3>2, GrantGoesOn
    <3>4. QED
      BY <3>3 DEF n
  <2>5. RunOK([r EXCEPT !.seen = <<>>, !.at = "create"], gen)
    <3> DEFINE n == [r EXCEPT !.seen = <<>>, !.at = "create"]
    <3>1. /\ DOMAIN n = DOMAIN r /\ n.job = r.job /\ n.before = r.before
          /\ n.result = r.result /\ n.at = "create" /\ n.want = r.want
      BY <1>0 DEF Idle
    <3> HIDE DEF n, r
    <3>2. RunOK(n, gen)
      BY <1>0, <2>2, <3>1, GrantGoesOn
    <3>3. QED
      BY <3>2 DEF n
  <2>6. Effect
    BY <2>1 DEF Effect
  <2> HIDE DEF r, had, want, id
  <2>7. QED
    BY <2>1, <2>4, <2>5, <2>6, BecomesOKNow
<1>3. CASE GrantDeletes(p)
  <2> DEFINE n == [r EXCEPT !.at = "create"]
  <2>1. r.at = "drop" /\ (Becomes(p, n) \/ Becomes(p, Faulty(n)))
    BY <1>3 DEF GrantDeletes
  <2>2. Effect
    BY <1>3 DEF GrantDeletes, Effect
  <2>3. RunOK(n, gen)
    <3>1. /\ DOMAIN n = DOMAIN r /\ n.job = r.job /\ n.before = r.before
          /\ n.result = r.result /\ n.at = "create" /\ n.want = r.want
      BY <1>0 DEF Idle
    <3>2. r.job.server = "FinOps" => \A t \in r.want : t.name \in ToolNames => Distinct(t.name)
      BY <1>0, <2>1 DEF RunOK
    <3> HIDE DEF n, r
    <3>3. QED
      BY <1>0, <3>1, <3>2, GrantGoesOn
  <2>4. QED
    BY <2>1, <2>2, <2>3, BecomesOKNow
<1>4. CASE GrantCreates(p)
  <2>1. /\ r.at = "create"
        /\ \/ UNCHANGED catalog
           \/ r.job.server \notin ServerNames /\ CreateServer(r.job.server, r.want)
        /\ \E result \in {"ok", "failed"} : Becomes(p, Ends(r, result))
    BY <1>4 DEF GrantCreates
  <2>2. r.job.server = "FinOps" => \A t \in r.want : t.name \in ToolNames => Distinct(t.name)
    BY <1>0, <2>1 DEF RunOK
  <2>3. r.job.server \in Owners
    BY <1>0 DEF Owners
  <2>4. Effect
    BY <2>1, <2>2, <2>3 DEF Effect, MayMake
  <2>5. QED
    BY <1>e, <2>1, <2>4, BecomesOKNow
<1>5. QED
  BY <1>1, <1>2, <1>3, <1>4

\* The steps of register.py and of the operator's tool.
LEMMA RegisterOK ==
  ASSUME CatalogOK, RunsOK, NEW p \in Processes,
         RegisterDeletes(p) \/ RegisterPosts(p) \/ register_mcp_server(p)
  PROVE  Effect /\ RunsOK'
<1> DEFINE r == run[p]
           b == r.job.backend
<1>0. /\ RunOK(r, gen) /\ DOMAIN r = DOMAIN Idle
      /\ r.at \in {"register", "post", "register_mcp_server"}
      /\ r.job.task \in {"register", "register_mcp_server"} /\ r.job \in Jobs
      /\ r.before \in Nat /\ r.before <= gen[b] /\ b \in Backends
  <2>1. RunOK(r, gen) /\ r.at \in {"register", "post", "register_mcp_server"}
    BY DEF RunsOK, RegisterDeletes, RegisterPosts, register_mcp_server
  <2>2. QED
    BY <2>1, CatalogAssumption DEF RunOK
<1>1. RunOK(Ends(r, "failed"), gen)
  <2> HIDE DEF r
  <2>1. QED
    BY <1>0, EndsOK
<1>2. ASSUME NEW tries
      PROVE  RunOK([r EXCEPT !.at = "post", !.tries = tries], gen)
  <2> DEFINE n == [r EXCEPT !.at = "post", !.tries = tries]
  <2>1. /\ DOMAIN n = DOMAIN r /\ n.job = r.job /\ n.before = r.before
        /\ n.result = r.result /\ n.at = "post"
    BY <1>0 DEF Idle
  <2> HIDE DEF n, r, b
  <2>2. RunOK(n, gen)
    BY <1>0, <2>1 DEF RunOK, SeedStages, b
  <2>3. QED
    BY <2>2 DEF n
<1>3. CASE RegisterDeletes(p)
  <2>1. /\ UNCHANGED catalog \/ Unregister(b)
        /\ Becomes(p, [r EXCEPT !.at = "post", !.tries = 1])
    BY <1>3 DEF RegisterDeletes
  <2>2. Effect
    BY <2>1 DEF Effect
  <2>3. QED
    BY <1>2, <2>1, <2>2, BecomesOKNow
<1>4. ASSUME MayRegister(b), Register(b), Becomes(p, Ends(r, "ok"))
      PROVE  Effect /\ RunsOK'
  <2>1. Effect
    BY <1>0, <1>4 DEF Effect
  <2>2. /\ gen \in [Backends -> Nat] /\ gen' \in [Backends -> Nat]
        /\ \A c \in Backends : gen[c] <= gen'[c]
    BY <2>1, CatalogKept, CatalogAssumption DEF CatalogOK
  <2>3. gen'[b] = gen[b] + 1
    BY <1>0, <1>4, <2>2 DEF Register
  <2>4. r.before < gen'[b]
    BY <1>0, <2>2, <2>3
  <2>5. RunOK(r, gen')
    BY <1>0, <2>2, RunOKLater
  <2>6. RunOK(Ends(r, "ok"), gen')
    <3> HIDE DEF r
    <3>1. QED
      BY <1>0, <2>4, <2>5, EndsOK
  <2>7. QED
    BY <1>4, <2>1, <2>6, BecomesOK
<1>5. ASSUME UNCHANGED catalog \/ (MayRegister(b) /\ Register(b)),
             Becomes(p, Ends(r, "failed")) \/ Becomes(p, [r EXCEPT !.tries = @ + 1, !.at = "post"])
      PROVE  Effect /\ RunsOK'
  <2>1. Effect
    BY <1>0, <1>5 DEF Effect
  <2>2. RunOK([r EXCEPT !.tries = @ + 1, !.at = "post"], gen)
    <3>1. [r EXCEPT !.tries = @ + 1, !.at = "post"] = [r EXCEPT !.at = "post", !.tries = r.tries + 1]
      OBVIOUS
    <3>2. QED
      BY <1>2, <3>1
  <2>3. QED
    BY <1>1, <1>5, <2>1, <2>2, BecomesOKNow
<1>6. CASE RegisterPosts(p)
  <2>1. r.at = "post"
    BY <1>6 DEF RegisterPosts
  <2>2. \/ Again(r) = Ends(r, "failed")
        \/ Again(r) = [r EXCEPT !.tries = @ + 1, !.at = "post"]
    <3>1. [r EXCEPT !.tries = @ + 1] = [r EXCEPT !.tries = @ + 1, !.at = "post"]
      BY <1>0, <2>1 DEF Idle
    <3>2. QED
      BY <3>1 DEF Again
  <2>3. \/ /\ MayRegister(b) /\ Register(b)
           /\ Becomes(p, Ends(r, "ok")) \/ Becomes(p, Again(r))
        \/ UNCHANGED catalog /\ (Becomes(p, Again(r)) \/ Becomes(p, Ends(r, "failed")))
    BY <1>6 DEF RegisterPosts
  <2> HIDE DEF r, b
  <2>4. QED
    BY <1>4, <1>5, <2>2, <2>3
<1>7. CASE register_mcp_server(p)
  <2>1. \/ /\ MayRegister(b) /\ Register(b)
           /\ Becomes(p, Ends(r, "ok")) \/ Becomes(p, Ends(r, "failed"))
        \/ UNCHANGED catalog /\ Becomes(p, Ends(r, "failed"))
    BY <1>7 DEF register_mcp_server
  <2>2. QED
    BY <1>4, <1>5, <2>1
<1>8. QED
  BY <1>3, <1>6, <1>7

\* A script that dies.
LEMMA CrashOK ==
  ASSUME CatalogOK, RunsOK, NEW p \in Processes, Crash(p)
  PROVE  Effect /\ RunsOK'
<1> DEFINE r == run[p]
<1>1. RunOK(r, gen) /\ r.at \notin {"idle", "done"}
  BY DEF RunsOK, Crash
<1>2. RunOK(Ends(r, "failed"), gen)
  <2> HIDE DEF r
  <2>1. QED
    BY <1>1, EndsOK
<1>3. UNCHANGED catalog /\ Becomes(p, Ends(r, "failed"))
  BY DEF Crash
<1>4. Effect
  BY <1>3 DEF Effect
<1>5. QED
  BY <1>2, <1>3, <1>4, BecomesOKNow

\* A script that is started.
LEMMA BeginOK ==
  ASSUME CatalogOK, RunsOK, NEW p \in Processes, NEW job \in Jobs, Begin(p, job)
  PROVE  RunsOK'
<1> DEFINE at == IF job.task = "seed" THEN "mcp" ELSE job.task
           before == IF job.task \in {"register", "register_mcp_server"} THEN gen[job.backend] ELSE 0
           n == [Idle EXCEPT !.job = job, !.at = at, !.before = before]
<1>1. run' = [run EXCEPT ![p] = n] /\ gen' = gen
  BY DEF Begin, catalog
<1>2. /\ DOMAIN n = DOMAIN Idle /\ n.job = job /\ n.at = at /\ n.before = before
      /\ n.result = None
  BY DEF Idle
<1>3. /\ job.task \in Tasks
      /\ job.task \in {"register", "register_mcp_server"} => job.backend \in Backends
  BY CatalogAssumption
<1>4. /\ before \in Nat
      /\ job.task \in {"register", "register_mcp_server"} =>
           before <= gen[job.backend]
  BY <1>3, CatalogAssumption DEF CatalogOK
<1>5. /\ at \in {"mcp", "grant", "register", "register_mcp_server"}
      /\ at = "mcp" => job.task = "seed"
      /\ at # "mcp" => at = job.task
  BY <1>3 DEF Tasks
<1> HIDE DEF n, at, before
<1>6. RunOK(n, gen)
  BY <1>2, <1>4, <1>5, CatalogAssumption DEF RunOK, SeedStages
<1>7. QED
  BY <1>1, <1>6 DEF RunsOK

----------------------------------------------------------------------------
(* The Companion, and the theorems. *)

\* The server of this identity, if there is one, is the analyst's.
AnalystsAre(uuid) == \A s \in servers : s.id = uuid => s.name = "FinOps"

\* The identities that the Companion was told or has handed out.
CompanionOK ==
  /\ {FINOPS, held.uuid} \subseteq 0..made
  /\ held.persona = "analyst" => AnalystsAre(held.uuid)
  /\ AnalystsAre(FINOPS)

\* An identity that was read is one that was given, and the one that is read for
\* the analyst is the analyst's.
LEMMA IdOfIsTheirs ==
  ASSUME CatalogOK, NEW name
  PROVE  /\ IdOf(name) \in 0..made
         /\ \A s \in servers : s.id = IdOf(name) => s.name = name
<1>1. /\ made \in Nat
      /\ \A s \in servers : s.id \in 1..made
  BY DEF CatalogOK
<1>2. CASE name \in ServerNames
  <2> DEFINE c == CHOOSE s \in servers : s.name = name
  <2>1. c \in servers /\ c.name = name
    BY <1>2 DEF ServerNames
  <2>2. IdOf(name) = c.id
    BY <1>2 DEF IdOf
  <2>3. \A s \in servers : s.id = c.id => s = c
    BY <2>1 DEF CatalogOK
  <2> HIDE DEF c
  <2>4. c.id \in 0..made
    BY <1>1, <2>1
  <2>5. QED
    BY <2>1, <2>2, <2>3, <2>4
<1>3. CASE name \notin ServerNames
  BY <1>1, <1>3 DEF IdOf
<1>4. QED
  BY <1>2, <1>3

\* What happens to the catalog leaves the identities theirs.
LEMMA CompanionKept ==
  ASSUME CatalogOK, CompanionOK, Effect, UNCHANGED companion
  PROVE  CompanionOK'
<1>1. FINOPS' = FINOPS /\ held' = held
  BY DEF companion
<1>2. made \in Nat /\ made' \in Nat /\ made <= made'
  BY CatalogKept DEF CatalogOK
<1>3. {FINOPS, held.uuid} \subseteq 0..made'
  BY <1>2 DEF CompanionOK
<1>4. ASSUME NEW u \in 0..made, AnalystsAre(u)
      PROVE  \A s \in servers' : s.id = u => s.name = "FinOps"
  BY <1>4, CatalogKept DEF AnalystsAre
<1>5. QED
  BY <1>1, <1>3, <1>4 DEF CompanionOK, AnalystsAre

\* The Companion's own steps.
LEMMA CompanionSteps ==
  ASSUME CatalogOK, CompanionOK,
         CompanionStarts \/ \E persona \in {"analyst", "operator"} : bob_settings(persona)
  PROVE  CompanionOK'
<1>1. servers' = servers /\ made' = made
  BY DEF CompanionStarts, bob_settings, catalog
<1>2. made \in Nat /\ AnalystsAre(0)
  BY DEF CatalogOK, AnalystsAre
<1>3. AnalystsAre(IdOf("FinOps"))
  BY IdOfIsTheirs DEF AnalystsAre
<1>4. CASE CompanionStarts
  <2>1. FINOPS' \in {IdOf("FinOps"), 0} /\ held' = held
    BY <1>4 DEF CompanionStarts
  <2>2. FINOPS' \in 0..made /\ \A s \in servers : s.id = FINOPS' => s.name = "FinOps"
    BY <1>2, <1>3, <2>1, IdOfIsTheirs DEF AnalystsAre
  <2>3. QED
    BY <1>1, <2>1, <2>2 DEF CompanionOK, AnalystsAre
<1>5. CASE \E persona \in {"analyst", "operator"} : bob_settings(persona)
  <2>1. PICK persona \in {"analyst", "operator"}, readable \in BOOLEAN :
          /\ held' = [persona |-> persona, uuid |-> _connect_info(readable)[persona]]
          /\ FINOPS' = FINOPS
    BY <1>5 DEF bob_settings
  <2> DEFINE uuid == _connect_info(readable)[persona]
  <2>2. \/ uuid \in {IdOf("FinOps"), FINOPS, 0}
        \/ persona = "operator" /\ uuid = IdOf("Operator")
    BY <2>1 DEF _connect_info, _server_uuids
  <2>3. uuid \in 0..made
    BY <1>2, <2>2, IdOfIsTheirs DEF CompanionOK
  <2>4. persona = "analyst" => \A s \in servers : s.id = uuid => s.name = "FinOps"
    BY <1>2, <1>3, <2>2 DEF CompanionOK, AnalystsAre
  <2> HIDE DEF uuid
  <2>5. held'.persona = persona /\ held'.uuid = uuid
    BY <2>1 DEF uuid
  <2>6. QED
    BY <1>1, <2>1, <2>3, <2>4, <2>5 DEF CompanionOK, AnalystsAre
<1>6. QED
  BY <1>4, <1>5

\* The inductive invariant.
Inv == CatalogOK /\ RunsOK /\ CompanionOK

\* Every initial catalog has it.
LEMMA InvInit ==
  ASSUME Init
  PROVE  Inv
<1>1. CatalogOK
  <2>1. listed \in Seq(Backends) /\ IsInjective(listed)
    BY CatalogAssumption DEF Init
  <2>2. made = 0 /\ servers = {}
    BY DEF Init
  <2>3. {0, 1} \subseteq 0..MaxGen
    BY CatalogAssumption
  <2>4. gen = [b \in Backends |-> IF b \in Registered THEN 1 ELSE 0]
    BY DEF Init
  <2>5. Registered \subseteq Backends
    BY <2>1 DEF Registered, ToSet
  <2>6. QED
    BY <2>1, <2>2, <2>3, <2>4, <2>5 DEF CatalogOK
<1>2. RunsOK
  <2>1. run = [p \in Processes |-> Idle]
    BY DEF Init
  <2>2. RunOK(Idle, gen)
    BY CatalogAssumption DEF RunOK, Idle, SeedStages
  <2>3. QED
    BY <2>1, <2>2 DEF RunsOK
<1>3. CompanionOK
  BY CatalogAssumption DEF Init, CompanionOK, AnalystsAre
<1>4. QED
  BY <1>1, <1>2, <1>3 DEF Inv

\* Every step keeps it.
LEMMA InvNext ==
  ASSUME Inv, [Next]_vars
  PROVE  Inv'
<1> USE DEF Inv
<1>1. ASSUME NEW p \in Processes, OwnStep(p) \/ Crash(p)
      PROVE  Inv'
  <2>1. Effect /\ RunsOK'
    BY <1>1, SeedRegistersOK, SeedServersOK, GrantOK, RegisterOK, CrashOK DEF OwnStep
  <2>2. \E r : Becomes(p, r)
    <3>1. CASE Crash(p)
      BY <3>1 DEF Crash
    <3>2. CASE SeedReads(p) \/ SeedPosts(p) \/ SeedDropsFxRates(p) \/ SeedListsTools(p)
      BY <3>2 DEF SeedReads, SeedPosts, SeedDropsFxRates, SeedListsTools
    <3>3. CASE SeedReadsServers(p) \/ SeedDeletes(p) \/ SeedMakes(p) \/ SeedEnds(p)
      BY <3>3 DEF SeedReadsServers, SeedDeletes, SeedMakes, SeedEnds
    <3>4. CASE GrantReads(p) \/ GrantUnites(p) \/ GrantDeletes(p) \/ GrantCreates(p)
      BY <3>4 DEF GrantReads, GrantUnites, GrantDeletes, GrantCreates
    <3>5. CASE RegisterDeletes(p) \/ RegisterPosts(p) \/ register_mcp_server(p)
      BY <3>5 DEF RegisterDeletes, RegisterPosts, register_mcp_server
    <3>6. QED
      BY <1>1, <3>1, <3>2, <3>3, <3>4, <3>5 DEF OwnStep
  <2>3. UNCHANGED companion
    BY <2>2 DEF Becomes
  <2>4. QED
    BY <2>1, <2>3, CatalogKept, CompanionKept
<1>2. ASSUME NEW p \in Processes, NEW job \in Jobs, Begin(p, job)
      PROVE  Inv'
  <2>1. UNCHANGED <<catalog, companion>>
    BY <1>2 DEF Begin
  <2>2. Effect
    BY <2>1 DEF Effect
  <2>3. QED
    BY <1>2, <2>1, <2>2, BeginOK, CatalogKept, CompanionKept
<1>3. ASSUME CompanionStarts \/ \E persona \in {"analyst", "operator"} : bob_settings(persona)
      PROVE  Inv'
  <2>1. UNCHANGED <<catalog, run>>
    BY <1>3 DEF CompanionStarts, bob_settings
  <2>2. Effect
    BY <2>1 DEF Effect
  <2>3. RunsOK'
    BY <2>1 DEF RunsOK, catalog
  <2>4. QED
    BY <1>3, <2>2, <2>3, CatalogKept, CompanionSteps
<1>4. CASE UNCHANGED vars
  <2>1. UNCHANGED <<catalog, run, companion>>
    BY <1>4 DEF vars
  <2>2. Effect
    BY <2>1 DEF Effect
  <2>3. RunsOK'
    BY <2>1 DEF RunsOK, catalog
  <2>4. QED
    BY <2>1, <2>2, <2>3, CatalogKept, CompanionKept
<1>5. QED
  BY <1>1, <1>2, <1>3, <1>4 DEF Next

\* The invariant of the administration: whatever runs beside whatever, what is on
\* its way into the analyst's server was found by a name distinct from all that
\* is beyond it, and an identity that was the analyst's is nobody else's.
THEOREM Invariance == Spec => []Inv
<1>1. Init => Inv
  BY InvInit
<1>2. Inv /\ [Next]_vars => Inv'
  BY InvNext
<1>3. QED
  BY <1>1, <1>2, PTL DEF Spec

\* The catalog has no backend twice, two servers of one name or of one identity,
\* nor a server of anybody but a persona or the one whom tools are granted to;
\* a script has a result when it is done, and only then.
THEOREM TypeCorrect == Spec => []TypeOK
<1>1. Inv => TypeOK
  BY DEF Inv, CatalogOK, RunsOK, RunOK, CompanionOK, TypeOK
<1>2. QED
  BY <1>1, Invariance, PTL

\* The analyst's server never exposes the wire, however seeds, registrations and
\* grants interleave, fail or die, and in whatever order the tools are listed.
THEOREM LeastPrivileged == Spec => []LeastPrivilege
<1>1. ASSUME Inv
      PROVE  LeastPrivilege
  <2>1. ~Distinct(Wire)
    BY BeyondNotDistinct DEF Beyond
  <2>2. ASSUME Wire \in NamesOf(Exposed("FinOps"))
        PROVE  FALSE
    <3>1. PICK t \in Exposed("FinOps") : Wire = t.name
      BY <2>2 DEF NamesOf
    <3>2. Distinct(t.name)
      BY <1>1, <3>1 DEF Exposed, Inv, CatalogOK
    <3>3. QED
      BY <2>1, <3>1, <3>2
  <2>3. QED
    BY <2>2 DEF LeastPrivilege
<1>2. QED
  BY <1>1, Invariance, PTL

\* A connection handed to an analyst, or the identity that the Companion was told
\* at its start, never comes to lead to the wire or to an operator's tool,
\* whatever is reseeded, registered or granted afterwards.
THEOREM ScopeKept == Spec => []AnalystKeepsItsScope
<1>1. ASSUME Inv
      PROVE  AnalystKeepsItsScope
  <2>1. ASSUME NEW uuid, AnalystsAre(uuid)
        PROVE  NamesOf(Behind(uuid)) \cap Beyond = {}
    <3> SUFFICES ASSUME NEW name \in NamesOf(Behind(uuid)), name \in Beyond
                 PROVE  FALSE
      OBVIOUS
    <3>1. PICK t \in Behind(uuid) : name = t.name
      BY DEF NamesOf
    <3>2. Distinct(t.name)
      BY <1>1, <2>1, <3>1 DEF Behind, AnalystsAre, Inv, CatalogOK
    <3>3. QED
      BY <3>1, <3>2, BeyondNotDistinct
  <2>2. Wire \in Beyond
    BY DEF Beyond
  <2>3. QED
    BY <1>1, <2>1, <2>2 DEF Inv, CompanionOK, AnalystKeepsItsScope, finops_tools
<1>2. QED
  BY <1>1, Invariance, PTL

\* A registration that register.py or the operator's tool reports as done is one
\* made since that script began, whoever else registers or removes the backend.
THEOREM RegistrationIsFresh == Spec => []RegisteredIsFresh
<1>1. ASSUME Inv, NEW p \in Processes, run[p].result = "ok",
             run[p].job.task \in {"register", "register_mcp_server"}
      PROVE  gen[run[p].job.backend] > run[p].before
  <2> DEFINE r == run[p]
             b == r.job.backend
  <2>1. RunOK(r, gen)
    BY <1>1 DEF Inv, RunsOK
  <2>2. r.before \in Nat /\ r.before < gen[b] /\ r.job \in Jobs
    BY <1>1, <2>1, CatalogAssumption DEF RunOK
  <2>3. gen[b] \in Nat
    BY <1>1, <2>2, CatalogAssumption DEF Inv, CatalogOK
  <2> HIDE DEF r, b
  <2>4. gen[b] > r.before
    BY <2>2, <2>3
  <2>5. QED
    BY <2>4 DEF r, b
<1>2. Inv => RegisteredIsFresh
  BY <1>1 DEF RegisteredIsFresh
<1>3. QED
  BY <1>2, Invariance, PTL

----------------------------------------------------------------------------
(* What an undisturbed script has done. *)

\* The tools that the gateway has.
AllTools == UNION {ToSet(OfBackend(b)) : b \in Registered}

\* No virtual server has a tool that the gateway has not.
AreCurrent == \A s \in servers : s.tools \subseteq AllTools

\* One of the servers S shows, under this name, a tool of the name n.
Shows(S, name, n) == \E s \in S : s.name = name /\ n \in NamesOf(s.tools)

\* The analyst is to have the tool that is listed as n.
ForAnalyst(n) ==
  \E b \in Backends : \E w \in ToSet(ToolsOf(b)) :
    n = Slug(b) \o w /\ {w, n} \cap ToSet(FinOps.wants) # {}

\* The tool that is listed as n was asked for by the name its backend has for it.
Asked(names, n) ==
  \E b \in Backends : \E w \in ToSet(ToolsOf(b)) : n = Slug(b) \o w /\ w \in ToSet(names)

\* Of the tools A, the servers S give the analyst those that are for the analyst.
Served(A, S) == \A t \in A : ForAnalyst(t.name) => Shows(S, "FinOps", t.name)

\* What seed.py knows and has done when the gateway has the tools A and the
\* servers S.
SeedOK(r, A, S) ==
  /\ r.at \in {"servers", "delete", "make"} => r.seen \in Seq(Tools) /\ ToSet(r.seen) = A
  /\ r.at = "servers" => r.todo = Personas
  /\ r.at \in {"delete", "make"} =>
       r.todo \in {Personas, <<Treasury, Operator>>, <<Operator>>, <<>>}
  /\ r.at \in {"delete", "make"} =>
       \A x \in ToSet(r.todo), s \in S : s.name = x.name => s.id \in r.ids
  /\ r.at = "make" => \A s \in S : s.name # Head(r.todo).name
  /\ r.at \in {"delete", "make"} /\ r.todo # Personas => Served(A, S)
  /\ r.at = "done" /\ r.job.task = "seed" /\ r.result = "ok" => Served(A, S)

\* The same of grant.py.
GrantRunOK(r, A, S) ==
  /\ r.at = "union" => r.seen \in Seq(Tools) /\ ToSet(r.seen) = A
  /\ r.at \in {"union", "drop", "create"} =>
       /\ r.want \subseteq A
       /\ \A t \in A : Asked(r.job.names, t.name) => t.name \in NamesOf(r.want)
  /\ r.at \in {"drop", "create"} => NamesOf(r.had) \subseteq NamesOf(r.want)
  /\ r.at = "done" /\ r.job.task = "grant" /\ r.result = "ok" =>
       /\ \A n \in NamesOf(r.had) : Shows(S, r.job.server, n)
       /\ \A t \in A : Asked(r.job.names, t.name) => Shows(S, r.job.server, t.name)

\* Nothing is promised of a script that a fault or another script disturbed.
CleanOK(r, A, S) == r.clean => SeedOK(r, A, S) /\ GrantRunOK(r, A, S)
CleanRuns == \A p \in Processes : CleanOK(run[p], AllTools, servers)

\* A backend's part of the gateway's list.
LEMMA OfBackendType ==
  ASSUME CatalogOK, NEW b \in Backends
  PROVE  /\ OfBackend(b) \in Seq(Tools)
         /\ \A t \in ToSet(OfBackend(b)) : t.of = b
         /\ \A w \in ToSet(ToolsOf(b)) : \E t \in ToSet(OfBackend(b)) : t.name = Slug(b) \o w
<1> DEFINE ts == ToolsOf(b)
           f == [k \in 1..Len(ts) |-> [name |-> Slug(b) \o ts[k], of |-> b, gen |-> gen[b]]]
<1>1. OfBackend(b) = f
  BY DEF OfBackend
<1>2. ts \in Seq(Seq(Words))
  BY ToolsOfType
<1>3. gen[b] \in Nat
  BY CatalogAssumption DEF CatalogOK
<1>4. ASSUME NEW k \in 1..Len(ts)
      PROVE  f[k] \in Tools
  <2>1. ts[k] \in ToSet(ts)
    BY <1>2 DEF ToSet
  <2>2. Slug(b) \o ts[k] \in ToolNames
    BY <2>1 DEF ToolNames
  <2>3. f[k] = [name |-> Slug(b) \o ts[k], of |-> b, gen |-> gen[b]]
    OBVIOUS
  <2> HIDE DEF ts, f
  <2>4. QED
    BY <1>3, <2>2, <2>3 DEF Tools
<1>5. f \in Seq(Tools) /\ DOMAIN f = 1..Len(ts) /\ DOMAIN ts = 1..Len(ts)
  <2> DEFINE m == Len(ts)
  <2>1. m \in Nat /\ DOMAIN ts = 1..m
    BY <1>2
  <2>2. DOMAIN f = 1..m /\ f = [k \in 1..m |-> f[k]]
    OBVIOUS
  <2>3. \A k \in 1..m : f[k] \in Tools
    BY <1>4
  <2> HIDE DEF m, f, ts
  <2>4. f \in [1..m -> Tools]
    BY <2>2, <2>3
  <2>5. f \in Seq(Tools)
    BY <2>1, <2>4
  <2>6. QED
    BY <2>1, <2>2, <2>5 DEF m
<1>6. \A k \in 1..Len(ts) : f[k].of = b /\ f[k].name = Slug(b) \o ts[k]
  OBVIOUS
<1> HIDE DEF f, ts
<1>7. QED
  BY <1>1, <1>5, <1>6 DEF ToSet, ts

\* The gateway lists all the tools it has, and no other, in either order.
LEMMA ToolListHasAll ==
  ASSUME CatalogOK
  PROVE  ToolList \in Seq(Tools) /\ ToSet(ToolList) = AllTools
<1> DEFINE n == Len(listed)
           place(k) == IF newestFirst THEN n + 1 - k ELSE k
           seqs == [k \in 1..n |-> OfBackend(listed[place(k)])]
<1>1. listed \in Seq(Backends) /\ n \in Nat /\ DOMAIN listed = 1..n
  BY DEF CatalogOK
<1>2. \A k \in 1..n : place(k) \in 1..n /\ place(place(k)) = k
  BY <1>1
<1>3. \A k \in 1..n : listed[k] \in Backends /\ OfBackend(listed[k]) \in Seq(Tools)
  BY <1>1, OfBackendType
<1>4. ToolList = FlattenSeq(seqs)
  BY DEF ToolList
<1> HIDE DEF n, place
<1>5. seqs \in Seq(Seq(Tools)) /\ DOMAIN seqs = 1..n
  BY <1>1, <1>2, <1>3
<1>6. \A k \in 1..n : seqs[k] = OfBackend(listed[place(k)])
  OBVIOUS
<1> HIDE DEF seqs
<1>7. ToolList \in Seq(Tools) /\ ToSet(ToolList) = UNION {ToSet(seqs[k]) : k \in 1..n}
  BY <1>4, <1>5, Flattened
<1>8. ASSUME NEW t
      PROVE  t \in AllTools <=> \E k \in 1..n : t \in ToSet(seqs[k])
  <2>1. t \in AllTools <=> \E k \in 1..n : t \in ToSet(OfBackend(listed[k]))
    <3>1. \A b : b \in Registered <=> \E k \in 1..n : b = listed[k]
      BY <1>1 DEF Registered, ToSet
    <3>2. QED
      BY <3>1 DEF AllTools
  <2>2. QED
    BY <1>2, <1>6, <2>1
<1>9. QED
  BY <1>7, <1>8

\* While the backends are the same, so are the tools.
LEMMA SameTools ==
  ASSUME listed' = listed, gen' = gen
  PROVE  AllTools' = AllTools
BY DEF AllTools, Registered, OfBackend

\* The tools of a backend go with it.
LEMMA CurrentKept ==
  ASSUME CatalogOK, AreCurrent, Effect
  PROVE  AreCurrent'
<1>r. \A b \in Registered : b \in Backends
  BY DEF CatalogOK, Registered, ToSet
<1>1. CASE UNCHANGED catalog
  BY <1>1, SameTools DEF catalog, AreCurrent
<1>2. ASSUME NEW b \in Backends, MayRegister(b), Register(b)
      PROVE  AreCurrent'
  <2>1. /\ listed' = Append(listed, b) /\ gen' = [gen EXCEPT ![b] = gen[b] + 1]
        /\ servers' = servers
    BY <1>2 DEF Register
  <2>2. b \notin Registered
    BY <1>2 DEF MayRegister
  <2>3. ASSUME NEW c \in Registered
        PROVE  c \in Registered' /\ OfBackend(c)' = OfBackend(c)
    <3>1. gen'[c] = gen[c]
      BY <1>r, <2>1, <2>2 DEF CatalogOK
    <3>2. c \in ToSet(listed')
      <4>1. PICK i \in DOMAIN listed : c = listed[i]
        BY DEF Registered, ToSet
      <4>2. i \in DOMAIN listed' /\ listed'[i] = c
        BY <2>1, <4>1 DEF CatalogOK
      <4>3. QED
        BY <4>2 DEF ToSet
    <3>3. QED
      BY <3>1, <3>2 DEF Registered, OfBackend
  <2>4. AllTools \subseteq AllTools'
    BY <2>3 DEF AllTools
  <2>5. QED
    BY <2>1, <2>4 DEF AreCurrent
<1>3. ASSUME NEW b, Unregister(b)
      PROVE  AreCurrent'
  <2>1. /\ listed' = RemoveFirst(listed, b) /\ gen' = gen
        /\ servers' = {[s EXCEPT !.tools = {t \in @ : t.of # b}] : s \in servers}
    BY <1>3 DEF Unregister
  <2>2. ASSUME NEW t \in AllTools, t.of # b
        PROVE  t \in AllTools'
    <3>1. PICK c \in Registered : t \in ToSet(OfBackend(c))
      BY DEF AllTools
    <3>2. c # b
      BY <1>r, <2>2, <3>1, OfBackendType
    <3>3. c \in Registered'
      BY <2>1, <3>2, RemoveFirstKeeps DEF CatalogOK, Registered
    <3>4. OfBackend(c)' = OfBackend(c)
      BY <2>1 DEF OfBackend
    <3>5. QED
      BY <3>1, <3>3, <3>4 DEF AllTools
  <2>3. ASSUME NEW x \in servers', NEW t \in x.tools
        PROVE  t \in AllTools'
    <3>1. PICK s \in servers : x = [s EXCEPT !.tools = {u \in @ : u.of # b}]
      BY <2>1
    <3>2. s \in [name : Owners, id : 1..made, tools : SUBSET Tools]
      BY DEF CatalogOK
    <3>3. t \in s.tools /\ t.of # b
      BY <2>3, <3>1, <3>2
    <3>4. QED
      BY <2>2, <3>3 DEF AreCurrent
  <2>4. QED
    BY <2>3 DEF AreCurrent
<1>4. ASSUME NEW id, DeleteServer(id)
      PROVE  AreCurrent'
  BY <1>4, SameTools DEF DeleteServer, AreCurrent
<1>5. ASSUME NEW name, NEW tools, CreateServer(name, tools)
      PROVE  AreCurrent'
  <2>1. /\ servers' = servers \cup {[name |-> name, id |-> made + 1, tools |-> Current(tools)]}
        /\ AllTools' = AllTools
    BY <1>5, SameTools DEF CreateServer
  <2>2. Current(tools) \subseteq AllTools
    BY DEF Current, AllTools
  <2>3. QED
    BY <2>1, <2>2 DEF AreCurrent
<1>6. QED
  BY <1>1, <1>2, <1>3, <1>4, <1>5 DEF Effect

\* At these places a script has promised nothing yet.
LEMMA NothingPromised ==
  ASSUME NEW n, NEW A, NEW S,
         n.at \notin {"servers", "delete", "make", "union", "drop", "create"},
         n.at = "done" => n.result # "ok" \/ n.job.task \notin {"seed", "grant"}
  PROVE  CleanOK(n, A, S)
BY DEF CleanOK, SeedOK, GrantRunOK

\* What holds of an undisturbed run holds of a run that was disturbed meanwhile.
LEMMA CleanDisturbed ==
  ASSUME NEW r, DOMAIN r = DOMAIN Idle, NEW A, NEW S, NEW x, x => r.clean,
         x => CleanOK(r, A, S)
  PROVE  CleanOK([r EXCEPT !.clean = x], A, S)
<1> DEFINE n == [r EXCEPT !.clean = x]
<1>1. /\ n.at = r.at /\ n.job = r.job /\ n.result = r.result /\ n.todo = r.todo
      /\ n.want = r.want /\ n.seen = r.seen /\ n.ids = r.ids /\ n.had = r.had
      /\ n.clean = x
  BY DEF Idle
<1> HIDE DEF n
<1>2. ASSUME n.clean
      PROVE  SeedOK(n, A, S) /\ GrantRunOK(n, A, S)
  <2>1. SeedOK(r, A, S) /\ GrantRunOK(r, A, S)
    BY <1>1, <1>2 DEF CleanOK
  <2>2. SeedOK(n, A, S)
    BY <1>1, <2>1 DEF SeedOK
  <2>3. GrantRunOK(n, A, S)
    BY <1>1, <2>1 DEF GrantRunOK
  <2>4. QED
    BY <2>2, <2>3
<1>3. CleanOK(n, A, S)
  BY <1>2 DEF CleanOK
<1>4. QED
  BY <1>3 DEF n

\* A step of one terminal: what it makes of its own run is as promised, or it met
\* a fault; the others are disturbed when the catalog changes.
LEMMA CleanStep ==
  ASSUME RunsOK, CleanRuns, NEW p \in Processes, NEW n, DOMAIN n = DOMAIN Idle,
         \/ Becomes(p, n) /\ CleanOK(n, AllTools', servers')
         \/ Becomes(p, Faulty(n))
  PROVE  CleanRuns'
<1>1. PICK m : Becomes(p, m) /\ CleanOK(m, AllTools', servers')
  <2>1. CleanOK(Faulty(n), AllTools', servers')
    <3>1. Faulty(n).clean = FALSE
      BY DEF Faulty, Idle
    <3>2. QED
      BY <3>1 DEF CleanOK
  <2>2. QED
    BY <2>1
<1>2. run' = [q \in Processes |-> IF q = p THEN m
                                  ELSE [run[q] EXCEPT !.clean = @ /\ catalog' = catalog]]
  BY <1>1 DEF Becomes
<1>3. ASSUME NEW q \in Processes, q # p
      PROVE  CleanOK(run'[q], AllTools', servers')
  <2> DEFINE x == run[q].clean /\ catalog' = catalog
  <2>1. run'[q] = [run[q] EXCEPT !.clean = x]
    BY <1>2, <1>3
  <2>2. DOMAIN run[q] = DOMAIN Idle
    BY DEF RunsOK, RunOK
  <2>3. x => AllTools' = AllTools /\ servers' = servers
    BY SameTools DEF catalog
  <2>4. x => CleanOK(run[q], AllTools', servers')
    BY <2>3 DEF CleanRuns
  <2>5. x => run[q].clean
    OBVIOUS
  <2> HIDE DEF x
  <2>6. QED
    BY <2>1, <2>2, <2>4, <2>5, CleanDisturbed
<1>4. run'[p] = m
  BY <1>2
<1>5. QED
  BY <1>1, <1>3, <1>4 DEF CleanRuns

\* The steps after which nothing is promised yet.
LEMMA CleanBefore ==
  ASSUME RunsOK, CleanRuns, NEW p \in Processes,
         \/ SeedReads(p) \/ SeedPosts(p) \/ SeedDropsFxRates(p)
         \/ RegisterDeletes(p) \/ RegisterPosts(p) \/ register_mcp_server(p) \/ Crash(p)
  PROVE  CleanRuns'
<1> DEFINE r == run[p]
           Quiet(n) ==
             /\ DOMAIN n = DOMAIN Idle
             /\ n.at \notin {"servers", "delete", "make", "union", "drop", "create"}
             /\ n.at = "done" => n.result # "ok" \/ n.job.task \notin {"seed", "grant"}
<1>0. RunOK(r, gen) /\ DOMAIN r = DOMAIN Idle
  BY DEF RunsOK, RunOK
<1>1. ASSUME NEW n, Quiet(n), Becomes(p, n) \/ Becomes(p, Faulty(n))
      PROVE  CleanRuns'
  <2>1. CleanOK(n, AllTools', servers')
    BY <1>1, NothingPromised
  <2>2. QED
    BY <1>1, <2>1, CleanStep
<1>2. ASSUME NEW result, result # "ok" \/ r.job.task \notin {"seed", "grant"},
             Becomes(p, Ends(r, result))
      PROVE  CleanRuns'
  <2>1. Quiet(Ends(r, result))
    BY <1>2 DEF Ends, Idle
  <2> HIDE DEF Quiet, r
  <2>2. QED
    BY <1>1, <1>2, <2>1
<1>3. CASE SeedReads(p)
  <2>1. PICK todo, at :
          LET n == [r EXCEPT !.todo = todo, !.at = at]
          IN  /\ at \in {"post mcp", "post a2a"}
              /\ Becomes(p, n) \/ Becomes(p, Faulty(n))
    BY <1>3 DEF SeedReads
  <2>2. Quiet([r EXCEPT !.todo = todo, !.at = at])
    BY <1>0, <2>1 DEF Idle
  <2> HIDE DEF Quiet
  <2>3. QED
    BY <1>1, <2>1, <2>2
<1>4. CASE SeedPosts(p)
  <2> DEFINE next == [r EXCEPT !.todo = Tail(@)]
  <2>1. r.at \in {"post mcp", "post a2a"}
    BY <1>4 DEF SeedPosts
  <2>2. \/ \E at \in {"fx-rates", "tools"} : Becomes(p, [r EXCEPT !.at = at])
        \/ Becomes(p, next) \/ Becomes(p, Faulty(next))
    BY <1>4 DEF SeedPosts
  <2>3. ASSUME NEW at \in {"fx-rates", "tools"}
        PROVE  Quiet([r EXCEPT !.at = at])
    BY <1>0 DEF Idle
  <2>4. Quiet(next)
    BY <1>0, <2>1 DEF Idle
  <2> HIDE DEF Quiet, next
  <2>5. QED
    BY <1>1, <2>2, <2>3, <2>4
<1>5. CASE SeedDropsFxRates(p)
  <2> DEFINE next == [r EXCEPT !.at = "a2a"]
  <2>1. Becomes(p, next) \/ Becomes(p, Faulty(next))
    BY <1>5 DEF SeedDropsFxRates
  <2>2. Quiet(next)
    BY <1>0 DEF Idle
  <2> HIDE DEF Quiet, next
  <2>3. QED
    BY <1>1, <2>1, <2>2
<1>6. CASE RegisterDeletes(p)
  <2> DEFINE next == [r EXCEPT !.at = "post", !.tries = 1]
  <2>1. Becomes(p, next)
    BY <1>6 DEF RegisterDeletes
  <2>2. Quiet(next)
    BY <1>0 DEF Idle
  <2> HIDE DEF Quiet, next
  <2>3. QED
    BY <1>1, <2>1, <2>2
<1>7. CASE RegisterPosts(p)
  <2> DEFINE next == [r EXCEPT !.tries = @ + 1]
  <2>1. r.at = "post" /\ r.job.task \notin {"seed", "grant"}
    BY <1>0, <1>7 DEF RegisterPosts, RunOK
  <2>2. Becomes(p, next) \/ \E result : Becomes(p, Ends(r, result))
    BY <1>7 DEF RegisterPosts, Again
  <2>3. Quiet(next)
    BY <1>0, <2>1 DEF Idle
  <2> HIDE DEF Quiet, next, r
  <2>4. QED
    BY <1>1, <1>2, <2>1, <2>2, <2>3
<1>8. CASE register_mcp_server(p)
  <2>1. r.job.task \notin {"seed", "grant"}
    BY <1>0, <1>8 DEF register_mcp_server, RunOK
  <2>2. \E result : Becomes(p, Ends(r, result))
    BY <1>8 DEF register_mcp_server
  <2> HIDE DEF r
  <2>3. QED
    BY <1>2, <2>1, <2>2
<1>9. CASE Crash(p)
  <2>1. Becomes(p, Ends(r, "failed"))
    BY <1>9 DEF Crash
  <2> HIDE DEF r
  <2>2. QED
    BY <1>2, <2>1
<1>10. QED
  BY <1>3, <1>4, <1>5, <1>6, <1>7, <1>8, <1>9

\* A script that is started has promised nothing.
LEMMA CleanBegin ==
  ASSUME RunsOK, CleanRuns, NEW p \in Processes, NEW job \in Jobs, Begin(p, job)
  PROVE  CleanRuns'
<1>1. PICK n : /\ run' = [run EXCEPT ![p] = n]
               /\ \E at \in {"mcp", job.task} : \E before :
                    n = [Idle EXCEPT !.job = job, !.at = at, !.before = before]
  BY DEF Begin
<1>2. AllTools' = AllTools /\ servers' = servers
  BY SameTools DEF Begin, catalog
<1>3. n.at \in {"mcp", "seed", "grant", "register", "register_mcp_server"}
  <2>1. job.task \in Tasks
    BY CatalogAssumption
  <2>2. n.at \in {"mcp", job.task}
    BY <1>1 DEF Idle
  <2>3. QED
    BY <2>1, <2>2 DEF Tasks
<1>4. CleanOK(n, AllTools, servers)
  BY <1>3, NothingPromised
<1>5. \A q \in Processes : run'[q] = n \/ run'[q] = run[q]
  BY <1>1 DEF RunsOK
<1>6. QED
  BY <1>2, <1>4, <1>5 DEF CleanRuns

\* The identity of a server is found by its name.
LEMMA IdOfServer ==
  ASSUME CatalogOK, NEW s \in servers
  PROVE  IdOf(s.name) = s.id
<1>1. s.name \in ServerNames
  BY DEF ServerNames
<1> DEFINE c == CHOOSE x \in servers : x.name = s.name
<1>2. c \in servers /\ c.name = s.name
  OBVIOUS
<1>3. c = s
  BY <1>2 DEF CatalogOK
<1>4. QED
  BY <1>1, <1>3 DEF IdOf

\* The personas that seed.py has still to serve.
LEMMA StillToServe ==
  ASSUME NEW todo \in {Personas, <<Treasury, Operator>>, <<Operator>>, <<>>}, todo # <<>>
  PROVE  /\ Tail(todo) \in {<<Treasury, Operator>>, <<Operator>>, <<>>}
         /\ ToSet(Tail(todo)) \subseteq ToSet(todo)
         /\ Head(todo) \in ToSet(todo)
         /\ \A x \in ToSet(Tail(todo)) : x.name # Head(todo).name
         /\ todo = Personas => Head(todo) = FinOps
         /\ todo # Personas => Head(todo).name # "FinOps"
<1>n. /\ FinOps.name = "FinOps" /\ Treasury.name = "Treasury" /\ Operator.name = "Operator"
  BY DEF FinOps, Treasury, Operator
<1>1. CASE todo = Personas
  <2>1. todo = <<FinOps, Treasury, Operator>>
    BY <1>1 DEF Personas
  <2>2. Head(todo) = FinOps /\ Tail(todo) = <<Treasury, Operator>>
    BY <2>1
  <2>3. ToSet(todo) = {FinOps, Treasury, Operator} /\ ToSet(Tail(todo)) = {Treasury, Operator}
    BY <2>1, <2>2 DEF ToSet
  <2>4. QED
    BY <1>1, <1>n, <2>2, <2>3
<1>2. CASE todo = <<Treasury, Operator>>
  <2>1. Head(todo) = Treasury /\ Tail(todo) = <<Operator>>
    BY <1>2
  <2>2. ToSet(todo) = {Treasury, Operator} /\ ToSet(Tail(todo)) = {Operator}
    BY <1>2, <2>1 DEF ToSet
  <2>3. todo # Personas
    BY <1>2 DEF Personas
  <2>4. QED
    BY <1>2, <1>n, <2>1, <2>2, <2>3
<1>3. CASE todo = <<Operator>>
  <2>1. Head(todo) = Operator /\ Tail(todo) = <<>>
    BY <1>3
  <2>2. ToSet(todo) = {Operator} /\ ToSet(Tail(todo)) = {}
    BY <1>3, <2>1 DEF ToSet
  <2>3. todo # Personas
    BY <1>3 DEF Personas
  <2>4. QED
    BY <1>3, <1>n, <2>1, <2>2, <2>3
<1>4. QED
  BY <1>1, <1>2, <1>3

\* What is shown is still shown by more servers, or when one of another name goes.
LEMMA StillServed ==
  ASSUME NEW A, NEW S, Served(A, S), NEW T, \A s \in S : s.name = "FinOps" => s \in T
  PROVE  Served(A, T)
BY DEF Served, Shows

\* The server that seed.py makes for the analyst shows what is for the analyst.
LEMMA SeedServes ==
  ASSUME NEW seen \in Seq(Tools), ToSet(seen) = AllTools, NEW S,
         \E s \in S : /\ s.name = "FinOps"
                      /\ s.tools = Current(UNION {ids(FinOps.wants[k], seen) : k \in DOMAIN FinOps.wants})
  PROVE  Served(AllTools, S)
<1> DEFINE found == UNION {ids(FinOps.wants[k], seen) : k \in DOMAIN FinOps.wants}
<1>1. ASSUME NEW t \in AllTools, ForAnalyst(t.name)
      PROVE  t.name \in NamesOf(Current(found))
  <2>1. PICK b \in Backends : \E w \in ToSet(ToolsOf(b)) :
          t.name = Slug(b) \o w /\ {w, t.name} \cap ToSet(FinOps.wants) # {}
    BY <1>1 DEF ForAnalyst
  <2>2. PICK w \in ToSet(ToolsOf(b)) :
          t.name = Slug(b) \o w /\ {w, t.name} \cap ToSet(FinOps.wants) # {}
    BY <2>1
  <2>3. PICK want \in ToSet(FinOps.wants) : want \in {w, Slug(b) \o w}
    BY <2>2
  <2>4. PICK u \in ids(want, seen) : u.name = t.name /\ u \in ToSet(seen)
    <3>1. t \in ToSet(seen) /\ t.name = Slug(b) \o w
      BY <2>2
    <3>2. \A list \in Seq(Tools) : t \in ToSet(list) =>
            \E u \in ids(want, list) : u.name = t.name /\ u \in ToSet(list)
      <4> DEFINE n == Slug(b) \o w
      <4>1. \A list \in Seq(Tools) : \A x \in ToSet(list) : x.name = n =>
              \E u \in ids(want, list) : u.name = x.name /\ u \in ToSet(list)
        BY <2>3, SeedFinds
      <4> HIDE DEF n
      <4>2. t.name = n
        BY <3>1 DEF n
      <4>3. QED
        BY <4>1, <4>2
    <3>3. seen \in Seq(Tools)
      OBVIOUS
    <3>4. QED
      BY <3>1, <3>2, <3>3
  <2>5. u \in found
    <3>1. PICK k \in DOMAIN FinOps.wants : want = FinOps.wants[k]
      BY <2>3 DEF ToSet
    <3>2. QED
      BY <2>4, <3>1
  <2> HIDE DEF found
  <2>6. u \in Current(found)
    BY <2>4, <2>5 DEF Current, AllTools
  <2>7. QED
    BY <2>4, <2>6 DEF NamesOf
<1> HIDE DEF found
<1>2. PICK s \in S : s.name = "FinOps" /\ s.tools = Current(found)
  BY DEF found
<1>3. QED
  BY <1>1, <1>2 DEF Served, Shows

\* The steps of seed.py among the virtual servers.
LEMMA CleanSeed ==
  ASSUME CatalogOK, RunsOK, CleanRuns, NEW p \in Processes,
         \/ SeedListsTools(p) \/ SeedReadsServers(p) \/ SeedDeletes(p) \/ SeedMakes(p)
         \/ SeedEnds(p)
  PROVE  CleanRuns'
<1> DEFINE r == run[p]
<1>0. RunOK(r, gen) /\ DOMAIN r = DOMAIN Idle /\ CleanOK(r, AllTools, servers)
  BY DEF RunsOK, RunOK, CleanRuns
<1>1. CASE SeedListsTools(p)
  <2> DEFINE n == [r EXCEPT !.at = "servers", !.seen = ToolList, !.todo = Personas]
             f == [r EXCEPT !.at = "servers", !.seen = <<>>, !.todo = Personas]
  <2>1. Becomes(p, n) \/ Becomes(p, Faulty(n)) \/ Becomes(p, Faulty(f))
    BY <1>1 DEF SeedListsTools
  <2>2. AllTools' = AllTools /\ servers' = servers
    BY <1>1, SameTools DEF SeedListsTools, catalog
  <2>3. /\ DOMAIN n = DOMAIN Idle /\ DOMAIN f = DOMAIN Idle
        /\ n.at = "servers" /\ n.seen = ToolList /\ n.todo = Personas
    BY <1>0 DEF Idle
  <2> HIDE DEF n, f
  <2>4. CleanOK(n, AllTools, servers)
    BY <2>3, ToolListHasAll DEF CleanOK, SeedOK, GrantRunOK
  <2>5. QED
    BY <2>1, <2>2, <2>3, <2>4, CleanStep
<1>2. CASE SeedReadsServers(p)
  <2> DEFINE n == [r EXCEPT !.at = "delete", !.ids = Identities]
             f == [r EXCEPT !.at = "delete", !.ids = {}]
  <2>1. r.at = "servers" /\ (Becomes(p, n) \/ Becomes(p, Faulty(n)) \/ Becomes(p, Faulty(f)))
    BY <1>2 DEF SeedReadsServers
  <2>2. AllTools' = AllTools /\ servers' = servers
    BY <1>2, SameTools DEF SeedReadsServers, catalog
  <2>3. /\ DOMAIN n = DOMAIN Idle /\ DOMAIN f = DOMAIN Idle
        /\ n.at = "delete" /\ n.ids = Identities /\ n.todo = r.todo /\ n.seen = r.seen
        /\ n.clean = r.clean
    BY <1>0 DEF Idle
  <2> HIDE DEF n, f
  <2>4. \A s \in servers : s.id \in Identities
    BY DEF Identities
  <2>5. CleanOK(n, AllTools, servers)
    BY <1>0, <2>1, <2>3, <2>4 DEF CleanOK, SeedOK, GrantRunOK
  <2>6. QED
    BY <2>1, <2>2, <2>3, <2>5, CleanStep
<1>3. CASE SeedDeletes(p)
  <2> DEFINE n == [r EXCEPT !.at = "make"]
             name == Head(r.todo).name
             id == IdOf(name)
             T == {s \in servers : s.id # id}
  <2>1. /\ r.at = "delete" /\ r.todo # <<>>
        /\ \/ id \in r.ids /\ DeleteServer(id) /\ Becomes(p, n)
           \/ UNCHANGED catalog /\ Becomes(p, Faulty(n))
           \/ id \notin r.ids /\ UNCHANGED catalog /\ Becomes(p, n)
    BY <1>3 DEF SeedDeletes
  <2>2. /\ DOMAIN n = DOMAIN Idle /\ n.at = "make" /\ n.ids = r.ids /\ n.todo = r.todo
        /\ n.seen = r.seen /\ n.clean = r.clean
    BY <1>0 DEF Idle
  <2>3. AllTools' = AllTools
    BY <2>1, SameTools DEF DeleteServer, catalog
  <2> HIDE DEF n, T
  <2>4. ASSUME NEW S, S \subseteq servers, \A s \in S : s.name # name,
               \A s \in servers : s.name # name => s \in S
        PROVE  CleanOK(n, AllTools, S)
    <3> SUFFICES ASSUME n.clean
                 PROVE  SeedOK(n, AllTools, S) /\ GrantRunOK(n, AllTools, S)
      BY DEF CleanOK
    <3>1. SeedOK(r, AllTools, servers)
      BY <1>0, <2>2 DEF CleanOK
    <3>2. r.todo \in {Personas, <<Treasury, Operator>>, <<Operator>>, <<>>}
      BY <2>1, <3>1 DEF SeedOK
    <3>3. r.todo # Personas => name # "FinOps"
      BY <2>1, <3>2, StillToServe
    <3>4. r.todo # Personas => Served(AllTools, servers)
      BY <2>1, <3>1 DEF SeedOK
    <3>5. r.todo # Personas => Served(AllTools, S)
      BY <2>4, <3>3, <3>4, StillServed
    <3>6. \A x \in ToSet(r.todo), s \in S : s.name = x.name => s.id \in r.ids
      BY <2>1, <2>4, <3>1 DEF SeedOK
    <3>7. r.seen \in Seq(Tools) /\ ToSet(r.seen) = AllTools
      BY <2>1, <3>1 DEF SeedOK
    <3>8. SeedOK(n, AllTools, S)
      BY <2>2, <2>4, <3>2, <3>5, <3>6, <3>7 DEF SeedOK
    <3>9. QED
      BY <2>2, <3>8 DEF GrantRunOK
  <2>5. CASE id \in r.ids /\ DeleteServer(id) /\ Becomes(p, n)
    <3>1. servers' = T
      BY <2>5 DEF DeleteServer, T
    <3>2. \A s \in T : s.name # name
      BY IdOfServer DEF T
    <3>3. \A s \in servers : s.name # name => s \in T
      BY IdOfIsTheirs DEF T
    <3>4. CleanOK(n, AllTools, T)
      BY <2>4, <3>2, <3>3 DEF T
    <3>5. QED
      BY <2>2, <2>3, <2>5, <3>1, <3>4, CleanStep
  <2>6. CASE UNCHANGED catalog /\ Becomes(p, Faulty(n))
    BY <2>2, <2>6, CleanStep
  <2>7. CASE id \notin r.ids /\ UNCHANGED catalog /\ Becomes(p, n)
    <3>1. servers' = servers
      BY <2>7 DEF catalog
    <3>2. CASE ~n.clean
      BY <2>2, <2>7, <3>2, CleanStep DEF CleanOK
    <3>3. CASE n.clean
      <4>1. SeedOK(r, AllTools, servers)
        BY <1>0, <2>2, <3>3 DEF CleanOK
      <4>2. r.todo \in {Personas, <<Treasury, Operator>>, <<Operator>>, <<>>}
        BY <2>1, <4>1 DEF SeedOK
      <4>3. Head(r.todo) \in ToSet(r.todo)
        BY <2>1, <4>2, StillToServe
      <4>4. \A s \in servers : s.name = name => s.id \in r.ids
        BY <2>1, <4>1, <4>3 DEF SeedOK
      <4>5. \A s \in servers : s.name # name
        BY <2>7, <4>4, IdOfServer
      <4>6. CleanOK(n, AllTools, servers)
        BY <2>4, <4>5
      <4>7. QED
        BY <2>2, <2>3, <2>7, <3>1, <4>6, CleanStep
    <3>4. QED
      BY <3>2, <3>3
  <2>8. QED
    BY <2>1, <2>5, <2>6, <2>7
<1>4. CASE SeedMakes(p)
  <2> DEFINE n == [r EXCEPT !.at = "delete", !.todo = Tail(@)]
             s == Head(r.todo)
             tools == UNION {ids(s.wants[k], r.seen) : k \in DOMAIN s.wants}
             new == [name |-> s.name, id |-> made + 1, tools |-> Current(tools)]
  <2>1. /\ r.at = "make"
        /\ \/ CreateServer(s.name, tools) /\ Becomes(p, n)
           \/ UNCHANGED catalog /\ Becomes(p, Faulty(n))
           \/ s.name \in ServerNames /\ UNCHANGED catalog /\ Becomes(p, n)
    BY <1>4 DEF SeedMakes
  <2>2. /\ DOMAIN n = DOMAIN Idle /\ n.at = "delete" /\ n.ids = r.ids /\ n.todo = Tail(r.todo)
        /\ n.seen = r.seen /\ n.clean = r.clean
    BY <1>0 DEF Idle
  <2>3. AllTools' = AllTools
    BY <2>1, SameTools DEF CreateServer, catalog
  <2>4. r.todo # <<>>
    BY <1>0, <2>1 DEF RunOK
  <2> HIDE DEF n
  <2>5. CASE ~n.clean
    BY <2>1, <2>2, <2>5, CleanStep DEF CleanOK
  <2>6. CASE n.clean
    <3>1. SeedOK(r, AllTools, servers)
      BY <1>0, <2>2, <2>6 DEF CleanOK
    <3>2. r.todo \in {Personas, <<Treasury, Operator>>, <<Operator>>, <<>>}
      BY <2>1, <3>1 DEF SeedOK
    <3>3. \A x \in servers : x.name # s.name
      BY <2>1, <3>1 DEF SeedOK
    <3>4. r.seen \in Seq(Tools) /\ ToSet(r.seen) = AllTools
      BY <2>1, <3>1 DEF SeedOK
    <3>5. CASE UNCHANGED catalog /\ Becomes(p, Faulty(n))
      BY <2>2, <3>5, CleanStep
    <3>6. CASE s.name \in ServerNames
      BY <3>3, <3>6 DEF ServerNames
    <3>7. CASE CreateServer(s.name, tools) /\ Becomes(p, n)
      <4>1. servers' = servers \cup {new}
        BY <3>7 DEF CreateServer
      <4>2. new.name = s.name /\ new.tools = Current(tools)
        OBVIOUS
      <4> DEFINE S == servers \cup {new}
      <4>3. Served(AllTools, S)
        <5>1. CASE r.todo = Personas
          <6>1. s = FinOps
            BY <2>4, <3>2, <5>1, StillToServe
          <6>2. tools = UNION {ids(FinOps.wants[k], r.seen) : k \in DOMAIN FinOps.wants}
            BY <6>1
          <6>3. new \in S /\ new.name = "FinOps" /\ new.tools = Current(tools)
            BY <4>2, <6>1 DEF FinOps
          <6> HIDE DEF new, tools, S, s
          <6>4. QED
            BY <3>4, <6>2, <6>3, SeedServes
        <5>2. CASE r.todo # Personas
          <6>1. Served(AllTools, servers)
            BY <2>1, <3>1, <5>2 DEF SeedOK
          <6> HIDE DEF new
          <6>2. QED
            BY <6>1, StillServed
        <5>3. QED
          BY <5>1, <5>2
      <4>4. /\ Tail(r.todo) \in {<<Treasury, Operator>>, <<Operator>>, <<>>}
            /\ ToSet(Tail(r.todo)) \subseteq ToSet(r.todo)
            /\ \A x \in ToSet(Tail(r.todo)) : x.name # s.name
        BY <2>4, <3>2, StillToServe
      <4>5. \A x \in ToSet(Tail(r.todo)), y \in S : y.name = x.name => y.id \in r.ids
        <5> SUFFICES ASSUME NEW x \in ToSet(Tail(r.todo)), NEW y \in S, y.name = x.name
                     PROVE  y.id \in r.ids
          OBVIOUS
        <5>1. y # new
          BY <4>2, <4>4
        <5>2. QED
          BY <2>1, <3>1, <4>4, <5>1 DEF SeedOK
      <4> HIDE DEF S, new, tools, s
      <4>6. SeedOK(n, AllTools, S)
        BY <2>2, <3>4, <4>3, <4>4, <4>5 DEF SeedOK
      <4>7. CleanOK(n, AllTools, S)
        BY <2>2, <4>6 DEF CleanOK, GrantRunOK
      <4>8. QED
        BY <2>2, <2>3, <3>7, <4>1, <4>7, CleanStep DEF S
    <3>8. QED
      BY <2>1, <3>5, <3>6, <3>7
  <2>7. QED
    BY <2>5, <2>6
<1>5. CASE SeedEnds(p)
  <2> DEFINE n == Ends(r, "ok")
  <2>1. r.at = "delete" /\ r.todo = <<>> /\ Becomes(p, n)
    BY <1>5 DEF SeedEnds
  <2>2. AllTools' = AllTools /\ servers' = servers
    BY <1>5, SameTools DEF SeedEnds, catalog
  <2>3. /\ DOMAIN n = DOMAIN Idle /\ n.at = "done" /\ n.job = r.job /\ n.clean = r.clean
    BY DEF Ends, Idle
  <2>4. r.job.task = "seed"
    BY <1>0, <2>1 DEF RunOK, SeedStages
  <2>5. <<>> # Personas
    BY DEF Personas
  <2> HIDE DEF n
  <2>6. CleanOK(n, AllTools, servers)
    BY <1>0, <2>1, <2>3, <2>4, <2>5 DEF CleanOK, SeedOK, GrantRunOK
  <2>7. QED
    BY <2>1, <2>2, <2>3, <2>6, CleanStep
<1>6. QED
  BY <1>1, <1>2, <1>3, <1>4, <1>5

\* The steps of grant.py.
LEMMA CleanGrant ==
  ASSUME CatalogOK, RunsOK, AreCurrent, CleanRuns, NEW p \in Processes,
         GrantReads(p) \/ GrantUnites(p) \/ GrantDeletes(p) \/ GrantCreates(p)
  PROVE  CleanRuns'
<1> DEFINE r == run[p]
           server == r.job.server
           names == r.job.names
<1>0. RunOK(r, gen) /\ DOMAIN r = DOMAIN Idle /\ CleanOK(r, AllTools, servers)
  BY DEF RunsOK, RunOK, CleanRuns
<1>e. ASSUME Becomes(p, Ends(r, "failed"))
      PROVE  CleanRuns'
  <2> DEFINE n == Ends(r, "failed")
  <2>1. DOMAIN n = DOMAIN Idle /\ n.at = "done" /\ n.result = "failed"
    BY DEF Ends, Idle
  <2> HIDE DEF n
  <2>2. CleanOK(n, AllTools', servers')
    BY <2>1, NothingPromised
  <2>3. QED
    BY <1>e, <2>1, <2>2, CleanStep DEF n
<1>1. CASE GrantReads(p)
  <2> DEFINE Found(list) == UNION {match_tool_ids(names[k], list) : k \in DOMAIN names}
             n == [r EXCEPT !.at = "union", !.seen = ToolList, !.want = Found(ToolList)]
  <2>1. PICK list \in {ToolList, <<>>} :
          Becomes(p, IF Found(list) = {} THEN Ends(r, "failed")
                     ELSE [r EXCEPT !.at = "union", !.seen = list, !.want = Found(list)])
    BY <1>1 DEF GrantReads
  <2>2. AllTools' = AllTools /\ servers' = servers
    BY <1>1, SameTools DEF GrantReads, catalog
  <2>3. CASE Found(list) = {}
    BY <1>e, <2>1, <2>3
  <2>4. CASE Found(list) # {}
    <3>1. list = ToolList
      <4>1. ASSUME list = <<>>
            PROVE  Found(list) = {}
        <5>1. <<>> \in Seq(Tools) /\ ToSet(<<>>) = {}
          BY DEF ToSet
        <5>2. \A want : match_tool_ids(want, <<>>) \subseteq {}
          BY <5>1, FoundInList
        <5>3. QED
          BY <4>1, <5>2
      <4>2. QED
        BY <2>1, <2>4, <4>1
    <3>2. Becomes(p, n)
      BY <2>1, <2>4, <3>1
    <3>3. /\ DOMAIN n = DOMAIN Idle /\ n.at = "union" /\ n.seen = ToolList /\ n.job = r.job
          /\ n.want = Found(ToolList)
      BY <1>0 DEF Idle
    <3>4. ToolList \in Seq(Tools) /\ ToSet(ToolList) = AllTools
      BY ToolListHasAll
    <3>5. Found(ToolList) \subseteq AllTools
      BY <3>4, FoundInList
    <3>6. ASSUME NEW t \in AllTools, Asked(names, t.name)
          PROVE  t.name \in NamesOf(Found(ToolList))
      <4>1. PICK b \in Backends : \E w \in ToSet(ToolsOf(b)) :
              t.name = Slug(b) \o w /\ w \in ToSet(names)
        BY <3>6 DEF Asked
      <4>2. PICK w \in ToSet(ToolsOf(b)) : t.name = Slug(b) \o w /\ w \in ToSet(names)
        BY <4>1
      <4>3. PICK k \in DOMAIN names : w = names[k]
        BY <4>2 DEF ToSet
      <4>4. PICK u \in match_tool_ids(w, ToolList) : u.name = t.name
        <5> DEFINE whole == ToolList
        <5>1. whole \in Seq(Tools) /\ t \in ToSet(whole)
          BY <3>4
        <5> HIDE DEF whole
        <5>2. \E u \in match_tool_ids(w, whole) : u.name = t.name
          BY <4>2, <5>1, MatchFindsByEnd, ZenonT(40)
        <5>3. QED
          BY <5>2 DEF whole
      <4>5. u \in Found(ToolList)
        BY <4>3, <4>4
      <4> HIDE DEF Found
      <4>6. QED
        BY <4>4, <4>5 DEF NamesOf
    <3> HIDE DEF n, Found
    <3>7. CleanOK(n, AllTools, servers)
      BY <3>3, <3>4, <3>5, <3>6 DEF CleanOK, SeedOK, GrantRunOK
    <3>8. QED
      BY <2>2, <3>2, <3>3, <3>7, CleanStep
  <2>5. QED
    BY <2>3, <2>4
<1>2. CASE GrantUnites(p)
  <2> DEFINE had == Exposed(server)
             want == r.want \cup keep(NamesOf(had), r.seen)
             N(at) == [r EXCEPT !.seen = <<>>, !.had = had, !.ids = {IdOf(server)},
                                !.want = want, !.at = at]
             f == [r EXCEPT !.seen = <<>>, !.at = "create"]
  <2>1. /\ r.at = "union"
        /\ \/ \E at \in {"drop", "create"} : Becomes(p, N(at))
           \/ Becomes(p, Faulty(f))
    <3>1. \A at : [[r EXCEPT !.seen = <<>>, !.had = had, !.ids = {IdOf(server)},
                             !.want = want] EXCEPT !.at = at] = N(at)
      OBVIOUS
    <3>2. QED
      BY <1>2, <3>1 DEF GrantUnites
  <2>2. AllTools' = AllTools /\ servers' = servers
    BY <1>2, SameTools DEF GrantUnites, catalog
  <2>3. DOMAIN f = DOMAIN Idle
    BY <1>0
  <2>4. CASE Becomes(p, Faulty(f))
    <3> HIDE DEF f
    <3>1. QED
      BY <2>3, <2>4, CleanStep
  <2>5. ASSUME NEW at \in {"drop", "create"}, Becomes(p, N(at))
        PROVE  CleanRuns'
    <3> DEFINE n == N(at)
    <3>1. /\ DOMAIN n = DOMAIN Idle /\ n.at = at /\ n.job = r.job /\ n.want = want
          /\ n.had = had /\ n.clean = r.clean
      BY <1>0 DEF Idle
    <3> HIDE DEF n, N, f, want
    <3>2. ASSUME n.clean
          PROVE  GrantRunOK(n, AllTools, servers)
      <4>1. GrantRunOK(r, AllTools, servers)
        BY <1>0, <3>1, <3>2 DEF CleanOK
      <4>2. /\ r.seen \in Seq(Tools) /\ ToSet(r.seen) = AllTools /\ r.want \subseteq AllTools
            /\ \A t \in AllTools : Asked(names, t.name) => t.name \in NamesOf(r.want)
        BY <2>1, <4>1 DEF GrantRunOK
      <4>3. had \subseteq AllTools
        BY DEF Exposed, AreCurrent
      <4>4. want \subseteq AllTools
        BY <4>2, FoundInList DEF want, keep
      <4>5. ASSUME NEW name \in NamesOf(had)
            PROVE  name \in NamesOf(want)
        <5>1. PICK t \in had : name = t.name
          BY DEF NamesOf
        <5>2. PICK u \in match_tool_ids(name, r.seen) : u.name = name
          BY <4>2, <4>3, <5>1, MatchFindsByName
        <5>3. u \in want
          BY <5>2 DEF want, keep
        <5>4. QED
          BY <5>2, <5>3 DEF NamesOf
      <4>6. NamesOf(r.want) \subseteq NamesOf(want)
        BY DEF NamesOf, want
      <4> HIDE DEF had, r
      <4>7. QED
        BY <3>1, <4>2, <4>4, <4>5, <4>6 DEF GrantRunOK
    <3>3. CleanOK(n, AllTools, servers)
      BY <3>1, <3>2 DEF CleanOK, SeedOK
    <3>4. Becomes(p, n)
      BY <2>5 DEF n
    <3>5. QED
      BY <2>2, <3>1, <3>3, <3>4, CleanStep
  <2>6. QED
    BY <2>1, <2>4, <2>5
<1>3. CASE GrantDeletes(p)
  <2> DEFINE n == [r EXCEPT !.at = "create"]
  <2>1. r.at = "drop" /\ (Becomes(p, n) \/ Becomes(p, Faulty(n)))
    BY <1>3 DEF GrantDeletes
  <2>2. AllTools' = AllTools
    BY <1>3, SameTools DEF GrantDeletes, DeleteServer, catalog
  <2>3. /\ DOMAIN n = DOMAIN Idle /\ n.at = "create" /\ n.job = r.job /\ n.want = r.want
        /\ n.had = r.had /\ n.clean = r.clean
    BY <1>0 DEF Idle
  <2> HIDE DEF n
  <2>4. ASSUME NEW S
        PROVE  CleanOK(n, AllTools, S)
    BY <1>0, <2>1, <2>3 DEF CleanOK, SeedOK, GrantRunOK
  <2>5. QED
    BY <2>1, <2>2, <2>3, <2>4, CleanStep
<1>4. CASE GrantCreates(p)
  <2> DEFINE n == Ends(r, "ok")
             new == [name |-> server, id |-> made + 1, tools |-> Current(r.want)]
             S == servers \cup {new}
  <2>1. /\ r.at = "create"
        /\ \/ Becomes(p, Ends(r, "failed"))
           \/ CreateServer(server, r.want) /\ Becomes(p, n)
    BY <1>4 DEF GrantCreates
  <2>2. CASE CreateServer(server, r.want) /\ Becomes(p, n)
    <3>1. AllTools' = AllTools /\ servers' = S
      BY <2>2, SameTools DEF CreateServer
    <3>2. /\ DOMAIN n = DOMAIN Idle /\ n.at = "done" /\ n.job = r.job /\ n.result = "ok"
          /\ n.had = r.had /\ n.clean = r.clean
      BY DEF Ends, Idle
    <3>3. r.job.task = "grant"
      BY <1>0, <2>1 DEF RunOK
    <3>4. new \in S /\ new.name = server /\ new.tools = Current(r.want)
      OBVIOUS
    <3> HIDE DEF n, new, S
    <3>5. ASSUME n.clean
          PROVE  GrantRunOK(n, AllTools, S)
      <4>1. GrantRunOK(r, AllTools, servers)
        BY <1>0, <3>2, <3>5 DEF CleanOK
      <4>2. /\ r.want \subseteq AllTools /\ NamesOf(r.had) \subseteq NamesOf(r.want)
            /\ \A t \in AllTools : Asked(names, t.name) => t.name \in NamesOf(r.want)
        BY <2>1, <4>1 DEF GrantRunOK
      <4>3. Current(r.want) = r.want
        BY <4>2 DEF Current, AllTools
      <4>4. \A name \in NamesOf(r.want) : Shows(S, server, name)
        BY <3>4, <4>3 DEF Shows
      <4> HIDE DEF r
      <4>5. QED
        BY <3>2, <4>2, <4>4 DEF GrantRunOK
    <3>6. CleanOK(n, AllTools, S)
      BY <3>2, <3>3, <3>5 DEF CleanOK, SeedOK
    <3>7. QED
      BY <2>2, <3>1, <3>2, <3>6, CleanStep
  <2>3. QED
    BY <1>e, <2>1, <2>2
<1>5. QED
  BY <1>1, <1>2, <1>3, <1>4

\* Undisturbed scripts have done what they promise, and no virtual server has a
\* tool that is gone.
CleanInv == AreCurrent /\ CleanRuns

\* At first nothing is promised.
LEMMA CleanInit ==
  ASSUME Init
  PROVE  CleanInv
<1>1. servers = {} /\ run = [p \in Processes |-> Idle]
  BY DEF Init
<1>2. Idle.at = "idle"
  BY DEF Idle
<1>3. \A A, S : CleanOK(Idle, A, S)
  BY <1>2, NothingPromised
<1>4. QED
  BY <1>1, <1>3 DEF CleanInv, AreCurrent, CleanRuns

\* Every step keeps what is promised.
LEMMA CleanNext ==
  ASSUME Inv, CleanInv, [Next]_vars
  PROVE  CleanInv'
<1> USE DEF Inv, CleanInv
<1>1. ASSUME NEW p \in Processes, OwnStep(p) \/ Crash(p)
      PROVE  CleanInv'
  <2>1. Effect
    BY <1>1, SeedRegistersOK, SeedServersOK, GrantOK, RegisterOK, CrashOK DEF OwnStep
  <2>2. CleanRuns'
    BY <1>1, CleanBefore, CleanSeed, CleanGrant DEF OwnStep
  <2>3. QED
    BY <2>1, <2>2, CurrentKept
<1>2. ASSUME NEW p \in Processes, NEW job \in Jobs, Begin(p, job)
      PROVE  CleanInv'
  <2>1. Effect
    BY <1>2 DEF Begin, Effect
  <2>2. QED
    BY <1>2, <2>1, CleanBegin, CurrentKept
<1>3. ASSUME UNCHANGED <<catalog, run>>
      PROVE  CleanInv'
  <2>1. Effect
    BY <1>3 DEF Effect
  <2>2. AllTools' = AllTools /\ servers' = servers /\ run' = run
    BY <1>3, SameTools DEF catalog
  <2>3. QED
    BY <2>1, <2>2, CurrentKept DEF CleanRuns
<1>4. CASE CompanionStarts \/ \E persona \in {"analyst", "operator"} : bob_settings(persona)
  BY <1>3, <1>4 DEF CompanionStarts, bob_settings
<1>5. CASE UNCHANGED vars
  BY <1>3, <1>5 DEF vars
<1>6. QED
  BY <1>1, <1>2, <1>4, <1>5 DEF Next

\* A name that a server of this name shows is one of those it exposes.
LEMMA ShownIsExposed ==
  ASSUME NEW name, NEW n, Shows(servers, name, n)
  PROVE  n \in NamesOf(Exposed(name))
<1>1. PICK s \in servers : s.name = name /\ n \in NamesOf(s.tools)
  BY DEF Shows
<1>2. PICK t \in s.tools : n = t.name
  BY <1>1 DEF NamesOf
<1>3. t \in Exposed(name)
  BY <1>1, <1>2 DEF Exposed
<1>4. QED
  BY <1>2, <1>3 DEF NamesOf

\* A registered backend's tools are among those that the gateway has.
LEMMA RegisteredTools ==
  ASSUME CatalogOK, NEW b \in Registered, NEW w \in ToSet(ToolsOf(b))
  PROVE  b \in Backends /\ \E t \in AllTools : t.name = Slug(b) \o w
<1>1. b \in Backends
  BY DEF CatalogOK, Registered, ToSet
<1>2. PICK t \in ToSet(OfBackend(b)) : t.name = Slug(b) \o w
  BY <1>1, OfBackendType
<1>3. t \in AllTools
  BY <1>2 DEF AllTools
<1>4. QED
  BY <1>1, <1>2, <1>3

\* What a script reports, it has done: after a seed that nothing disturbed the
\* analyst is shown every tool of the analyst's whose backend is registered; a
\* grant that succeeded undisturbed took nothing away, and granted the tool of
\* that name; a registration reported as done is one made since the script began.
\* Whatever the gateway's order, whatever was there before, and however many other
\* scripts there are.
THEOREM ReportsAreTrue == Spec => []ScriptsDoAsTheyReport
<1>1. Init => CleanInv
  BY CleanInit
<1>2. Inv /\ CleanInv /\ [Next]_vars => CleanInv'
  BY CleanNext
<1>3. ASSUME Inv, CleanInv
      PROVE  SeedServesTheAnalyst
  <2> SUFFICES ASSUME NEW p \in Processes, Undisturbed(p, "seed", "ok"),
                      NEW b \in Registered, NEW w \in ToSet(ToolsOf(b)),
                      {w, Slug(b) \o w} \cap ToSet(FinOps.wants) # {}
               PROVE  Slug(b) \o w \in NamesOf(Exposed("FinOps"))
    BY DEF SeedServesTheAnalyst
  <2>1. Served(AllTools, servers)
    BY <1>3 DEF CleanInv, CleanRuns, CleanOK, SeedOK, Undisturbed
  <2>2. PICK t \in AllTools : t.name = Slug(b) \o w
    BY <1>3, RegisteredTools DEF Inv
  <2>3. b \in Backends
    BY <1>3, RegisteredTools DEF Inv
  <2>4. ForAnalyst(t.name)
    BY <2>2, <2>3 DEF ForAnalyst
  <2>5. Shows(servers, "FinOps", t.name)
    BY <2>1, <2>4 DEF Served
  <2>6. QED
    BY <2>2, <2>5, ShownIsExposed
<1>4. ASSUME Inv, CleanInv
      PROVE  GrantKeeps
  <2> SUFFICES ASSUME NEW p \in Processes, Undisturbed(p, "grant", "ok")
               PROVE  LET server == run[p].job.server IN
                      /\ NamesOf(run[p].had) \subseteq NamesOf(Exposed(server))
                      /\ \A b \in Registered : \A w \in ToSet(ToolsOf(b)) :
                           w \in ToSet(run[p].job.names) =>
                             Slug(b) \o w \in NamesOf(Exposed(server))
    BY DEF GrantKeeps
  <2> DEFINE server == run[p].job.server
             names == run[p].job.names
  <2>1. /\ \A n \in NamesOf(run[p].had) : Shows(servers, server, n)
        /\ \A t \in AllTools : Asked(names, t.name) => Shows(servers, server, t.name)
    BY <1>4 DEF CleanInv, CleanRuns, CleanOK, GrantRunOK, Undisturbed
  <2> HIDE DEF server, names
  <2>2. \A n \in NamesOf(run[p].had) : n \in NamesOf(Exposed(server))
    BY <2>1, ShownIsExposed
  <2>3. ASSUME NEW b \in Registered, NEW w \in ToSet(ToolsOf(b)), w \in ToSet(names)
        PROVE  Slug(b) \o w \in NamesOf(Exposed(server))
    <3>1. PICK t \in AllTools : t.name = Slug(b) \o w
      BY <1>4, RegisteredTools DEF Inv
    <3>2. b \in Backends
      BY <1>4, RegisteredTools DEF Inv
    <3>3. Asked(names, t.name)
      BY <2>3, <3>1, <3>2 DEF Asked
    <3>4. Shows(servers, server, t.name)
      BY <2>1, <3>3
    <3>5. QED
      BY <3>1, <3>4, ShownIsExposed
  <2>4. QED
    BY <2>2, <2>3 DEF server, names
<1>5. Spec => []CleanInv
  BY <1>1, <1>2, Invariance, PTL DEF Spec
<1>6. Inv /\ CleanInv /\ RegisteredIsFresh => ScriptsDoAsTheyReport
  BY <1>3, <1>4 DEF ScriptsDoAsTheyReport
<1>7. QED
  BY <1>5, <1>6, Invariance, RegistrationIsFresh, PTL
=============================================================================
