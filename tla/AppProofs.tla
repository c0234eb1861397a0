----------------------------- MODULE AppProofs ------------------------------
(***************************************************************************)
(* Proofs about the services and the pages of the app: the safety          *)
(* properties of Paywall, for any number of versions, handlers, invoices   *)
(* and publications, with and without Edge Config; and those of the swap   *)
(* wizard, for any channels, amounts and number of submissions.            *)
(***************************************************************************)
EXTENDS Paywall, BuildSwap, TLAPS

\* The backends, in turn, of each leaf below that names none of its own.
USE ZenonT(20), SMTT(20), Z3T(20)

SkillType == [sha : Shas \cup {NoSha}, price : Prices \cup {0}]
Under == {"updating", "updated", "committed"}

RowType == [price : Prices \cup {0}, active : BOOLEAN, created : Nat]
PubType == [st : {"idle", "uploaded"} \cup Under, skill : SkillType, seen : SUBSET Shas,
            at : Nat, alone : BOOLEAN]
ReqType == [st : {"idle", "verify", "deliver", "challenge", "invoice", "record"},
            sha : Shas \cup {NoSha}, token : Invoices \cup {0}, price : Prices \cup {0}]
InvoiceType == [st : {"unused", "made", "given", "paid"}, sha : Shas \cup {NoSha}]

\* The types a step needs.
Types ==
    /\ rows \in [Shas -> RowType]
    /\ edge \in SkillType
    /\ pub \in [Pubs -> PubType]
    /\ begun \in Nat
    /\ req \in [Requests -> ReqType]
    /\ invoice \in [Invoices -> InvoiceType]
    /\ challenges \in [Invoices -> Shas \cup {NoSha}]
    /\ receipts \in [Invoices -> Shas \cup {NoSha}]

\* What is in the catalog, and what a publication is about to put there, has
\* been uploaded; Edge Config holds nothing that the catalog does not.
CatalogInv ==
    /\ Published \subseteq blob
    /\ edge # NoSkill => edge.sha \in Published
    /\ \A p \in Pubs :
          /\ pub[p].st # "idle" => pub[p].skill.sha \in Shas \cap blob
          /\ pub[p].st \in Under => pub[p].at # 0
          /\ pub[p].st = "committed" => pub[p].skill.sha \in Published

\* A request is about a published version. A token that is recorded was just
\* made, by this request alone; one that is redeemed is paid and on record.
ReqOk(r) ==
    /\ req[r].st # "idle" => req[r].sha \in Published
    /\ req[r].st = "verify" =>
          req[r].token \in Invoices /\ invoice[req[r].token].st \in {"given", "paid"}
    /\ req[r].st = "deliver" =>
          /\ req[r].token \in Invoices
          /\ invoice[req[r].token].st = "paid" /\ invoice[req[r].token].sha = req[r].sha
          /\ receipts[req[r].token] = req[r].sha
    /\ req[r].st = "record" =>
          /\ req[r].token \in Invoices
          /\ invoice[req[r].token].st = "made" /\ invoice[req[r].token].sha = req[r].sha

SoleRecorder ==
    \A r, q \in Requests :
        req[r].st = "record" /\ req[q].st = "record" /\ req[r].token = req[q].token => r = q

RequestInv == (\A r \in Requests : ReqOk(r)) /\ SoleRecorder

InvoiceInv ==
    \A h \in Invoices :
        /\ invoice[h].st # "unused" => invoice[h].sha \in Published
        /\ invoice[h].st \in {"given", "paid"} => challenges[h] = invoice[h].sha
        /\ receipts[h] # NoSha => invoice[h].st = "paid" /\ receipts[h] = invoice[h].sha

ServedInv ==
    \A s \in served :
        /\ s[1] \in Invoices
        /\ invoice[s[1]].st = "paid" /\ invoice[s[1]].sha = s[2] /\ receipts[s[1]] = s[2]

SaleInv == Types /\ CatalogInv /\ RequestInv /\ InvoiceInv /\ ServedInv

\* A publication that is alone is the only one to write, has seen every row but
\* its own and, once committed, is what the rows say. What was announced is what
\* the rows and Edge Config say, and nobody is left to change the latter.
IsCurrent(skill) == Active = {skill.sha} /\ Skill(skill.sha) = skill
AloneInv ==
    /\ \A p \in Pubs : pub[p].alone /\ pub[p].st \in Under =>
          /\ \A q \in Pubs \ {p} : pub[q].st \notin Under
          /\ pub[p].st # "committed" => pub[p].seen = Published \ {pub[p].skill.sha}
          /\ pub[p].st = "committed" => IsCurrent(pub[p].skill) /\ announced = NoSkill
    /\ ~SyncsEdge => edge = NoSkill
    /\ announced # NoSkill =>
          /\ IsCurrent(announced)
          /\ SyncsEdge => edge = announced
          /\ \A p \in Pubs : pub[p].st # "committed"
-----------------------------------------------------------------------------
\* A step of a publication that keeps rows and contents keeps what holds of sales.
LEMMA SaleKept ==
    ASSUME SaleInv, Published \subseteq Published', UNCHANGED <<req, sale>>
    PROVE  RequestInv' /\ InvoiceInv' /\ ServedInv'
  <1>. USE DEF SaleInv, sale
  <1>1. RequestInv'
    BY DEF RequestInv, ReqOk, SoleRecorder
  <1>2. InvoiceInv'
    BY DEF InvoiceInv
  <1>3. ServedInv'
    BY DEF ServedInv
  <1>. QED  BY <1>1, <1>2, <1>3

\* What the rows say depends on nothing else.
LEMMA RowsKept ==
    ASSUME rows' = rows
    PROVE  /\ Published' = Published /\ Active' = Active
           /\ \A v : Skill(v)' = Skill(v)
  BY DEF Published, Active, Skill

\* uploadSkillContent stores a version before its row exists.
LEMMA UploadInv ==
    ASSUME SaleInv, AloneInv, NEW p \in Pubs, NEW v \in Shas, NEW price \in Prices,
           uploadSkillContent(p, v, price)
    PROVE  SaleInv' /\ AloneInv'
  <1>. USE DEF uploadSkillContent
  <1>0. rows' = rows /\ edge' = edge /\ UNCHANGED <<req, sale>>
    OBVIOUS
  <1>1. Types'
    BY DEF SaleInv, Types, PubType, SkillType, IdlePub, NoSkill, Under, sale
  <1>2. CatalogInv'
    BY <1>0, RowsKept DEF SaleInv, Types, PubType, CatalogInv, IdlePub, Under
  <1>3. AloneInv'
    <2>1. pub'[p].st \notin Under /\ announced' = announced
      BY DEF SaleInv, Types, IdlePub, Under
    <2>2. \A q \in Pubs \ {p} : pub'[q] = pub[q]
      BY DEF SaleInv, Types
    <2>. HIDE DEF uploadSkillContent
    <2>3. IsCurrent(announced)' <=> IsCurrent(announced)
      BY <1>0, <2>1, RowsKept DEF IsCurrent
    <2>4. ASSUME NEW q \in Pubs, pub'[q].alone, pub'[q].st \in Under
          PROVE  /\ \A r \in Pubs \ {q} : pub'[r].st \notin Under
                 /\ pub'[q].st # "committed" => pub'[q].seen = Published' \ {pub'[q].skill.sha}
                 /\ pub'[q].st = "committed" => IsCurrent(pub[q].skill)' /\ announced' = NoSkill
      <3>1. q # p /\ pub'[q] = pub[q] /\ Published' = Published
        BY <1>0, <2>1, <2>2, <2>4, RowsKept
      <3>2. IsCurrent(pub[q].skill)' <=> IsCurrent(pub[q].skill)
        BY <1>0, <3>1, RowsKept DEF IsCurrent
      <3>3. \A r \in Pubs \ {q} : pub[r].st \notin Under
        BY <2>4, <3>1 DEF AloneInv
      <3>. QED  BY <2>1, <2>2, <2>4, <3>1, <3>2, <3>3 DEF AloneInv
    <2>5. \A q \in Pubs : pub'[q].st = "committed" => pub[q].st = "committed"
      BY <2>1, <2>2 DEF Under
    <2>. QED  BY <1>0, <2>1, <2>3, <2>4, <2>5 DEF AloneInv
  <1>. QED  BY <1>0, <1>1, <1>2, <1>3, SaleKept, RowsKept DEF SaleInv

\* A publication begins to write the rows of the catalogue.
LEMMA BeginInv ==
    ASSUME SaleInv, AloneInv, NEW p \in Pubs, BeginUpdate(p)
    PROVE  SaleInv' /\ AloneInv'
  <1>. DEFINE others == {q \in Pubs \ {p} : Writing(q)}
  <1>0. rows' = rows /\ edge' = edge /\ blob' = blob /\ announced' = announced /\ UNCHANGED <<req, sale>>
    BY DEF BeginUpdate, stores
  <1>1. /\ pub[p].st = "uploaded" /\ begun' = begun + 1
        /\ pub' = [q \in Pubs |->
                     IF q = p THEN [pub[p] EXCEPT !.st = "updating", !.at = begun + 1, !.alone = others = {},
                                                  !.seen = Published \ {pub[p].skill.sha}]
                     ELSE IF q \in others THEN [pub[q] EXCEPT !.alone = FALSE] ELSE pub[q]]
    BY DEF BeginUpdate
  <1>a. pub \in [Pubs -> PubType] /\ begun \in Nat /\ Published \subseteq Shas
    BY DEF SaleInv, Types, Published
  <1>b. pub[p].st = "uploaded" /\ begun' \in Nat
    <2>1. pub[p].st = "uploaded" /\ begun' = begun + 1
      BY <1>1
    <2>. QED  BY <1>a, <2>1, SMTT(20), Z3T(20)
  <1>2. /\ pub'[p].st = "updating" /\ pub'[p].skill = pub[p].skill /\ pub'[p].at = begun + 1
        /\ pub'[p].seen = Published \ {pub[p].skill.sha} /\ (pub'[p].alone <=> others = {})
        /\ pub'[p] \in PubType
    <2>1. PICK b \in BOOLEAN : b = (others = {})
      OBVIOUS
    <2>2. pub'[p] = [pub[p] EXCEPT !.st = "updating", !.at = begun + 1, !.alone = b,
                                   !.seen = Published \ {pub[p].skill.sha}]
      BY <1>1, <2>1
    <2>3. pub[p] \in PubType /\ begun + 1 \in Nat /\ Published \ {pub[p].skill.sha} \in SUBSET Shas
      BY <1>a, SMTT(20), Z3T(20)
    <2>4. pub'[p].alone = b /\ pub'[p] \in PubType
      <3>. DEFINE s == Published \ {pub[p].skill.sha}
                  n == begun + 1
                  x == pub[p]
      <3>. HIDE DEF s, n, x
      <3>1. x \in PubType /\ n \in Nat /\ s \in SUBSET Shas
        BY <2>3 DEF s, n, x
      <3>2. pub'[p] = [x EXCEPT !.st = "updating", !.at = n, !.alone = b, !.seen = s]
        BY <2>2 DEF s, n, x
      <3>3. /\ [x EXCEPT !.st = "updating", !.at = n, !.alone = b, !.seen = s] \in PubType
            /\ [x EXCEPT !.st = "updating", !.at = n, !.alone = b, !.seen = s].alone = b
        BY <3>1 DEF PubType, Under
      <3>. QED  BY <3>2, <3>3
    <2>5. /\ pub'[p].st = "updating" /\ pub'[p].skill = pub[p].skill /\ pub'[p].at = begun + 1
          /\ pub'[p].seen = Published \ {pub[p].skill.sha}
      BY <2>2, <2>3 DEF PubType
    <2>. QED  BY <2>1, <2>4, <2>5
  <1>3. ASSUME NEW q \in Pubs \ {p}
        PROVE  /\ pub'[q].st = pub[q].st /\ pub'[q].skill = pub[q].skill /\ pub'[q].at = pub[q].at
               /\ pub'[q].seen = pub[q].seen
               /\ q \in others => ~pub'[q].alone
               /\ q \notin others => pub'[q].st \notin Under
               /\ pub'[q] \in PubType
    <2>1. q \notin others => pub[q].st \notin Under
      BY DEF Writing, InTransaction, Under
    <2>2. pub'[q] = IF q \in others THEN [pub[q] EXCEPT !.alone = FALSE] ELSE pub[q]
      BY <1>1
    <2>. HIDE DEF others
    <2>. QED  BY <1>a, <2>1, <2>2 DEF PubType
  <1>4. Types'
    <2>1. pub' \in [Pubs -> PubType]
      BY <1>1, <1>2, <1>3
    <2>. QED  BY <1>0, <1>b, <2>1 DEF SaleInv, Types, sale
  <1>5. CatalogInv'
    <2>. HIDE DEF others
    <2>. QED  BY <1>0, <1>b, <1>2, <1>3, <1>a, RowsKept, SMTT(20), Z3T(20)
              DEF SaleInv, CatalogInv, Under
  <1>6. AloneInv'
    <2>1. others = {} => \A q \in Pubs \ {p} : pub[q].st \notin Under
      BY DEF Writing, InTransaction, Under
    <2>2. ASSUME NEW q \in Pubs, pub'[q].alone, pub'[q].st \in Under PROVE q = p /\ others = {}
      BY <1>2, <1>3, <2>2
    <2>3. \A q \in Pubs : pub'[q].st = "committed" => pub[q].st = "committed"
      BY <1>2, <1>3
    <2>. QED  BY <1>0, <1>2, <1>3, <2>1, <2>2, <2>3, RowsKept, SMTT(20), Z3T(20)
              DEF AloneInv, IsCurrent
  <1>. QED  BY <1>0, <1>4, <1>5, <1>6, SaleKept, RowsKept DEF SaleInv

\* A publication waits for the rows that another one has locked.
LEMMA LockInv ==
    ASSUME SaleInv, AloneInv, NEW p \in Pubs, LockRows(p)
    PROVE  SaleInv' /\ AloneInv'
  <1>0. rows' = rows /\ edge' = edge /\ blob' = blob /\ announced' = announced /\ UNCHANGED <<req, sale>>
    BY DEF LockRows, stores
  <1>a. pub \in [Pubs -> PubType] /\ pub[p].st = "updating" /\ pub' = [pub EXCEPT ![p].st = "updated"]
    BY DEF LockRows, SaleInv, Types
  <1>b. pub' \in [Pubs -> PubType]
    BY <1>a DEF PubType, Under
  <1>1. Types'
    BY <1>0, <1>b DEF LockRows, SaleInv, Types, sale
  <1>2. CatalogInv'
    BY <1>0, <1>a, RowsKept DEF SaleInv, PubType, CatalogInv, Under
  <1>3. AloneInv'
    BY <1>0, <1>a, RowsKept, SMTT(20), Z3T(20) DEF PubType, AloneInv, Under, IsCurrent
  <1>. QED  BY <1>0, <1>1, <1>2, <1>3, SaleKept, RowsKept DEF SaleInv

\* The committed version becomes a row, and the only active one if the
\* transaction has seen all the others.
LEMMA CommitInv ==
    ASSUME SaleInv, AloneInv, NEW p \in Pubs, Commit(p)
    PROVE  SaleInv' /\ AloneInv'
  <1>. DEFINE sha == pub[p].skill.sha
  <1>0. edge' = edge /\ blob' = blob /\ announced' = NoSkill /\ UNCHANGED <<begun, req, sale>>
    BY DEF Commit
  <1>1. pub[p].st = "updated" /\ pub' = [pub EXCEPT ![p].st = "committed"]
    BY DEF Commit
  <1>a. pub \in [Pubs -> PubType] /\ rows \in [Shas -> RowType]
    BY DEF SaleInv, Types
  <1>2. sha \in Shas /\ sha \in blob /\ pub[p].at \in Nat \ {0} /\ pub[p].seen \subseteq Shas
        /\ pub[p].skill \in SkillType
    BY <1>1, <1>a DEF SaleInv, PubType, CatalogInv, Under
  <1>3. rows' = upsertSkillVersion(p)
    BY DEF Commit
  <1>4. /\ rows'[sha].price = pub[p].skill.price /\ rows'[sha].active /\ rows'[sha].created # 0
        /\ rows'[sha] \in RowType
    <2>1. rows'[sha] = [price |-> pub[p].skill.price, active |-> TRUE,
                        created |-> IF rows[sha].created = 0 THEN pub[p].at ELSE rows[sha].created]
      BY <1>2, <1>3 DEF upsertSkillVersion
    <2>2. rows[sha].created \in Nat
      BY <1>2, <1>a DEF RowType
    <2>3. pub[p].skill.price \in Prices \cup {0}
      BY <1>2 DEF SkillType
    <2>. DEFINE n == IF rows[sha].created = 0 THEN pub[p].at ELSE rows[sha].created
    <2>4. n \in Nat /\ n # 0
      BY <1>2, <2>2
    <2>5. rows'[sha] = [price |-> pub[p].skill.price, active |-> TRUE, created |-> n]
      BY <2>1
    <2>. HIDE DEF n
    <2>. QED  BY <2>3, <2>4, <2>5, SMTT(20), Z3T(20) DEF RowType
  <1>5. ASSUME NEW v \in Shas \ {sha}
        PROVE  /\ rows'[v].created = rows[v].created
               /\ rows'[v].active <=> (rows[v].active /\ v \notin pub[p].seen)
               /\ rows'[v] \in RowType
    <2>1. rows'[v] = IF v \in pub[p].seen THEN [rows[v] EXCEPT !.active = FALSE] ELSE rows[v]
      BY <1>3 DEF upsertSkillVersion
    <2>. QED  BY <1>a, <2>1 DEF RowType
  <1>6. Published' = Published \cup {sha}
    BY <1>2, <1>4, <1>5 DEF Published
  <1>7. Types'
    <2>1. rows' \in [Shas -> RowType]
      BY <1>3, <1>4, <1>5 DEF upsertSkillVersion
    <2>2. pub' \in [Pubs -> PubType]
      BY <1>1, <1>a, SMTT(20), Z3T(20) DEF PubType, Under
    <2>. QED  BY <1>0, <2>1, <2>2 DEF SaleInv, Types, sale
  <1>8. CatalogInv'
    BY <1>0, <1>1, <1>2, <1>6, <1>a DEF SaleInv, PubType, CatalogInv, Under
  <1>9. AloneInv'
    <2>1. /\ pub'[p].skill = pub[p].skill /\ pub'[p].st = "committed" /\ pub'[p].alone = pub[p].alone
          /\ \A q \in Pubs \ {p} : pub'[q] = pub[q]
      BY <1>1, <1>a DEF PubType
    <2>2. ASSUME NEW q \in Pubs, pub'[q].alone, pub'[q].st \in Under PROVE q = p /\ pub[p].alone
      BY <1>1, <2>1, <2>2 DEF AloneInv, Under
    <2>3. ASSUME pub[p].alone
          PROVE  /\ \A q \in Pubs \ {p} : pub[q].st \notin Under
                 /\ pub[p].seen = Published \ {sha}
      BY <1>1, <2>3 DEF AloneInv, Under
    <2>4. ASSUME pub[p].alone PROVE Active' = {sha}
      BY <1>2, <1>4, <1>5, <1>6, <2>3, <2>4 DEF Active, Published
    <2>5. [sha |-> sha, price |-> rows'[sha].price] = pub[p].skill
      BY <1>2, <1>4 DEF SkillType
    <2>6. ASSUME pub[p].alone PROVE IsCurrent(pub[p].skill)'
      BY <2>1, <2>4, <2>5, <2>6 DEF IsCurrent, Skill
    <2>. QED  BY <1>0, <2>1, <2>2, <2>3, <2>6 DEF AloneInv
  <1>. QED  BY <1>0, <1>6, <1>7, <1>8, <1>9, SaleKept DEF SaleInv

\* Of the publications that end, one that is alone leaves its skill in Edge Config.
LEMMA EndInv ==
    ASSUME SaleInv, AloneInv, NEW p \in Pubs, syncSkillToEdgeConfig(p) \/ PublishFails(p)
    PROVE  SaleInv' /\ AloneInv'
  <1>0. rows' = rows /\ blob' = blob /\ UNCHANGED <<begun, req, sale>> /\ pub' = [pub EXCEPT ![p] = IdlePub]
    BY DEF syncSkillToEdgeConfig, PublishFails
  <1>1. edge' = edge \/ (pub[p].st = "committed" /\ SyncsEdge /\ edge' = pub[p].skill)
    BY DEF syncSkillToEdgeConfig, PublishFails
  <1>a. pub \in [Pubs -> PubType] /\ edge \in SkillType
    BY DEF SaleInv, Types
  <1>2. pub' \in [Pubs -> PubType] /\ pub'[p].st = "idle" /\ \A q \in Pubs \ {p} : pub'[q] = pub[q]
    BY <1>0, <1>a DEF PubType, SkillType, IdlePub, NoSkill
  <1>3. edge' \in SkillType
    BY <1>1, <1>a DEF PubType
  <1>4. Types'
    BY <1>0, <1>2, <1>3 DEF SaleInv, Types, sale
  <1>5. CatalogInv'
    BY <1>0, <1>1, <1>2, RowsKept DEF SaleInv, CatalogInv, Under
  <1>6. AloneInv'
    <2>1. \/ announced' = announced
          \/ /\ pub[p].st = "committed" /\ pub[p].alone /\ announced' = pub[p].skill
             /\ SyncsEdge => edge' = pub[p].skill
      BY DEF syncSkillToEdgeConfig, PublishFails
    <2>2. \A skill : IsCurrent(skill)' <=> IsCurrent(skill)
      BY <1>0, RowsKept DEF IsCurrent
    <2>3. ~SyncsEdge => edge' = NoSkill
      BY <1>1 DEF AloneInv
    <2>4. ASSUME NEW q \in Pubs, pub'[q].alone, pub'[q].st \in Under
          PROVE  q # p /\ pub[q].alone /\ pub[q].st \in Under /\ pub'[q] = pub[q]
                 /\ pub[p].st # "committed" /\ announced' = announced
      BY <1>2, <2>1, <2>4 DEF AloneInv, Under
    <2>5. \A q \in Pubs : pub'[q].alone /\ pub'[q].st \in Under =>
             /\ \A r \in Pubs \ {q} : pub'[r].st \notin Under
             /\ pub'[q].st # "committed" => pub'[q].seen = Published' \ {pub'[q].skill.sha}
             /\ pub'[q].st = "committed" => IsCurrent(pub[q].skill) /\ announced' = NoSkill
      BY <1>0, <1>2, <2>4, RowsKept, SMTT(20), Z3T(20) DEF AloneInv, Under
    <2>6. ASSUME announced' # NoSkill
          PROVE  /\ IsCurrent(announced)'
                 /\ SyncsEdge => edge' = announced'
                 /\ \A q \in Pubs : pub'[q].st # "committed"
      <3>1. CASE announced' = announced
        BY <1>1, <1>2, <2>2, <2>6, <3>1 DEF AloneInv, IsCurrent
      <3>2. CASE pub[p].st = "committed" /\ pub[p].alone /\ announced' = pub[p].skill
        BY <1>2, <2>1, <2>2, <2>6, <3>2, SMTT(20), Z3T(20) DEF AloneInv, Under, IsCurrent
      <3>. QED  BY <2>1, <3>1, <3>2
    <2>. QED  BY <2>2, <2>3, <2>4, <2>5, <2>6 DEF AloneInv
  <1>. QED  BY <1>0, <1>4, <1>5, <1>6, SaleKept, RowsKept DEF SaleInv
-----------------------------------------------------------------------------
\* A step of the content route keeps what holds of the catalog.
LEMMA CatalogKept ==
    ASSUME SaleInv, AloneInv, UNCHANGED <<stores, pub, begun, announced>>
    PROVE  /\ CatalogInv' /\ AloneInv' /\ Published' = Published
           /\ rows' = rows /\ edge' = edge /\ pub' = pub /\ begun' = begun
  <1>1. rows' = rows /\ edge' = edge /\ blob' = blob /\ pub' = pub /\ begun' = begun /\ announced' = announced
    BY DEF stores
  <1>2. CatalogInv'
    BY <1>1, RowsKept DEF SaleInv, CatalogInv
  <1>3. AloneInv'
    BY <1>1, RowsKept DEF AloneInv, IsCurrent
  <1>. QED  BY <1>1, <1>2, <1>3, RowsKept

\* The version that getSkillVersion finds is published, wherever it finds it.
LEMMA FoundIsPublished ==
    ASSUME SaleInv, NEW v, NEW skill \in getSkillVersion(v)
    PROVE  v \in Published /\ skill.price \in Prices \cup {0}
  BY SMTT(20), Z3T(20)
  DEF getSkillVersion, SaleInv, Types, RowType, SkillType, CatalogInv, Skill, Published

\* A request for content, and the challenge that answers it.
LEMMA RequestStep ==
    ASSUME SaleInv, AloneInv, NEW r \in Requests,
           \/ \E v \in Shas, t \in Tokens : RequestContent(r, v, t)
           \/ issueChallenge(r)
    PROVE  SaleInv' /\ AloneInv'
  <1>0. UNCHANGED <<stores, pub, begun, announced, sale>>
    BY DEF RequestContent, issueChallenge
  <1>1. Types'
    <2>1. \E x \in [st : {"verify", "challenge", "invoice"}, sha : Shas \cup {NoSha},
                     token : Invoices \cup {0}, price : Prices \cup {0}] : req' = [req EXCEPT ![r] = x]
      <3>1. CASE \E v \in Shas, t \in Tokens : RequestContent(r, v, t)
        BY <3>1 DEF RequestContent, Tokens
      <3>2. CASE issueChallenge(r)
        <4>1. PICK skill \in getSkillVersion(req[r].sha) :
                 req' = [req EXCEPT ![r].st = "invoice", ![r].price = skill.price]
          BY <3>2 DEF issueChallenge
        <4>2. skill.price \in Prices \cup {0}
          BY FoundIsPublished
        <4>3. req' = [req EXCEPT ![r] = [req[r] EXCEPT !.st = "invoice", !.price = skill.price]]
          BY <4>1
        <4>. QED  BY <4>2, <4>3, ZenonT(40), SMTT(20) DEF SaleInv, Types, ReqType
      <3>. QED  BY <3>1, <3>2
    <2>. QED  BY <1>0, <2>1, CatalogKept, SMTT(20), Z3T(20) DEF SaleInv, Types, ReqType, sale
  <1>2. /\ \A q \in Requests \ {r} : req'[q] = req[q]
        /\ req'[r].st \in {"verify", "challenge", "invoice"} /\ req'[r].sha \in Published
        /\ req'[r].st = "verify" =>
              req'[r].token \in Invoices /\ invoice[req'[r].token].st \in {"given", "paid"}
    <2>1. CASE \E v \in Shas, t \in Tokens : RequestContent(r, v, t)
      <3>1. PICK v \in Shas, t \in Tokens : RequestContent(r, v, t)
        BY <2>1
      <3>2. v \in Published
        BY <3>1, FoundIsPublished DEF RequestContent
      <3>. QED  BY <3>1, <3>2 DEF RequestContent, Tokens, SaleInv, Types, ReqType
    <2>2. CASE issueChallenge(r)
      <3>1. PICK skill \in getSkillVersion(req[r].sha) :
               req' = [req EXCEPT ![r].st = "invoice", ![r].price = skill.price]
        BY <2>2 DEF issueChallenge
      <3>2. req[r].sha \in Published
        BY FoundIsPublished
      <3>. QED  BY <3>1, <3>2 DEF SaleInv, Types, ReqType
    <2>. QED  BY <2>1, <2>2
  <1>3. RequestInv'
    <2>1. invoice' = invoice /\ receipts' = receipts /\ Published' = Published
      BY <1>0, CatalogKept DEF sale
    <2>2. ASSUME NEW q \in Requests, q # r PROVE ReqOk(q)'
      BY <1>2, <2>1, <2>2 DEF SaleInv, RequestInv, ReqOk
    <2>3. ReqOk(r)'
      BY <1>2, <2>1 DEF ReqOk
    <2>4. SoleRecorder'
      BY <1>2, SMTT(20), Z3T(20) DEF SaleInv, RequestInv, SoleRecorder
    <2>. QED  BY <2>2, <2>3, <2>4 DEF RequestInv
  <1>4. InvoiceInv' /\ ServedInv'
    BY <1>0, CatalogKept DEF SaleInv, InvoiceInv, ServedInv, sale
  <1>. QED  BY <1>0, <1>1, <1>3, <1>4, CatalogKept DEF SaleInv

\* A receipt is written for a token that is paid, and only then content follows.
LEMMA VerifyStep ==
    ASSUME SaleInv, AloneInv, NEW r \in Requests, verifyL402Authorization(r)
    PROVE  SaleInv' /\ AloneInv'
  <1>. DEFINE t == req[r].token
              v == req[r].sha
  <1>0. /\ UNCHANGED <<stores, pub, begun, announced>>
        /\ invoice' = invoice /\ challenges' = challenges /\ served' = served
    BY DEF verifyL402Authorization
  <1>1. /\ req \in [Requests -> ReqType]
        /\ receipts \in [Invoices -> Shas \cup {NoSha}]
        /\ req[r].st = "verify" /\ t \in Invoices /\ v \in Published /\ v \in Shas
        /\ invoice[t] \in InvoiceType
    BY DEF verifyL402Authorization, SaleInv, Types, RequestInv, ReqOk, SoleRecorder, Published
  <1>2. \/ receipts' = receipts
        \/ invoice[t].st = "paid" /\ invoice[t].sha = v /\ receipts' = [receipts EXCEPT ![t] = v]
    BY <1>1 DEF verifyL402Authorization, Verified, InvoiceType
  <1>3. \/ req' = [req EXCEPT ![r].st = "challenge", ![r].token = 0]
        \/ /\ invoice[t].st = "paid" /\ invoice[t].sha = v /\ receipts' = [receipts EXCEPT ![t] = v]
           /\ req' = [req EXCEPT ![r].st = "deliver"]
    BY <1>1 DEF verifyL402Authorization, Verified, InvoiceType
  <1>4. Types'
    <2>1. req' \in [Requests -> ReqType]
      BY <1>1, <1>3, SMTT(20), Z3T(20) DEF ReqType
    <2>2. receipts' \in [Invoices -> Shas \cup {NoSha}]
      BY <1>1, <1>2
    <2>. QED  BY <1>0, <2>1, <2>2, CatalogKept DEF SaleInv, Types
  <1>5. /\ \A q \in Requests \ {r} : req'[q] = req[q]
        /\ req'[r].sha = v /\ req'[r].st \in {"challenge", "deliver"}
        /\ req'[r].st = "deliver" =>
              req'[r].token = t /\ invoice[t].st = "paid" /\ invoice[t].sha = v /\ receipts'[t] = v
    BY <1>1, <1>3, SMTT(20), Z3T(20) DEF ReqType
  <1>6. ASSUME NEW h \in Invoices
        PROVE  \/ receipts'[h] = receipts[h]
               \/ invoice[h].st = "paid" /\ receipts'[h] = invoice[h].sha
    <2>1. CASE receipts' = receipts
      BY <2>1
    <2>2. CASE invoice[t].st = "paid" /\ invoice[t].sha = v /\ receipts' = [receipts EXCEPT ![t] = v]
      BY <1>1, <2>2
    <2>. QED  BY <1>2, <2>1, <2>2
  <1>7. RequestInv'
    <2>1. ASSUME NEW q \in Requests, req[q].st = "deliver" PROVE receipts'[req[q].token] = req[q].sha
      <3>1. /\ req[q].token \in Invoices /\ receipts[req[q].token] = req[q].sha
            /\ invoice[req[q].token].st = "paid" /\ invoice[req[q].token].sha = req[q].sha
        BY <2>1 DEF SaleInv, RequestInv, ReqOk, SoleRecorder
      <3>. QED  BY <1>6, <3>1
    <2>2. invoice' = invoice /\ Published' = Published
      BY <1>0, CatalogKept
    <2>3. ASSUME NEW q \in Requests, q # r PROVE ReqOk(q)'
      <3>1. ReqOk(q)
        BY DEF SaleInv, RequestInv
      <3>2. req'[q] = req[q]
        BY <1>5, <2>3
      <3>3. req[q].st = "deliver" => receipts'[req[q].token] = req[q].sha
        BY <2>1
      <3>. QED  BY <2>2, <3>1, <3>2, <3>3 DEF ReqOk
    <2>4. ReqOk(r)'
      BY <1>1, <1>5, <2>2 DEF ReqOk
    <2>5. SoleRecorder'
      BY <1>5 DEF SaleInv, RequestInv, SoleRecorder
    <2>. QED  BY <2>3, <2>4, <2>5 DEF RequestInv
  <1>8. InvoiceInv'
    BY <1>0, <1>6, CatalogKept DEF SaleInv, InvoiceInv
  <1>9. ServedInv'
    <2>1. ASSUME NEW s \in served
          PROVE  /\ s[1] \in Invoices /\ invoice[s[1]].st = "paid"
                 /\ invoice[s[1]].sha = s[2] /\ receipts'[s[1]] = s[2]
      <3>1. /\ s[1] \in Invoices /\ invoice[s[1]].st = "paid"
            /\ invoice[s[1]].sha = s[2] /\ receipts[s[1]] = s[2]
        BY DEF SaleInv, ServedInv
      <3>. QED  BY <1>6, <3>1
    <2>. QED  BY <1>0, <2>1 DEF ServedInv
  <1>. QED  BY <1>0, <1>4, <1>7, <1>8, <1>9, CatalogKept DEF SaleInv

\* A request that ends leaves the others as they are.
LEMMA RequestEnds ==
    ASSUME SaleInv, NEW r \in Requests, req' = [req EXCEPT ![r] = IdleReq],
           invoice' = invoice, receipts' = receipts, Published' = Published
    PROVE  RequestInv'
  <1>1. req'[r].st = "idle" /\ \A q \in Requests \ {r} : req'[q] = req[q]
    BY DEF SaleInv, Types, IdleReq
  <1>2. ASSUME NEW q \in Requests PROVE ReqOk(q)'
    <2>1. CASE q = r
      BY <1>1, <2>1 DEF ReqOk
    <2>2. CASE q # r
      <3>1. ReqOk(q)
        BY DEF SaleInv, RequestInv
      <3>2. req'[q] = req[q] /\ invoice' = invoice /\ receipts' = receipts /\ Published' = Published
        BY <1>1, <2>2
      <3>. QED  BY ONLY <3>1, <3>2 DEF ReqOk
    <2>. QED  BY <2>1, <2>2
  <1>3. SoleRecorder'
    BY <1>1 DEF SaleInv, RequestInv, SoleRecorder
  <1>. QED  BY <1>2, <1>3 DEF RequestInv

\* Content is delivered to a request that has shown its receipt.
LEMMA DeliverStep ==
    ASSUME SaleInv, AloneInv, NEW r \in Requests, paidContentResponse(r)
    PROVE  SaleInv' /\ AloneInv'
  <1>0. UNCHANGED <<stores, pub, begun, announced>> /\ UNCHANGED <<invoice, challenges, receipts>>
    BY DEF paidContentResponse
  <1>1. /\ req[r].st = "deliver" /\ req' = [req EXCEPT ![r] = IdleReq]
        /\ served' = served \cup {<<req[r].token, req[r].sha>>}
    BY DEF paidContentResponse
  <1>2. Types'
    BY <1>0, <1>1, CatalogKept DEF SaleInv, Types, ReqType, IdleReq
  <1>3. RequestInv'
    <2>1. invoice' = invoice /\ receipts' = receipts /\ Published' = Published
      BY <1>0, CatalogKept
    <2>. QED  BY <1>1, <2>1, RequestEnds
  <1>4. InvoiceInv'
    BY <1>0, CatalogKept DEF SaleInv, InvoiceInv
  <1>5. ServedInv'
    <2>1. ASSUME NEW s, s = <<req[r].token, req[r].sha>>
          PROVE  /\ s[1] \in Invoices /\ invoice[s[1]].st = "paid"
                 /\ invoice[s[1]].sha = s[2] /\ receipts[s[1]] = s[2]
      BY <1>1, <2>1 DEF SaleInv, RequestInv, ReqOk, SoleRecorder
    <2>. QED  BY <1>0, <1>1, <2>1 DEF SaleInv, ServedInv
  <1>. QED  BY <1>0, <1>2, <1>3, <1>4, <1>5, CatalogKept DEF SaleInv

\* An invoice is made for one request only, with a payment hash not used before.
LEMMA InvoiceStep ==
    ASSUME SaleInv, AloneInv, NEW r \in Requests, NEW h \in Invoices, createInvoice(r, h)
    PROVE  SaleInv' /\ AloneInv'
  <1>0. UNCHANGED <<stores, pub, begun, announced>> /\ UNCHANGED <<challenges, receipts, served>>
    BY DEF createInvoice
  <1>1. /\ req[r].st = "invoice" /\ invoice[h].st = "unused"
        /\ invoice' = [invoice EXCEPT ![h] = [st |-> "made", sha |-> req[r].sha]]
        /\ req' = [req EXCEPT ![r].st = "record", ![r].token = h]
    BY DEF createInvoice
  <1>a. req \in [Requests -> ReqType] /\ invoice \in [Invoices -> InvoiceType] /\ req[r].sha \in Published
    BY <1>1 DEF SaleInv, Types, RequestInv, ReqOk, SoleRecorder
  <1>2. /\ \A q \in Requests \ {r} : req'[q] = req[q]
        /\ req'[r].st = "record" /\ req'[r].token = h /\ req'[r].sha = req[r].sha
        /\ req' \in [Requests -> ReqType]
    <2>1. PICK e \in ReqType : /\ e.st = "record" /\ e.token = h /\ e.sha = req[r].sha
                               /\ e = [req[r] EXCEPT !.st = "record", !.token = h]
      BY <1>a DEF ReqType
    <2>2. req' = [req EXCEPT ![r] = e]
      BY <1>1, <1>a, <2>1 DEF ReqType
    <2>. QED  BY <1>a, <2>1, <2>2
  <1>3. /\ \A k \in Invoices \ {h} : invoice'[k] = invoice[k]
        /\ invoice'[h] = [st |-> "made", sha |-> req[r].sha]
        /\ invoice' \in [Invoices -> InvoiceType]
    BY <1>1, <1>a DEF ReqType, InvoiceType
  <1>4. Types'
    BY <1>0, <1>2, <1>3, CatalogKept DEF SaleInv, Types
  <1>5. RequestInv'
    <2>1. \A q \in Requests : req[q].st \in {"verify", "deliver", "record"} => req[q].token \in Invoices \ {h}
      BY <1>1 DEF SaleInv, RequestInv, ReqOk, SoleRecorder
    <2>2. receipts' = receipts /\ Published' = Published
      BY <1>0, CatalogKept
    <2>3. ASSUME NEW q \in Requests, q # r PROVE ReqOk(q)'
      <3>1. req'[q] = req[q] /\ ReqOk(q)
        BY <1>2, <2>3 DEF SaleInv, RequestInv
      <3>2. req[q].st \in {"verify", "deliver", "record"} => invoice'[req[q].token] = invoice[req[q].token]
        BY <1>3, <2>1, <2>3
      <3>. QED  BY <3>1, <3>2, <2>2 DEF ReqOk
    <2>4. ReqOk(r)'
      <3>1. req'[r].st = "record" /\ req'[r].token = h /\ req'[r].sha = req[r].sha
        BY <1>2
      <3>2. invoice'[h].st = "made" /\ invoice'[h].sha = req[r].sha
        BY <1>3, SMTT(20), Z3T(20)
      <3>3. req[r].sha \in Published'
        BY <1>a, <2>2
      <3>. QED  BY <3>1, <3>2, <3>3 DEF ReqOk
    <2>5. SoleRecorder'
      BY <1>2, <2>1 DEF SaleInv, RequestInv, SoleRecorder
    <2>. QED  BY <2>3, <2>4, <2>5 DEF RequestInv
  <1>6. InvoiceInv'
    <2>1. receipts[h] = NoSha
      BY <1>1 DEF SaleInv, InvoiceInv
    <2>2. invoice'[h].st = "made" /\ invoice'[h].sha \in Published
      BY <1>3, <1>a, SMTT(20), Z3T(20)
    <2>3. challenges' = challenges /\ receipts' = receipts /\ Published' = Published
      BY <1>0, CatalogKept
    <2>. QED  BY <1>3, <2>1, <2>2, <2>3, SMTT(20), Z3T(20) DEF SaleInv, InvoiceInv
  <1>7. ServedInv'
    <2>1. \A s \in served : s[1] \in Invoices \ {h}
      BY <1>1 DEF SaleInv, ServedInv
    <2>. QED  BY <1>0, <1>3, <2>1 DEF SaleInv, ServedInv
  <1>. QED  BY <1>0, <1>4, <1>5, <1>6, <1>7, CatalogKept DEF SaleInv

\* The challenge is on record before the client gets the invoice; one whose
\* answer is lost is recorded without being given.
LEMMA RecordStep ==
    ASSUME SaleInv, AloneInv, NEW r \in Requests, recordChallenge(r)
    PROVE  SaleInv' /\ AloneInv'
  <1>. DEFINE h == req[r].token
  <1>0. UNCHANGED <<stores, pub, begun, announced>> /\ UNCHANGED <<receipts, served>>
    BY DEF recordChallenge
  <1>1. /\ req[r].st = "record" /\ req' = [req EXCEPT ![r] = IdleReq]
        /\ challenges' = [challenges EXCEPT ![h] = req[r].sha]
        /\ invoice' = [invoice EXCEPT ![h].st = "given"]
    BY DEF recordChallenge
  <1>a. /\ req \in [Requests -> ReqType] /\ invoice \in [Invoices -> InvoiceType]
        /\ challenges \in [Invoices -> Shas \cup {NoSha}]
        /\ h \in Invoices /\ invoice[h].st = "made" /\ invoice[h].sha = req[r].sha
    BY <1>1 DEF SaleInv, Types, RequestInv, ReqOk, SoleRecorder
  <1>2. /\ \A q \in Requests \ {r} : req'[q] = req[q]
        /\ req'[r].st = "idle" /\ req' \in [Requests -> ReqType]
    BY <1>1, <1>a DEF ReqType, IdleReq
  <1>3. /\ \A k \in Invoices \ {h} : invoice'[k] = invoice[k] /\ challenges'[k] = challenges[k]
        /\ invoice'[h].st = "given" /\ invoice'[h].sha = req[r].sha /\ challenges'[h] = req[r].sha
        /\ invoice' \in [Invoices -> InvoiceType] /\ challenges' \in [Invoices -> Shas \cup {NoSha}]
    BY <1>1, <1>a DEF ReqType, InvoiceType
  <1>4. Types'
    BY <1>0, <1>2, <1>3, CatalogKept DEF SaleInv, Types
  <1>5. RequestInv'
    <2>1. \A q \in Requests \ {r} :
             req[q].st \in {"deliver", "record", "verify"} => req[q].token \in Invoices \ {h}
      BY <1>1, <1>a DEF SaleInv, RequestInv, ReqOk, SoleRecorder
    <2>2. receipts' = receipts /\ Published' = Published
      BY <1>0, CatalogKept
    <2>3. ASSUME NEW q \in Requests, q # r PROVE ReqOk(q)'
      <3>1. req'[q] = req[q] /\ ReqOk(q)
        BY <1>2, <2>3 DEF SaleInv, RequestInv
      <3>2. req[q].st \in {"verify", "deliver", "record"} => invoice'[req[q].token] = invoice[req[q].token]
        BY <1>3, <2>1, <2>3
      <3>. QED  BY <3>1, <3>2, <2>2 DEF ReqOk
    <2>4. ReqOk(r)'
      BY <1>2 DEF ReqOk
    <2>5. SoleRecorder'
      BY <1>2 DEF SaleInv, RequestInv, SoleRecorder
    <2>. QED  BY <2>3, <2>4, <2>5 DEF RequestInv
  <1>6. InvoiceInv'
    <2>1. receipts' = receipts /\ Published' = Published
      BY <1>0, CatalogKept
    <2>2. invoice[h].sha \in Published /\ receipts[h] = NoSha
      BY <1>a DEF SaleInv, InvoiceInv
    <2>3. ASSUME NEW k \in Invoices, k # h
          PROVE  /\ invoice'[k] = invoice[k] /\ challenges'[k] = challenges[k]
                 /\ receipts'[k] = receipts[k]
      BY <1>3, <2>1, <2>3
    <2>4. /\ invoice'[h].st = "given" /\ invoice'[h].sha = challenges'[h]
          /\ invoice'[h].sha \in Published' /\ receipts'[h] = NoSha
      BY <1>3, <1>a, <2>1, <2>2
    <2>. QED  BY <2>1, <2>3, <2>4, SMTT(20), Z3T(20) DEF SaleInv, InvoiceInv
  <1>7. ServedInv'
    <2>1. \A s \in served : s[1] \in Invoices \ {h}
      BY <1>a DEF SaleInv, ServedInv
    <2>. QED  BY <1>0, <1>3, <2>1 DEF SaleInv, ServedInv
  <1>. QED  BY <1>0, <1>4, <1>5, <1>6, <1>7, CatalogKept DEF SaleInv

\* A request that fails leaves what was sold as it is.
LEMMA FailStep ==
    ASSUME SaleInv, AloneInv, NEW r \in Requests, RequestFails(r)
    PROVE  SaleInv' /\ AloneInv'
  <1>0. UNCHANGED <<stores, pub, begun, announced>> /\ UNCHANGED <<invoice, receipts, served>>
    BY DEF RequestFails
  <1>1. /\ req' = [req EXCEPT ![r] = IdleReq]
        /\ \/ challenges' = challenges
           \/ req[r].st = "record" /\ challenges' = [challenges EXCEPT ![req[r].token] = req[r].sha]
    BY DEF RequestFails
  <1>2. req' \in [Requests -> ReqType] /\ challenges' \in [Invoices -> Shas \cup {NoSha}]
    BY <1>1 DEF SaleInv, Types, ReqType, IdleReq
  <1>3. Types'
    BY <1>0, <1>2, CatalogKept DEF SaleInv, Types
  <1>4. RequestInv'
    <2>1. invoice' = invoice /\ receipts' = receipts /\ Published' = Published
      BY <1>0, CatalogKept
    <2>. QED  BY <1>1, <2>1, RequestEnds
  <1>5. InvoiceInv'
    <2>1. ASSUME NEW h \in Invoices, invoice[h].st \in {"given", "paid"} PROVE challenges'[h] = challenges[h]
      BY <1>1, <2>1 DEF SaleInv, Types, RequestInv, ReqOk, SoleRecorder
    <2>. QED  BY <1>0, <2>1, CatalogKept DEF SaleInv, InvoiceInv
  <1>6. ServedInv'
    BY <1>0 DEF SaleInv, ServedInv
  <1>. QED  BY <1>0, <1>3, <1>4, <1>5, <1>6, CatalogKept DEF SaleInv

\* An invoice is paid.
LEMMA PayStep ==
    ASSUME SaleInv, AloneInv, NEW h \in Invoices, Pay(h)
    PROVE  SaleInv' /\ AloneInv'
  <1>0. UNCHANGED <<stores, pub, begun, announced>> /\ UNCHANGED <<req, challenges, receipts, served>>
    BY DEF Pay
  <1>1. invoice[h].st = "given" /\ invoice' = [invoice EXCEPT ![h].st = "paid"]
    BY DEF Pay
  <1>2. /\ \A k \in Invoices \ {h} : invoice'[k] = invoice[k]
        /\ invoice'[h].st = "paid" /\ invoice'[h].sha = invoice[h].sha
        /\ invoice' \in [Invoices -> InvoiceType]
    <2>1. invoice \in [Invoices -> InvoiceType]
      BY DEF SaleInv, Types
    <2>. QED  BY <1>1, <2>1 DEF InvoiceType
  <1>3. Types'
    BY <1>0, <1>2, CatalogKept DEF SaleInv, Types
  <1>4. RequestInv'
    <2>1. \A q \in Requests : req[q].st \in {"deliver", "record"} => req[q].token \in Invoices \ {h}
      BY <1>1 DEF SaleInv, RequestInv, ReqOk, SoleRecorder
    <2>2. req' = req /\ receipts' = receipts /\ Published' = Published
      BY <1>0, CatalogKept
    <2>3. ASSUME NEW q \in Requests PROVE ReqOk(q)'
      <3>1. ReqOk(q)
        BY DEF SaleInv, RequestInv
      <3>2. CASE req[q].token = h
        BY <1>2, <2>1, <2>2, <3>1, <3>2 DEF ReqOk
      <3>3. CASE req[q].token # h
        BY <1>2, <2>2, <3>1, <3>3 DEF ReqOk
      <3>. QED  BY <3>2, <3>3
    <2>4. SoleRecorder'
      BY <2>2 DEF SaleInv, RequestInv, SoleRecorder
    <2>. QED  BY <2>3, <2>4 DEF RequestInv
  <1>5. InvoiceInv'
    BY <1>0, <1>1, <1>2, CatalogKept DEF SaleInv, InvoiceInv
  <1>6. ServedInv'
    <2>1. \A s \in served : s[1] \in Invoices \ {h}
      BY <1>1 DEF SaleInv, ServedInv
    <2>. QED  BY <1>0, <1>2, <2>1 DEF SaleInv, ServedInv
  <1>. QED  BY <1>0, <1>3, <1>4, <1>5, <1>6, CatalogKept DEF SaleInv
-----------------------------------------------------------------------------
\* Both invariants hold at first: nothing is published and nothing sold.
LEMMA InitInv == Init => SaleInv /\ AloneInv
  <1>. SUFFICES ASSUME Init PROVE SaleInv /\ AloneInv
    OBVIOUS
  <1>. USE DEF Init, IdlePub, IdleReq, NoSkill
  <1>1. Published = {}
    BY DEF Published
  <1>2. Types
    BY DEF Types, RowType, PubType, SkillType, ReqType, InvoiceType
  <1>3. CatalogInv
    BY <1>1 DEF CatalogInv, Under
  <1>4. RequestInv /\ InvoiceInv /\ ServedInv
    BY DEF RequestInv, ReqOk, SoleRecorder, InvoiceInv, ServedInv
  <1>5. AloneInv
    BY DEF AloneInv, Under
  <1>. QED  BY <1>2, <1>3, <1>4, <1>5 DEF SaleInv

\* Every step keeps both invariants.
LEMMA StepInv == SaleInv /\ AloneInv /\ [Next]_vars => SaleInv' /\ AloneInv'
  <1>. SUFFICES ASSUME SaleInv, AloneInv, [Next]_vars PROVE SaleInv' /\ AloneInv'
    OBVIOUS
  <1>1. ASSUME NEW p \in Pubs, NEW v \in Shas, NEW price \in Prices, uploadSkillContent(p, v, price)
        PROVE  SaleInv' /\ AloneInv'
    BY <1>1, UploadInv
  <1>2. ASSUME NEW p \in Pubs, \/ BeginUpdate(p) \/ LockRows(p) \/ Commit(p)
                               \/ syncSkillToEdgeConfig(p) \/ PublishFails(p)
        PROVE  SaleInv' /\ AloneInv'
    BY <1>2, BeginInv, LockInv, CommitInv, EndInv
  <1>3. ASSUME NEW r \in Requests,
               \/ \E v \in Shas, t \in Tokens : RequestContent(r, v, t)
               \/ issueChallenge(r)
        PROVE  SaleInv' /\ AloneInv'
    BY <1>3, RequestStep
  <1>4. ASSUME NEW r \in Requests, \/ verifyL402Authorization(r) \/ paidContentResponse(r)
                                   \/ recordChallenge(r) \/ RequestFails(r)
        PROVE  SaleInv' /\ AloneInv'
    BY <1>4, VerifyStep, DeliverStep, RecordStep, FailStep
  <1>5. ASSUME NEW r \in Requests, NEW h \in Invoices, createInvoice(r, h) PROVE SaleInv' /\ AloneInv'
    BY <1>5, InvoiceStep
  <1>6. ASSUME NEW h \in Invoices, Pay(h) PROVE SaleInv' /\ AloneInv'
    BY <1>6, PayStep
  <1>7. CASE UNCHANGED vars
    <2>1. UNCHANGED <<stores, pub, begun, announced>> /\ UNCHANGED <<req, sale>>
      BY <1>7 DEF vars
    <2>2. Types'
      BY <2>1 DEF SaleInv, Types, stores, sale
    <2>. QED  BY <2>1, <2>2, CatalogKept, SaleKept DEF SaleInv
  <1>. QED  BY <1>1, <1>2, <1>3, <1>4, <1>5, <1>6, <1>7 DEF Next

\* Both invariants hold in every behaviour.
LEMMA AlwaysInv == Spec => [](SaleInv /\ AloneInv)
  BY InitInv, StepInv, PTL DEF Spec

\* Every version that an invoice was made for has its row and its content,
\* whatever publications overlap or fail halfway (issueChallenge, publish-skill).
THEOREM SoldTheorem == Spec => []SoldIsStored
  <1>1. SaleInv => SoldIsStored
    BY DEF SaleInv, CatalogInv, InvoiceInv, SoldIsStored
  <1>. QED  BY <1>1, AlwaysInv, PTL

\* The content route serves a version only for a paid invoice of that version,
\* with a challenge and a receipt on record (verifyL402Authorization, recordReceipt).
THEOREM SalesTheorem == Spec => []SalesRecorded
  <1>1. ASSUME SaleInv PROVE SalesRecorded
    <2>1. ASSUME NEW s \in served
          PROVE  invoice[s[1]] = [st |-> "paid", sha |-> s[2]] /\ receipts[s[1]] = s[2]
      <3>1. invoice[s[1]] \in InvoiceType /\ invoice[s[1]].st = "paid" /\ invoice[s[1]].sha = s[2]
            /\ receipts[s[1]] = s[2]
        BY <1>1 DEF SaleInv, Types, ServedInv
      <3>. QED  BY <3>1 DEF InvoiceType
    <2>2. \A h \in Invoices : receipts[h] # NoSha => challenges[h] = receipts[h]
      BY <1>1 DEF SaleInv, InvoiceInv
    <2>. QED  BY <2>1, <2>2 DEF SalesRecorded
  <1>. QED  BY <1>1, AlwaysInv, PTL

\* Between the success of a publication that overlapped no other and the next
\* commit, both sources of getCurrentSkillVersion give the skill it published.
THEOREM ManifestTheorem == Spec => []ManifestCurrent
  <1>1. ASSUME SaleInv, AloneInv PROVE ManifestCurrent
    <2>. SUFFICES ASSUME announced # NoSkill PROVE getCurrentSkillVersion = {announced}
      BY DEF ManifestCurrent
    <2>. DEFINE newest == {v \in Active : \A w \in Active : rows[w].created <= rows[v].created}
    <2>1. /\ Active = {announced.sha} /\ Skill(announced.sha) = announced
          /\ SyncsEdge => edge = announced
          /\ ~SyncsEdge => edge = NoSkill
      BY <1>1 DEF AloneInv, IsCurrent
    <2>2. rows[announced.sha].created \in Nat
      BY <1>1, <2>1 DEF SaleInv, Types, RowType, Active, Published
    <2>3. newest = {announced.sha}
      BY <2>1, <2>2, SMTT(20), Z3T(20)
    <2>4. {Skill(v) : v \in newest} = {announced}
      BY <2>1, <2>3, SMTT(20), Z3T(20)
    <2>5. {e \in {edge} : HasEdge /\ e # NoSkill} \subseteq {announced}
      BY <2>1
    <2>. QED  BY <2>4, <2>5 DEF getCurrentSkillVersion
  <1>. QED  BY <1>1, AlwaysInv, PTL

-----------------------------------------------------------------------------
(* The swap wizard. *)

\* A record of a swap request has the fields of the code's closure.
IsJob(w) ==
    w \in [st : JobStates, amount : {w.amount}, dir : {w.dir}, quote : {w.quote},
           order : {w.order}, shown : {w.shown}]

\* While the timer runs: what was captured is what was shown; the captured
\* quote was answered, so that its fee can only be emptied; unless the user was
\* hasty, the fee and the selection are still the ones shown.
WaitOk(w) ==
    /\ w.quote \in 0 .. quotesMade /\ w.quote \notin quoteCalls
    /\ w.shown = [amount |-> w.amount, dir |-> w.dir, fee |-> w.shown.fee,
                  chans |-> w.shown.chans]
    /\ w.shown.fee \in Nat /\ fee[w.quote] <= w.shown.fee
    /\ ~hasty => fee[w.quote] = w.shown.fee /\ selected = w.shown.chans

\* After the submission, until Loop answers.
SentOk(w) ==
    /\ w.order.amount = w.shown.amount /\ w.order.dir = w.shown.dir
    /\ w.order.fee <= w.shown.fee
    /\ ~hasty => w.order = w.shown /\ selected = w.order.chans

QuotesTyped ==
    /\ quotesMade \in 0 .. MaxQuotes /\ quoteCalls \subseteq 1 .. quotesMade
    /\ quote \in 0 .. quotesMade /\ quote \notin quoteCalls
    /\ fee \in [Quotes \cup {0} -> Nat]

StepTyped ==
    /\ step \in Int /\ step <= Processing
    /\ hasty \in BOOLEAN

JobsTyped ==
    /\ job = [j \in Ids |-> job[j]]
    /\ \A j \in Ids : IsJob(job[j])

\* The step is Processing exactly as long as a request is under way, unless the
\* user was hasty; then there is only one request, that of processingTimeout.
OneJob ==
    /\ step = Processing => Waiting \cup Submitted # {}
    /\ ~hasty => \A j \in Waiting \cup Submitted : step = Processing /\ processing = j

WizardInv ==
    /\ QuotesTyped
    /\ StepTyped
    /\ JobsTyped
    /\ \A j \in Waiting : WaitOk(job[j])
    /\ \A j \in Submitted : SentOk(job[j])
    /\ OneJob
-----------------------------------------------------------------------------
\* The initial state, with no request, satisfies the invariant.
LEMMA WizardInitInv == WizardInit => WizardInv
<1> SUFFICES ASSUME WizardInit PROVE WizardInv
  OBVIOUS
<1>1. QuotesTyped
  BY WizardAssumption, SMTT(20), Z3T(20) DEF WizardInit, QuotesTyped, Quotes
<1>2. \A j \in Ids : job[j] = NoWork
  BY DEF WizardInit
<1>3. StepTyped
  <2>1. hasty \in BOOLEAN
    BY DEF WizardInit
  <2>2. step \in Int /\ step <= Processing
    BY SMTT(20), Z3T(20) DEF WizardInit, Closed, Processing
  <2> QED
    BY <2>1, <2>2 DEF StepTyped
<1>4. JobsTyped
  <2>1. job = [j \in Ids |-> job[j]]
    BY DEF WizardInit
  <2>2. IsJob(NoWork)
    BY DEF IsJob, NoWork, JobStates
  <2> QED
    BY <1>2, <2>1, <2>2 DEF JobsTyped
<1>5. Waiting = {} /\ Submitted = {}
  BY <1>2, SMTT(20), Z3T(20) DEF Waiting, Submitted, NoWork
<1> QED
  BY <1>1, <1>3, <1>4, <1>5, SMTT(20), Z3T(20) DEF WizardInv, OneJob, WizardInit, Closed, Processing
-----------------------------------------------------------------------------
\* A step at most empties quotes that were answered, and brings no answered
\* quote back in flight.
QuotesKept ==
    /\ quotesMade <= quotesMade'
    /\ \A q \in 0 .. quotesMade : q \notin quoteCalls => q \notin quoteCalls' /\ fee'[q] <= fee[q]

\* A step that starts and submits no request keeps the invariant, if it leaves
\* the request of the Processing step, the form and the quotes alone, or ends
\* that request, or is hasty.
LEMMA JobsFollow ==
    ASSUME WizardInv, QuotesTyped', StepTyped', JobsTyped', QuotesKept, hasty => hasty',
           \A j \in Ids : job'[j].st \in {"waiting", "sent"} => job'[j] = job[j],
           ~hasty' /\ step = Processing /\ (Waiting \cup Submitted)' # {}
              => /\ step' = Processing /\ processing' = processing /\ selected' = selected
                 /\ \A q \in 0 .. quotesMade : q \notin quoteCalls => fee'[q] = fee[q],
           (step = Processing => Waiting \cup Submitted # {})'
    PROVE  WizardInv'
<1>1. (Waiting \cup Submitted)' \subseteq Waiting \cup Submitted
  BY DEF Waiting, Submitted
<1>2. ASSUME ~hasty', NEW j \in (Waiting \cup Submitted)'
      PROVE  /\ ~hasty /\ step = Processing /\ processing = j
             /\ step' = Processing /\ processing' = processing /\ selected' = selected
             /\ \A q \in 0 .. quotesMade : q \notin quoteCalls => fee'[q] = fee[q]
  BY <1>1, <1>2 DEF WizardInv, OneJob
<1>3. OneJob'
  BY <1>2 DEF OneJob
<1>4. ASSUME NEW j \in Waiting' PROVE WaitOk(job[j])'
  <2>1. j \in Waiting /\ job'[j] = job[j] /\ WaitOk(job[j])
    BY <1>4 DEF Waiting, WizardInv
  <2> DEFINE w == job[j]
  <2>2. w.quote \in 0 .. quotesMade' /\ w.quote \notin quoteCalls'
    <3>1. w.quote \in 0 .. quotesMade /\ w.quote \notin quoteCalls
      BY <2>1 DEF WaitOk
    <3>2. quotesMade \in 0 .. MaxQuotes /\ quotesMade' \in 0 .. MaxQuotes /\ quotesMade <= quotesMade'
      BY DEF WizardInv, QuotesTyped, QuotesKept
    <3>3. w.quote \in 0 .. quotesMade'
      BY <3>1, <3>2, WizardAssumption, SMTT(20), Z3T(20)
    <3> QED
      BY <3>1, <3>3 DEF QuotesKept
  <2>3. fee'[w.quote] <= w.shown.fee
    <3>1. /\ w.quote \in 0 .. quotesMade /\ w.quote \notin quoteCalls /\ w.shown.fee \in Nat
          /\ fee[w.quote] <= w.shown.fee
      BY <2>1 DEF WaitOk
    <3>2. quotesMade \in 0 .. MaxQuotes
      BY DEF WizardInv, QuotesTyped
    <3>3. w.quote \in Quotes \cup {0}
      BY <3>1, <3>2, WizardAssumption, SMTT(20), Z3T(20) DEF Quotes
    <3>4. fee[w.quote] \in Nat /\ fee'[w.quote] \in Nat
      BY <3>3 DEF WizardInv, QuotesTyped
    <3>5. fee'[w.quote] <= fee[w.quote]
      BY <3>1 DEF QuotesKept
    <3> HIDE DEF w
    <3> QED
      BY <3>1, <3>4, <3>5, SMTT(20), Z3T(20)
  <2>4. ~hasty' => fee'[w.quote] = w.shown.fee /\ selected' = w.shown.chans
    BY <1>2, <1>4, <2>1 DEF WaitOk
  <2> QED
    BY <2>1, <2>2, <2>3, <2>4 DEF WaitOk
<1>5. ASSUME NEW j \in Submitted' PROVE SentOk(job[j])'
  <2>1. j \in Submitted /\ job'[j] = job[j] /\ SentOk(job[j])
    BY <1>5 DEF Submitted, WizardInv
  <2>2. ~hasty' => ~hasty /\ selected' = selected
    BY <1>2, <1>5
  <2> QED
    BY <2>1, <2>2 DEF SentOk
<1> QED
  BY <1>3, <1>4, <1>5 DEF WizardInv

\* Replacing one request's record changes that record only.
LEMMA JobChange ==
    ASSUME JobsTyped, NEW j \in Ids, NEW w, IsJob(w), job' = [job EXCEPT ![j] = w]
    PROVE  /\ JobsTyped'
           /\ job'[j] = w
           /\ \A i \in Ids \ {j} : job'[i] = job[i]
<1>1. DOMAIN job = Ids
  BY DEF JobsTyped
<1>2. job'[j] = w /\ \A i \in Ids \ {j} : job'[i] = job[i]
  BY <1>1
<1>3. job' = [i \in Ids |-> job'[i]]
  BY <1>1
<1>4. \A i \in Ids : IsJob(job'[i])
  BY <1>2 DEF JobsTyped
<1> QED
  BY <1>2, <1>3, <1>4 DEF JobsTyped, IsJob

\* A request that has ended.
LEMMA EndedJob ==
    ASSUME NEW st \in {"aborted", "done", "failed"}
    PROVE  IsJob(Ended(st)) /\ Ended(st).st = st
BY DEF IsJob, Ended, NoWork, JobStates

\* The states of the requests exclude each other.
LEMMA JobSets ==
    ASSUME NEW j \in Ids
    PROVE  /\ j \in Waiting <=> job[j].st = "waiting"
           /\ j \in Submitted <=> job[j].st = "sent"
           /\ j \in Waiting' <=> job'[j].st = "waiting"
           /\ j \in Submitted' <=> job'[j].st = "sent"
BY DEF Waiting, Submitted
-----------------------------------------------------------------------------
\* Quotes that nothing touches keep their types and their fees.
LEMMA QuotesSame ==
    ASSUME WizardInv, UNCHANGED quoteVars
    PROVE  QuotesTyped' /\ QuotesKept /\ \A q \in 0 .. quotesMade : fee'[q] = fee[q]
<1>1. \A q \in 0 .. quotesMade : fee[q] \in Nat
  BY WizardAssumption, SMTT(20), Z3T(20) DEF WizardInv, QuotesTyped, Quotes
<1> QED
  BY <1>1, SMTT(20), Z3T(20) DEF WizardInv, QuotesTyped, QuotesKept, quoteVars

\* The steps of the form and of the quotes, off the Processing step.
LEMMA FormStep ==
    ASSUME WizardInv, QuotesTyped', QuotesKept, UNCHANGED jobVars,
           step # Processing, step' # Processing, step' \in Int, step' <= Processing
    PROVE  WizardInv'
<1>1. StepTyped' /\ JobsTyped'
  BY DEF WizardInv, StepTyped, JobsTyped, jobVars, IsJob
<1> QED
  BY <1>1, JobsFollow DEF jobVars, OneJob

\* Cancelling empties the fee of the current quote, which was answered.
LEMMA CancelQuotes ==
    ASSUME WizardInv, cancel, UNCHANGED <<quote, quoteCalls, quotesMade>>
    PROVE  QuotesTyped' /\ QuotesKept
<1>1. quote \in Quotes \cup {0} /\ \A q \in 0 .. quotesMade : q \in Quotes \cup {0}
  BY WizardAssumption, SMTT(20), Z3T(20) DEF WizardInv, QuotesTyped, Quotes
<1>2. fee' \in [Quotes \cup {0} -> Nat]
  BY <1>1 DEF WizardInv, QuotesTyped, cancel
<1>3. \A q \in 0 .. quotesMade : fee'[q] <= fee[q]
  BY <1>1, SMTT(20), Z3T(20) DEF WizardInv, QuotesTyped, cancel
<1> QED
  BY <1>2, <1>3, SMTT(20), Z3T(20) DEF WizardInv, QuotesTyped, QuotesKept

\* A new call for a quote creates an object that no request has captured.
LEMMA RequestQuoteInv == ASSUME WizardInv, NEW q \in Quotes, RequestQuote(q) PROVE WizardInv'
<1>1. QuotesTyped'
  BY WizardAssumption, SMTT(20), Z3T(20) DEF WizardInv, QuotesTyped, RequestQuote, Quotes
<1>2. \A p \in 0 .. quotesMade : fee[p] \in Nat
  BY WizardAssumption, SMTT(20), Z3T(20) DEF WizardInv, QuotesTyped, Quotes
<1>3. QuotesKept
  BY <1>2, SMTT(20), Z3T(20) DEF WizardInv, QuotesTyped, RequestQuote, QuotesKept
<1> QED
  BY <1>1, <1>3, FormStep, SMTT(20), Z3T(20) DEF RequestQuote, ChooseAmount, Processing

\* Going back aborts the timer of the Processing step; a request that was
\* submitted is left behind, and that is hasty.
LEMMA PrevStepInv ==
    ASSUME WizardInv, goToPrevStep, hasty' = (hasty \/ Submitted # {}), selected' = selected,
           QuotesTyped', QuotesKept
    PROVE  WizardInv'
<1>1. StepTyped'
  BY SMTT(20), Z3T(20) DEF goToPrevStep, WizardInv, StepTyped, Processing
<1>2. CASE step = Processing
  <2>1. JobsTyped' /\ \A j \in Ids : job'[j].st \in {"waiting", "sent"}
                          => job'[j] = job[j] /\ ~(j = processing /\ processing \in Waiting)
    <3>1. CASE processing \in Waiting
      <4>1. processing \in Ids /\ job' = [job EXCEPT ![processing] = Ended("aborted")]
        BY <1>2, <3>1 DEF goToPrevStep, abortSwap, Waiting
      <4> QED
        BY <4>1, <3>1, JobChange, EndedJob DEF WizardInv
    <3>2. CASE processing \notin Waiting
      BY <1>2, <3>2 DEF goToPrevStep, abortSwap, WizardInv, JobsTyped, IsJob
    <3> QED
      BY <3>1, <3>2
  <2>2. ASSUME ~hasty' PROVE (Waiting \cup Submitted)' = {}
    <3>1. ~hasty /\ Submitted = {} /\ \A j \in Waiting : processing = j
      BY <2>2 DEF WizardInv, OneJob
    <3> QED
      BY <2>1, <3>1 DEF Waiting, Submitted
  <2>3. step' # Processing
    BY <1>2, SMTT(20), Z3T(20) DEF goToPrevStep, Processing
  <2> QED
    BY <1>1, <2>1, <2>2, <2>3, JobsFollow
<1>3. CASE step # Processing
  <2>1. JobsTyped' /\ job' = job /\ step' # Processing
    BY <1>3, SMTT(20), Z3T(20) DEF goToPrevStep, WizardInv, JobsTyped, IsJob, StepTyped, Processing
  <2> QED
    BY <1>1, <1>3, <2>1, JobsFollow
<1> QED
  BY <1>2, <1>3
-----------------------------------------------------------------------------
\* Confirming starts the only request there is, unless the user was hasty.
LEMMA RequestSwapInv == ASSUME WizardInv, NEW j \in Unused, requestSwap(j) PROVE WizardInv'
<1> DEFINE w == [st |-> "waiting", amount |-> amount, dir |-> direction, quote |-> quote,
                 order |-> Unconfirmed,
                 shown |-> [amount |-> amount, dir |-> direction, fee |-> fee[quote],
                            chans |-> selected]]
<1>1. j \in Ids /\ job[j].st = "unused"
  BY DEF Unused
<1>2. UNCHANGED <<quoteVars, selected, hasty>> /\ job' = [job EXCEPT ![j] = w]
  BY DEF requestSwap, callVars, formVars
<1>3. IsJob(w) /\ w.st = "waiting"
  BY DEF IsJob, JobStates
<1>4. JobsTyped' /\ job'[j] = w /\ \A i \in Ids \ {j} : job'[i] = job[i]
  <2> HIDE DEF w
  <2> QED
    BY <1>1, <1>2, <1>3, JobChange DEF WizardInv
<1>5. QuotesTyped' /\ QuotesKept /\ \A q \in 0 .. quotesMade : fee'[q] = fee[q]
  BY <1>2, QuotesSame
<1>6. step = ReviewQuote /\ step' = Processing /\ processing' = j
  BY SMTT(20), Z3T(20) DEF requestSwap, ReviewQuote, Processing
<1>7. StepTyped'
  BY <1>2, <1>6, SMTT(20), Z3T(20) DEF WizardInv, StepTyped, Processing
<1>8. Waiting' = Waiting \cup {j} /\ Submitted' = Submitted
  BY <1>1, <1>3, <1>4 DEF Waiting, Submitted
<1>9. OneJob'
  BY <1>2, <1>6, <1>8, SMTT(20), Z3T(20) DEF WizardInv, OneJob, ReviewQuote, Processing
<1>10. WaitOk(job[j])'
  <2>1. fee[quote] \in Nat /\ quote \in 0 .. quotesMade
    <3>1. /\ quote \in 0 .. quotesMade /\ quotesMade \in 0 .. MaxQuotes
          /\ fee \in [Quotes \cup {0} -> Nat]
      BY DEF WizardInv, QuotesTyped
    <3>2. quote \in Quotes \cup {0}
      BY <3>1, WizardAssumption, SMTT(20), Z3T(20) DEF Quotes
    <3> QED
      BY <3>1, <3>2
  <2>2. /\ job'[j].quote = quote /\ job'[j].amount = amount /\ job'[j].dir = direction
        /\ job'[j].shown = [amount |-> amount, dir |-> direction, fee |-> fee[quote],
                            chans |-> selected]
    BY <1>4, SMTT(20), Z3T(20)
  <2>3. /\ fee'[quote] = fee[quote] /\ quotesMade' = quotesMade /\ selected' = selected
        /\ quote \notin quoteCalls /\ quoteCalls' = quoteCalls
    BY <1>2, <1>5, <2>1 DEF WizardInv, QuotesTyped, quoteVars
  <2>4. fee[quote] <= fee[quote]
    BY <2>1, SMTT(20), Z3T(20)
  <2>5. job'[j].shown.fee = fee[quote] /\ job'[j].shown.chans = selected
    BY <2>2, SMTT(20), Z3T(20)
  <2> HIDE DEF w
  <2>6. job'[j].quote \in 0 .. quotesMade' /\ job'[j].quote \notin quoteCalls'
    BY <2>1, <2>2, <2>3
  <2>7. job'[j].shown = [amount |-> job'[j].amount, dir |-> job'[j].dir,
                         fee |-> job'[j].shown.fee, chans |-> job'[j].shown.chans]
    BY <2>2, <2>5
  <2>8. fee'[job'[j].quote] = job'[j].shown.fee
    BY <2>2, <2>3, <2>5
  <2>9. job'[j].shown.fee \in Nat /\ fee'[job'[j].quote] <= job'[j].shown.fee
    BY <2>1, <2>4, <2>5, <2>8
  <2> QED
    BY <2>3, <2>5, <2>6, <2>7, <2>8, <2>9 DEF WaitOk
<1>11. ASSUME NEW i \in Waiting' PROVE WaitOk(job[i])'
  <2>1. CASE i = j
    BY <2>1, <1>10
  <2>2. CASE i # j
    <3>1. i \in Waiting /\ job'[i] = job[i] /\ WaitOk(job[i])
      BY <2>2, <1>4, <1>8, <1>11 DEF WizardInv, Waiting
    <3>2. job[i].quote \in 0 .. quotesMade
      BY <3>1 DEF WaitOk
    <3>3. /\ fee'[job[i].quote] = fee[job[i].quote] /\ quotesMade' = quotesMade
          /\ quoteCalls' = quoteCalls /\ selected' = selected /\ hasty' = hasty
      BY <1>2, <1>5, <3>2 DEF quoteVars
    <3> QED
      BY ONLY <3>1, <3>3, ZenonT(20), SMTT(20), Z3T(20) DEF WaitOk
  <2> QED
    BY <2>1, <2>2
<1>12. ASSUME NEW i \in Submitted' PROVE SentOk(job[i])'
  <2>1. i \in Submitted /\ job'[i] = job[i] /\ SentOk(job[i])
    BY <1>1, <1>4, <1>8, <1>12 DEF WizardInv, Submitted
  <2> QED
    BY <2>1, <1>2 DEF SentOk
<1> QED
  BY <1>4, <1>5, <1>7, <1>9, <1>11, <1>12 DEF WizardInv

\* Every step of the user keeps the invariant.
LEMMA UserStepInv == ASSUME WizardInv, UserStep PROVE WizardInv'
<1>1. CASE startSwap
  BY <1>1, QuotesSame, FormStep, SMTT(20), Z3T(20)
  DEF startSwap, showWizard, SelectDirection, ChooseAmount,
     ReviewQuote, Processing
<1>2. CASE \E c \in Chans : toggleSelectedChannel(c)
  BY <1>2, QuotesSame, FormStep DEF toggleSelectedChannel, callVars, showWizard, WizardInv, StepTyped
<1>3. CASE \E d \in {"IN", "OUT"} : setDirection(d)
  BY <1>3, QuotesSame, FormStep, SMTT(20), Z3T(20)
  DEF setDirection, callVars, SelectDirection, Processing
<1>4. CASE \E a \in Amounts : setAmount(a)
  BY <1>4, QuotesSame, FormStep, SMTT(20), Z3T(20) DEF setAmount, callVars, ChooseAmount, Processing
<1>5. CASE \E q \in Quotes : RequestQuote(q)
  BY <1>5, RequestQuoteInv
<1>6. CASE \E j \in Unused : requestSwap(j)
  BY <1>6, RequestSwapInv
<1>7. CASE Back
  BY <1>7, QuotesSame, PrevStepInv DEF Back, callVars, formVars
<1>8. CASE Cancel
  BY <1>8, CancelQuotes, FormStep, SMTT(20), Z3T(20)
  DEF Cancel, cancel, SelectDirection, ChooseAmount, ReviewQuote,
     Closed, Processing
<1> QED
  BY <1>1, <1>2, <1>3, <1>4, <1>5, <1>6, <1>7, <1>8 DEF UserStep
-----------------------------------------------------------------------------
\* An answer with terms changes nothing the requests depend on; a failed call
\* takes the wizard one step back.
LEMMA GetTermsInv == ASSUME WizardInv, NEW ok \in BOOLEAN, NEW max, getTerms(ok, max) PROVE WizardInv'
<1>1. UNCHANGED <<quoteVars, selected>>
  BY DEF getTerms, formVars
<1>2. CASE ok
  <2>1. UNCHANGED <<step, job, processing, hasty>>
    BY <1>2 DEF getTerms, WizardInv, StepTyped
  <2>2. StepTyped' /\ JobsTyped' /\ (step = Processing => Waiting \cup Submitted # {})'
    BY <2>1 DEF WizardInv, StepTyped, JobsTyped, IsJob, OneJob, Waiting, Submitted
  <2> QED
    BY <1>1, <2>1, <2>2, QuotesSame, JobsFollow
<1>3. CASE ~ok
  BY <1>1, <1>3, QuotesSame, PrevStepInv DEF getTerms
<1> QED
  BY <1>2, <1>3

\* An answered quote is a new object: the requests keep theirs.
LEMMA GetQuoteInv ==
    ASSUME WizardInv, NEW q \in Quotes, NEW ok \in BOOLEAN, NEW f \in Fees, getQuote(q, ok, f)
    PROVE  WizardInv'
<1>1. selected' = selected /\ quotesMade' = quotesMade /\ quoteCalls' = quoteCalls \ {q} /\ q \in quoteCalls
  BY DEF getQuote, formVars
<1>2. \A p \in 0 .. quotesMade : fee[p] \in Nat
  BY WizardAssumption, SMTT(20), Z3T(20) DEF WizardInv, QuotesTyped, Quotes
<1>3. CASE ok
  <2>1. UNCHANGED <<step, job, processing, hasty>> /\ quote' = q /\ fee' = [fee EXCEPT ![q] = f]
    BY <1>3 DEF getQuote, WizardInv, StepTyped
  <2>2. StepTyped' /\ JobsTyped' /\ (step = Processing => Waiting \cup Submitted # {})'
    BY <2>1 DEF WizardInv, StepTyped, JobsTyped, IsJob, OneJob, Waiting, Submitted
  <2>3. QuotesTyped'
    BY <1>1, <2>1, WizardAssumption, SMTT(20), Z3T(20) DEF WizardInv, QuotesTyped, Quotes
  <2>4. \A p \in 0 .. quotesMade : p \notin quoteCalls => fee'[p] = fee[p]
    BY <1>1, <2>1, WizardAssumption, SMTT(20), Z3T(20) DEF WizardInv, QuotesTyped, Quotes
  <2>5. QuotesKept
    BY <1>1, <1>2, <2>4, SMTT(20), Z3T(20) DEF QuotesKept, WizardInv, QuotesTyped
  <2> QED
    BY <1>1, <2>1, <2>2, <2>3, <2>4, <2>5, JobsFollow
<1>4. CASE ~ok
  <2>1. UNCHANGED <<quote, fee>> /\ goToPrevStep /\ hasty' = (hasty \/ Submitted # {})
    BY <1>4 DEF getQuote
  <2>2. QuotesTyped' /\ QuotesKept
    BY <1>1, <1>2, <2>1, SMTT(20), Z3T(20) DEF WizardInv, QuotesTyped, QuotesKept
  <2> QED
    BY <1>1, <2>1, <2>2, PrevStepInv
<1> QED
  BY <1>3, <1>4

\* Submitting a request sets its state and its order.
LEMMA SentJob ==
    ASSUME NEW w, IsJob(w), NEW o
    PROVE  LET v == [w EXCEPT !.st = "sent", !.order = o] IN
           IsJob(v) /\ v.st = "sent" /\ v.order = o /\ v.shown = w.shown
<1> DEFINE v == [w EXCEPT !.st = "sent", !.order = o]
<1>1. /\ v.st = "sent" /\ v.order = o /\ v.shown = w.shown
      /\ v.amount = w.amount /\ v.dir = w.dir /\ v.quote = w.quote
  BY DEF IsJob, JobStates
<1>2. v \in [st : JobStates, amount : {w.amount}, dir : {w.dir}, quote : {w.quote},
             order : {o}, shown : {w.shown}]
  BY DEF IsJob, JobStates
<1> QED
  BY <1>1, <1>2 DEF IsJob

\* The timer submits what was captured, with the fee and the selection of now.
LEMMA SubmitSwapInv == ASSUME WizardInv, NEW j \in Ids, SubmitSwap(j) PROVE WizardInv'
<1> DEFINE w == [job[j] EXCEPT !.st = "sent", !.order = Order(job[j])]
<1>1. UNCHANGED <<step, quoteVars, selected, processing, hasty>> /\ job[j].st = "waiting"
  BY DEF SubmitSwap, callVars, formVars
<1>2. job' = [job EXCEPT ![j] = w]
  BY DEF SubmitSwap, WizardInv, JobsTyped
<1>3. IsJob(w) /\ w.st = "sent" /\ w.order = Order(job[j]) /\ w.shown = job[j].shown
  BY SentJob DEF WizardInv, JobsTyped
<1>4. JobsTyped' /\ job'[j] = w /\ \A i \in Ids \ {j} : job'[i] = job[i]
  <2> HIDE DEF w
  <2> QED
    BY <1>2, <1>3, JobChange DEF WizardInv
<1> HIDE DEF w
<1>5. QuotesTyped' /\ QuotesKept /\ \A q \in 0 .. quotesMade : fee'[q] = fee[q]
  BY <1>1, QuotesSame
<1>6. StepTyped'
  BY <1>1 DEF WizardInv, StepTyped
<1>7. Waiting' = Waiting \ {j} /\ Submitted' = Submitted \cup {j} /\ j \in Waiting
  BY <1>1, <1>3, <1>4 DEF Waiting, Submitted
<1>8. OneJob'
  <2>1. (Waiting \cup Submitted)' = Waiting \cup Submitted
    BY <1>7
  <2>2. UNCHANGED step /\ UNCHANGED processing /\ UNCHANGED hasty /\ OneJob
    BY <1>1 DEF WizardInv
  <2> QED
    BY <2>1, <2>2 DEF OneJob, Processing
<1>9. SentOk(job[j])'
  <2>1. WaitOk(job[j])
    BY <1>7 DEF WizardInv
  <2>2. /\ job'[j].order.amount = job[j].amount /\ job'[j].order.dir = job[j].dir
        /\ job'[j].order.fee = fee[job[j].quote] /\ job'[j].order.chans = selected
        /\ job'[j].order = [amount |-> job[j].amount, dir |-> job[j].dir,
                            fee |-> fee[job[j].quote], chans |-> selected]
        /\ job'[j].shown = job[j].shown
    BY <1>3, <1>4, SMTT(20), Z3T(20) DEF Order
  <2>3. job[j].shown.amount = job[j].amount /\ job[j].shown.dir = job[j].dir
    BY <2>1, SMTT(20), Z3T(20) DEF WaitOk
  <2>4. job'[j].order.fee <= job'[j].shown.fee
    BY <2>1, <2>2 DEF WaitOk
  <2>5. ASSUME ~hasty PROVE job'[j].order = job'[j].shown
    <3>1. /\ fee[job[j].quote] = job[j].shown.fee /\ selected = job[j].shown.chans
          /\ job[j].shown = [amount |-> job[j].amount, dir |-> job[j].dir,
                             fee |-> job[j].shown.fee, chans |-> job[j].shown.chans]
      BY <2>1, <2>5 DEF WaitOk
    <3> QED
      BY <2>2, <3>1
  <2>6. hasty' = hasty /\ selected' = selected
    BY <1>1
  <2> QED
    BY <2>2, <2>3, <2>4, <2>5, <2>6 DEF SentOk
<1>10. ASSUME NEW i \in Waiting' PROVE WaitOk(job[i])'
  <2>1. i \in Waiting /\ job'[i] = job[i] /\ WaitOk(job[i])
    BY <1>4, <1>7, <1>10 DEF WizardInv, Waiting
  <2> QED
    BY <2>1, <1>1, <1>5 DEF WaitOk, quoteVars
<1>11. ASSUME NEW i \in Submitted' PROVE SentOk(job[i])'
  <2>1. CASE i = j
    BY <2>1, <1>9
  <2>2. CASE i # j
    <3>1. i \in Submitted /\ job'[i] = job[i] /\ SentOk(job[i])
      BY <2>2, <1>4, <1>7, <1>11 DEF WizardInv, Submitted
    <3> QED
      BY <3>1, <1>1 DEF SentOk
  <2> QED
    BY <2>1, <2>2
<1> QED
  BY <1>4, <1>5, <1>6, <1>8, <1>10, <1>11 DEF WizardInv

\* Loop's acceptance closes the wizard: it ends the only request, unless the
\* user was hasty.
LEMMA SwapAcceptedInv == ASSUME WizardInv, NEW j \in Ids, SwapAccepted(j) PROVE WizardInv'
<1>1. /\ cancel /\ UNCHANGED <<quote, quoteCalls, quotesMade, processing, hasty>>
      /\ job[j].st = "sent" /\ job' = [job EXCEPT ![j] = Ended("done")]
  BY DEF SwapAccepted
<1>2. QuotesTyped' /\ QuotesKept
  BY <1>1, CancelQuotes
<1>3. JobsTyped' /\ job'[j].st = "done" /\ \A i \in Ids \ {j} : job'[i] = job[i]
  BY <1>1, JobChange, EndedJob DEF WizardInv
<1>4. StepTyped' /\ step' # Processing
  BY <1>1, SMTT(20), Z3T(20) DEF WizardInv, StepTyped, cancel, Closed, Processing
<1>5. ASSUME ~hasty' PROVE (Waiting \cup Submitted)' = {}
  <2>1. \A i \in Waiting \cup Submitted : processing = i
    BY <1>1, <1>5 DEF WizardInv, OneJob
  <2> QED
    BY <1>1, <1>3, <2>1, SMTT(20), Z3T(20) DEF Waiting, Submitted
<1> QED
  BY <1>1, <1>2, <1>3, <1>4, <1>5, JobsFollow

\* A refusal ends the request and takes the wizard one step back.
LEMMA SwapRefusedInv == ASSUME WizardInv, NEW j \in Ids, SwapRefused(j) PROVE WizardInv'
<1> DEFINE left == IF step = Processing /\ processing \in Waiting THEN {processing} ELSE {}
<1>1. /\ UNCHANGED <<quoteVars, selected, hasty>> /\ job[j].st = "sent" /\ step' = step - 1
      /\ job' = [i \in Ids |-> IF i = j THEN Ended("failed")
                               ELSE IF i \in left THEN Ended("aborted") ELSE job[i]]
  BY DEF SwapRefused, callVars, formVars
<1> HIDE DEF left
<1>2. \A i \in Ids : job'[i] = IF i = j THEN Ended("failed")
                               ELSE IF i \in left THEN Ended("aborted") ELSE job[i]
  BY <1>1
<1>3. JobsTyped'
  <2>1. job' = [i \in Ids |-> job'[i]]
    BY <1>1
  <2>2. \A i \in Ids : IsJob(job'[i])
    BY <1>2, EndedJob DEF WizardInv, JobsTyped
  <2> QED
    BY <2>1, <2>2 DEF JobsTyped, IsJob
<1>4. StepTyped' /\ step' # Processing
  BY <1>1, SMTT(20), Z3T(20) DEF WizardInv, StepTyped, Processing
<1>5. job'[j].st = "failed" /\ \A i \in Ids : job'[i].st \in {"waiting", "sent"} => job'[i] = job[i]
  BY <1>2, EndedJob
<1>6. ASSUME ~hasty' PROVE (Waiting \cup Submitted)' = {}
  <2>1. \A i \in Waiting \cup Submitted : processing = i
    BY <1>1, <1>6 DEF WizardInv, OneJob
  <2>2. j \in Waiting \cup Submitted /\ processing = j
    BY <1>1, <2>1 DEF Submitted
  <2> QED
    BY <1>5, <2>1, <2>2, SMTT(20), Z3T(20) DEF Waiting, Submitted
<1> QED
  BY <1>1, <1>3, <1>4, <1>5, <1>6, QuotesSame, JobsFollow
-----------------------------------------------------------------------------
\* Every step keeps the invariant.
LEMMA WizardStepInv == WizardInv /\ [WizardNext]_wizardVars => WizardInv'
<1> SUFFICES ASSUME WizardInv, [WizardNext]_wizardVars PROVE WizardInv'
  OBVIOUS
<1>1. CASE UserStep
  BY <1>1, UserStepInv
<1>2. CASE AnswerStep
  BY <1>2, GetTermsInv, GetQuoteInv, SubmitSwapInv, SwapAcceptedInv, SwapRefusedInv DEF AnswerStep
<1>3. CASE UNCHANGED wizardVars
  <2>1. UNCHANGED <<step, selected, quoteVars, job, processing, hasty>>
    BY <1>3 DEF wizardVars, formVars, callVars, jobVars
  <2>2. StepTyped' /\ JobsTyped' /\ (step = Processing => Waiting \cup Submitted # {})'
    BY <2>1 DEF WizardInv, StepTyped, JobsTyped, IsJob, OneJob, Waiting, Submitted
  <2> QED
    BY <2>1, <2>2, QuotesSame, JobsFollow
<1> QED
  BY <1>1, <1>2, <1>3 DEF WizardNext

\* Only Loop's acceptance makes a submitted request done.
LEMMA OnlyAcceptedDone ==
    ASSUME WizardInv, WizardNext, NEW j \in Submitted, job'[j].st = "done"
    PROVE  \E i \in Ids : SwapAccepted(i)
<1>1. j \in Ids /\ job[j].st = "sent" /\ job' # job /\ DOMAIN job = Ids
  BY DEF Submitted, WizardInv, JobsTyped
<1>2. ~goToPrevStep
  BY <1>1, EndedJob, JobChange DEF goToPrevStep, abortSwap, WizardInv, Waiting
<1>3. ~UserStep
  BY <1>1, <1>2 DEF UserStep, startSwap, toggleSelectedChannel, setDirection, setAmount,
     RequestQuote, requestSwap, Back, Cancel, Unused, jobVars
<1>4. \A ok \in BOOLEAN : ~getTerms(ok, Max(Amounts))
  BY <1>1, <1>2 DEF getTerms
<1>5. \A q \in Quotes, ok \in BOOLEAN, f \in Fees : ~getQuote(q, ok, f)
  BY <1>1, <1>2 DEF getQuote
<1>6. \A i \in Ids : ~SubmitSwap(i)
  BY <1>1 DEF SubmitSwap
<1>7. ASSUME NEW i \in Ids, SwapRefused(i) PROVE FALSE
  BY <1>1, <1>7, EndedJob DEF SwapRefused
<1> QED
  BY <1>3, <1>4, <1>5, <1>6, <1>7 DEF WizardNext, AnswerStep

\* The invariant holds in every state of the wizard.
LEMMA WizardInvariant == WizardSpec => []WizardInv
BY WizardInitInv, WizardStepInv, PTL DEF WizardSpec

\* For all channels, amounts, fees and numbers of swaps and quotes: the
\* Processing step always has a timer or a call that ends it, and while a timer
\* runs the wizard shows the step that aborts it, unless the user left an
\* unanswered swap behind (requestSwap, abortSwap, goToPrevStep).
THEOREM StepTheorem == WizardSpec => []StepFollowsSwap
<1>1. WizardInv => StepFollowsSwap
  BY DEF WizardInv, OneJob, StepFollowsSwap
<1> QED
  BY <1>1, WizardInvariant, PTL

\* For all of them: a submitted swap has the confirmed amount and direction and
\* at most the confirmed fee, and exactly the confirmed fee and channels unless
\* the user left an unanswered swap behind (the callback of requestSwap).
THEOREM ConfirmedTheorem == WizardSpec => []SwapAsConfirmed
<1>1. WizardInv => SwapAsConfirmed
  BY DEF WizardInv, SentOk, SwapAsConfirmed
<1> QED
  BY <1>1, WizardInvariant, PTL

\* For all of them: when Loop accepts a swap, the channels marked as swapped are
\* the ones it was submitted with, unless the user left an unanswered swap
\* behind (addSwappedChannels before cancel).
THEOREM MarkedTheorem == WizardSpec => ChannelsMarked
<1>1. ASSUME WizardInv, WizardNext, NEW j \in Submitted, job'[j].st = "done", ~hasty
      PROVE  marked' = job[j].order.chans
  <2>1. PICK i \in Ids : SwapAccepted(i)
    BY <1>1, OnlyAcceptedDone
  <2>2. i = j
    BY <1>1, <2>1, JobChange, EndedJob, SMTT(20), Z3T(20) DEF SwapAccepted, WizardInv, Submitted
  <2> QED
    BY <1>1, <2>1 DEF SwapAccepted, WizardInv, SentOk
<1>2. WizardInv /\ [WizardNext]_wizardVars
        => [\A j \in Submitted : job'[j].st = "done" /\ ~hasty => marked' = job[j].order.chans]_wizardVars
  BY <1>1
<1> QED
  BY <1>2, WizardInvariant, PTL DEF WizardSpec, ChannelsMarked
=============================================================================
