------------------------------ MODULE Paywall -------------------------------
(***************************************************************************)
(* The L402 paywall (paywall-web) for one skill: the admin route publishes *)
(* immutable versions of it to a blob store, to Postgres and to Edge       *)
(* Config; the content route sells a version for a Lightning invoice and   *)
(* serves it to who shows the invoice's preimage and the macaroon minted   *)
(* with it. Handlers run concurrently and nothing but the stores is        *)
(* shared. An action is one call of a handler to a store or to lnd; any of *)
(* them may fail or be cut off, which ends the handler with an error; the  *)
(* call has then taken effect, or never will.                              *)
(***************************************************************************)
EXTENDS Naturals

CONSTANTS
    Shas,        \* versions, by contentSha256
    Prices,      \* priceSats, all within the configured range
    Pubs,        \* publish handlers that run at once
    Requests,    \* content handlers that run at once
    Invoices,    \* bound: invoices, by payment hash
    MaxPublishes, \* bound: transactions begun
    HasEdge,     \* EDGE_CONFIG is set: it is read
    SyncsEdge    \* the token and ID for writing it are set

VARIABLES
    blob,       \* uploaded contents
    rows,       \* skill_versions; created 0: there is no such row
    edge,       \* the item of Edge Config
    pub,        \* progress of each publication
    begun,      \* transactions begun, Postgres' now()
    req,        \* progress of each content request
    invoice,    \* lnd's invoices and the macaroon minted for each
    challenges, receipts, \* l402_challenges, l402_receipts: the version, by payment hash
    served,     \* history: which version was served for which payment
    announced   \* history: the skill last published without overlap and with success

stores == <<blob, rows, edge>>
sale == <<invoice, challenges, receipts, served>>
vars == <<stores, pub, begun, req, sale, announced>>

NoSha == "none"
NoSkill == [sha |-> NoSha, price |-> 0]
Skill(v) == [sha |-> v, price |-> rows[v].price]
IdlePub == [st |-> "idle", skill |-> NoSkill, seen |-> {}, at |-> 0, alone |-> TRUE]
IdleReq == [st |-> "idle", sha |-> NoSha, token |-> 0, price |-> 0]

Init ==
    /\ blob = {} /\ rows = [v \in Shas |-> [price |-> 0, active |-> FALSE, created |-> 0]]
    /\ edge = NoSkill
    /\ pub = [p \in Pubs |-> IdlePub] /\ begun = 0
    /\ req = [r \in Requests |-> IdleReq]
    /\ invoice = [h \in Invoices |-> [st |-> "unused", sha |-> NoSha]]
    /\ challenges = [h \in Invoices |-> NoSha] /\ receipts = [h \in Invoices |-> NoSha]
    /\ served = {} /\ announced = NoSkill
-----------------------------------------------------------------------------
(* The catalog *)

Published == {v \in Shas : rows[v].created # 0}
Active == {v \in Published : rows[v].active}

\* getCurrentSkillVersion: what a manifest may say. Reading Edge Config may fail.
getCurrentSkillVersion ==
    LET newest == {v \in Active : \A w \in Active : rows[w].created <= rows[v].created}
    IN {Skill(v) : v \in newest} \cup {e \in {edge} : HasEdge /\ e # NoSkill}

\* getSkillVersion: Edge Config, if it holds this version, or the row.
getSkillVersion(v) ==
    {Skill(w) : w \in Published \cap {v}}
        \cup {e \in {edge} : HasEdge /\ e # NoSkill /\ e.sha = v}
-----------------------------------------------------------------------------
(* publish-skill *)

\* The upload comes after the version is in the catalog.
uploadSkillContent_late(p, v, price) ==
    /\ pub[p].st = "idle" /\ begun < MaxPublishes
    /\ blob' = blob \cup Published
    /\ pub' = [pub EXCEPT ![p] = [IdlePub EXCEPT !.st = "uploaded", !.skill = [sha |-> v, price |-> price]]]
    /\ UNCHANGED <<rows, edge, begun, req, sale, announced>>

\* POST, from a valid payload to the end of the upload. A store may refuse a
\* path it has already (put without allowOverwrite): that fails, as any call may.
uploadSkillContent(p, v, price) ==
    /\ pub[p].st = "idle" /\ begun < MaxPublishes
    /\ blob' = blob \cup {v}
    /\ pub' = [pub EXCEPT ![p] = [IdlePub EXCEPT !.st = "uploaded", !.skill = [sha |-> v, price |-> price]]]
    /\ UNCHANGED <<rows, edge, begun, req, sale, announced>>

InTransaction(p) == pub[p].st \in {"updating", "updated"}
Writing(p) == InTransaction(p) \/ pub[p].st = "committed"

\* The transaction's first statement takes its snapshot. A publication that
\* overlaps another one is alone no longer, nor is the other one.
BeginUpdate(p) ==
    /\ pub[p].st = "uploaded" /\ begun < MaxPublishes
    /\ begun' = begun + 1
    /\ LET others == {q \in Pubs \ {p} : Writing(q)}
       IN pub' = [q \in Pubs |->
                     IF q = p THEN [pub[p] EXCEPT !.st = "updating", !.at = begun + 1, !.alone = others = {},
                                                  !.seen = Published \ {pub[p].skill.sha}]
                     ELSE IF q \in others THEN [pub[q] EXCEPT !.alone = FALSE] ELSE pub[q]]
    /\ UNCHANGED <<stores, req, sale, announced>>

\* It waits for rows that another transaction has locked.
LockRows(p) ==
    /\ pub[p].st = "updating"
    /\ \A q \in Pubs \ {p} : pub[q].st = "updated" => pub[q].seen \cap pub[p].seen = {}
    /\ pub' = [pub EXCEPT ![p].st = "updated"]
    /\ UNCHANGED <<stores, begun, req, sale, announced>>

\* The rows after the transaction of p: the others it has seen are inactive; its
\* own keeps the time it was first inserted.
upsertSkillVersion(p) ==
    [v \in Shas |->
        IF v = pub[p].skill.sha
        THEN [price |-> pub[p].skill.price, active |-> TRUE,
              created |-> IF rows[v].created = 0 THEN pub[p].at ELSE rows[v].created]
        ELSE IF v \in pub[p].seen THEN [rows[v] EXCEPT !.active = FALSE] ELSE rows[v]]

\* The row is inserted, or updated once no other transaction has it locked; commit.
Commit(p) ==
    /\ pub[p].st = "updated"
    /\ \A q \in Pubs \ {p} : pub[q].st = "updated" => pub[p].skill.sha \notin pub[q].seen
    /\ rows' = upsertSkillVersion(p)
    /\ pub' = [pub EXCEPT ![p].st = "committed"]
    /\ announced' = NoSkill
    /\ UNCHANGED <<blob, edge, begun, req, sale>>

\* A record that Edge Config has already is not replaced.
syncSkillToEdgeConfig_insert(p) ==
    /\ pub[p].st = "committed"
    /\ edge' = IF SyncsEdge /\ edge = NoSkill THEN pub[p].skill ELSE edge
    /\ announced' = IF pub[p].alone THEN pub[p].skill ELSE announced
    /\ pub' = [pub EXCEPT ![p] = IdlePub]
    /\ UNCHANGED <<blob, rows, begun, req, sale>>

\* Edge Config gets the record, and the handler answers.
syncSkillToEdgeConfig(p) ==
    /\ pub[p].st = "committed"
    /\ edge' = IF SyncsEdge THEN pub[p].skill ELSE edge
    /\ announced' = IF pub[p].alone THEN pub[p].skill ELSE announced
    /\ pub' = [pub EXCEPT ![p] = IdlePub]
    /\ UNCHANGED <<blob, rows, begun, req, sale>>

\* A call fails, a deadlock of two transactions is resolved, or the handler is
\* cut off: rollback, and an error for an answer.
PublishFails(p) ==
    /\ pub[p].st # "idle"
    /\ \/ UNCHANGED edge
       \/ pub[p].st = "committed" /\ SyncsEdge /\ edge' = pub[p].skill
    /\ pub' = [pub EXCEPT ![p] = IdlePub]
    /\ UNCHANGED <<blob, rows, begun, req, sale, announced>>
-----------------------------------------------------------------------------
(* The content route *)

\* Tokens a client can show: none (0), or the macaroon of a challenge answered.
Tokens == {0} \cup {h \in Invoices : invoice[h].st \in {"given", "paid"}}

\* A request for version v; without authorization it gets a challenge.
RequestContent(r, v, t) ==
    /\ req[r].st = "idle"
    /\ getSkillVersion(v) # {}
    /\ req' = [req EXCEPT ![r] = [st |-> IF t = 0 THEN "challenge" ELSE "verify",
                                  sha |-> v, token |-> t, price |-> 0]]
    /\ UNCHANGED <<stores, pub, begun, sale, announced>>

\* The caveats are not compared with the version asked for.
Verified_anyVersion(v, t) == invoice[t].st = "paid"

\* The macaroon's caveats name this version and the preimage is its hash's.
Verified(v, t) == invoice[t].sha = v /\ invoice[t].st = "paid"

\* verifyL402Authorization, which records the receipt; if either fails a new
\* challenge is issued.
verifyL402Authorization(r) ==
    /\ req[r].st = "verify"
    /\ \/ /\ Verified(req[r].sha, req[r].token)
          /\ receipts' = [receipts EXCEPT ![req[r].token] = req[r].sha]
          /\ \/ req' = [req EXCEPT ![r].st = "deliver"]
             \/ req' = [req EXCEPT ![r].st = "challenge", ![r].token = 0]
       \/ /\ req' = [req EXCEPT ![r].st = "challenge", ![r].token = 0]
          /\ UNCHANGED receipts
    /\ UNCHANGED <<stores, pub, begun, invoice, challenges, served, announced>>

\* getSkillContentBlob; without the blob the answer is 404.
paidContentResponse(r) ==
    /\ req[r].st = "deliver" /\ req[r].sha \in blob
    /\ served' = served \cup {<<req[r].token, req[r].sha>>}
    /\ req' = [req EXCEPT ![r] = IdleReq]
    /\ UNCHANGED <<stores, pub, begun, invoice, challenges, receipts, announced>>

\* issueChallenge looks the version up again, for its price ...
issueChallenge(r) ==
    /\ req[r].st = "challenge"
    /\ \E skill \in getSkillVersion(req[r].sha) :
          req' = [req EXCEPT ![r].st = "invoice", ![r].price = skill.price]
    /\ UNCHANGED <<stores, pub, begun, sale, announced>>

\* ... has lnd make an invoice and mints a macaroon with its payment hash ...
createInvoice(r, h) ==
    /\ req[r].st = "invoice"
    /\ invoice[h].st = "unused"
    /\ invoice' = [invoice EXCEPT ![h] = [st |-> "made", sha |-> req[r].sha]]
    /\ req' = [req EXCEPT ![r].st = "record", ![r].token = h]
    /\ UNCHANGED <<stores, pub, begun, challenges, receipts, served, announced>>

\* ... records the challenge, and answers with it.
recordChallenge(r) ==
    /\ req[r].st = "record"
    /\ challenges' = [challenges EXCEPT ![req[r].token] = req[r].sha]
    /\ invoice' = [invoice EXCEPT ![req[r].token].st = "given"]
    /\ req' = [req EXCEPT ![r] = IdleReq]
    /\ UNCHANGED <<stores, pub, begun, receipts, served, announced>>

RequestFails(r) ==
    /\ req[r].st # "idle"
    /\ \/ UNCHANGED challenges
       \/ req[r].st = "record" /\ challenges' = [challenges EXCEPT ![req[r].token] = req[r].sha]
    /\ req' = [req EXCEPT ![r] = IdleReq]
    /\ UNCHANGED <<stores, pub, begun, invoice, receipts, served, announced>>

\* External: the client pays the invoice and learns the preimage.
Pay(h) ==
    /\ invoice[h].st = "given"
    /\ invoice' = [invoice EXCEPT ![h].st = "paid"]
    /\ UNCHANGED <<stores, pub, begun, req, challenges, receipts, served, announced>>
-----------------------------------------------------------------------------
Next ==
    \/ \E p \in Pubs :
          \/ \E v \in Shas, price \in Prices : uploadSkillContent(p, v, price)
          \/ BeginUpdate(p) \/ LockRows(p) \/ Commit(p) \/ syncSkillToEdgeConfig(p) \/ PublishFails(p)
    \/ \E r \in Requests :
          \/ \E v \in Shas, t \in Tokens : RequestContent(r, v, t)
          \/ verifyL402Authorization(r) \/ paidContentResponse(r) \/ issueChallenge(r)
          \/ recordChallenge(r) \/ RequestFails(r)
          \/ \E h \in Invoices : createInvoice(r, h)
    \/ \E h \in Invoices : Pay(h)

Spec == Init /\ [][Next]_vars
-----------------------------------------------------------------------------
(* Properties *)

\* The variables stay in the ranges of the code's types.
PaywallTypeOK ==
    /\ blob \subseteq Shas
    /\ rows \in [Shas -> [price : Prices \cup {0}, active : BOOLEAN, created : 0 .. MaxPublishes]]
    /\ {edge, announced} \subseteq [sha : Shas \cup {NoSha}, price : Prices \cup {0}]
    /\ \A p \in Pubs : pub[p].st \in {"idle", "uploaded", "updating", "updated", "committed"}
    /\ \A r \in Requests : req[r].st \in {"idle", "verify", "deliver", "challenge", "invoice", "record"}
    /\ invoice \in [Invoices -> [st : {"unused", "made", "given", "paid"}, sha : Shas \cup {NoSha}]]
    /\ challenges \in [Invoices -> Shas \cup {NoSha}] /\ receipts \in [Invoices -> Shas \cup {NoSha}]

\* What a client can be charged for can be delivered: the version of every
\* invoice has its row and its content, so that a paid token finds both, though
\* publications overlap and fail halfway and later versions replace this one.
SoldIsStored ==
    \A h \in Invoices : invoice[h].st # "unused" => invoice[h].sha \in Published \cap blob

\* Content is served only for a paid invoice of that very version, and each sale
\* is on record: a receipt, of the same version as the challenge before it.
SalesRecorded ==
    /\ \A s \in served : invoice[s[1]] = [st |-> "paid", sha |-> s[2]] /\ receipts[s[1]] = s[2]
    /\ \A h \in Invoices : receipts[h] # NoSha => challenges[h] = receipts[h]

\* After a publication has been answered with success, and until another one
\* commits, the manifest names that version with that price, whether it comes
\* from Edge Config or from Postgres. The exception are publications that
\* overlap: both may stay active, and Edge Config may keep the earlier one.
ManifestCurrent ==
    announced # NoSkill => getCurrentSkillVersion = {announced}
=============================================================================
