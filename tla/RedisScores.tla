---------------------------- MODULE RedisScores ----------------------------
(***************************************************************************)
(* UpdateScores and DeleteScores of storage/cache/redis.go, command by     *)
(* command, while other clients write and delete documents: the search of  *)
(* a page, EXISTS and HSET of each document under WATCH (HSET is not sent  *)
(* in a transaction, so WATCH holds nothing off), or DEL of each document, *)
(* and the test whether there is another page.  A document is a function   *)
(* of fields; one that HSET has brought back has only those of the patch.  *)
(*                                                                         *)
(* Definitions marked "Bug:" are not part of the model; each breaks a      *)
(* property when it replaces the one after it.                             *)
(***************************************************************************)
EXTENDS StoreRows

CONSTANTS
  PageSize,     \* 10000
  DocumentKeys,      \* keys [collection, subset, id] of the other clients' documents
  NewRows,      \* rows they write
  Queries,      \* [collections, subset, id, before] the server takes
  RedisPatch,   \* the row of fields an update sets
  MaxCommands   \* bound: commands of the other clients

ASSUME RedisAssumption == PageSize \in Nat \ {0} /\ MaxCommands \in Nat

VARIABLES
  documents,    \* the hashes
  op,           \* the operation in progress
  commands      \* counter for the bound

redisVars == <<documents, op, commands>>

Idle == [kind |-> "none"]

Hits(query) ==
  {k \in DOMAIN documents :
     /\ "timestamp" \in DOMAIN documents[k]
     /\ k.collection \in query.collections
     /\ query.subset = Nil \/ k.subset = query.subset
     /\ query.id = Nil \/ k.id = query.id
     /\ query.before = Nil \/ documents[k].timestamp < query.before}

\* since holds the documents that have matched from the beginning and that
\* nobody else has touched.
Begin ==
  /\ op = Idle
  /\ \E kind \in {"update", "delete"}, query \in Queries :
       /\ kind = "update" => query.id # Nil /\ query.before = Nil
       /\ op' = [kind |-> kind, query |-> query, at |-> "search", todo |-> {}, key |-> Nil,
                 total |-> 0, size |-> 0, since |-> Hits(query)]
  /\ UNCHANGED <<documents, commands>>

\* The documents of a page have the highest scores; their number and the
\* number found are answered.
Search ==
  /\ op # Idle /\ op.at = "search"
  /\ \E page \in SUBSET Hits(op.query) :
       /\ Cardinality(page) = IF Cardinality(Hits(op.query)) <= PageSize
                                THEN Cardinality(Hits(op.query)) ELSE PageSize
       /\ \A k \in page, h \in Hits(op.query) \ page : documents[k].score >= documents[h].score
       /\ op' = [op EXCEPT !.at = "page", !.todo = page, !.size = Cardinality(page),
                           !.total = Cardinality(Hits(op.query))]
  /\ UNCHANGED <<documents, commands>>

Exists ==
  /\ op # Idle /\ op.kind = "update" /\ op.at = "page"
  /\ \E k \in op.todo :
       op' = IF k \in DOMAIN documents
               THEN [op EXCEPT !.at = "write", !.key = k]
               ELSE [op EXCEPT !.todo = @ \ {k}]
  /\ UNCHANGED <<documents, commands>>

HSet ==
  /\ op # Idle /\ op.at = "write"
  /\ documents' = Over([k \in {op.key} |->
                    Over(RedisPatch, IF k \in DOMAIN documents THEN documents[k] ELSE EmptyTable)],
                  documents)
  /\ op' = [op EXCEPT !.at = "page", !.todo = @ \ {op.key}, !.key = Nil]
  /\ UNCHANGED commands

Del ==
  /\ op # Idle /\ op.kind = "delete" /\ op.at = "page"
  /\ \E k \in op.todo :
       /\ documents' = Without(documents, {k})
       /\ op' = [op EXCEPT !.todo = @ \ {k}, !.since = @ \ {k}]
  /\ UNCHANGED commands

\* "break if no more documents"
LastPage == op.total = op.size

NextPage ==
  /\ op # Idle /\ op.at = "page" /\ op.todo = {}
  /\ op' = [op EXCEPT !.at = IF LastPage THEN "done" ELSE "search"]
  /\ UNCHANGED <<documents, commands>>

Return ==
  /\ op # Idle /\ op.at = "done"
  /\ op' = Idle
  /\ UNCHANGED <<documents, commands>>

Forgotten(k) == IF op = Idle THEN op ELSE [op EXCEPT !.since = @ \ {k}]

\* Other clients: AddScores of one document, DEL of one.
OtherAdds ==
  /\ commands < MaxCommands /\ commands' = commands + 1
  /\ \E k \in DocumentKeys, row \in NewRows :
       /\ documents' = Over([h \in {k} |-> row], documents)
       /\ op' = Forgotten(k)

OtherDeletes ==
  /\ commands < MaxCommands /\ commands' = commands + 1
  /\ \E k \in DOMAIN documents :
       /\ documents' = Without(documents, {k})
       /\ op' = Forgotten(k)

RedisInit == documents = EmptyTable /\ op = Idle /\ commands = 0

RedisStep == Search \/ Exists \/ HSet \/ Del \/ NextPage \/ Return
RedisNext == Begin \/ RedisStep \/ OtherAdds \/ OtherDeletes

\* The loop of an operation goes on as long as the server answers.
RedisSpec == RedisInit /\ [][RedisNext]_redisVars /\ WF_redisVars(RedisStep)

----------------------------------------------------------------------------
(***************************************************************************)
(* Properties.                                                             *)
(***************************************************************************)

\* When UpdateScores or DeleteScores returns, it has reached every document
\* that matched when it began and that nobody else has touched, on however
\* many pages (redis.go: the loops over FTSearchWithArgs).
PagesReachAll ==
  op # Idle /\ op.at = "done" =>
    IF op.kind = "delete" THEN op.since = {}
    ELSE \A k \in op.since : documents[k] = Over(RedisPatch, documents[k])

\* A deletion ends once the other clients pause.
DeletesEnd == (op # Idle /\ op.kind = "delete") ~> op = Idle
=============================================================================
