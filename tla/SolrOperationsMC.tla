-------------------------- MODULE SolrOperationsMC --------------------------
(***************************************************************************)
(* Scripts of two clients that index, search and administrate.             *)
(***************************************************************************)
EXTENDS SolrOperations

CONSTANTS o1, o2, coll

Two == {o1, o2}

Op(type) == [type |-> type, name |-> coll]
Create(upload) == [type |-> "create-collection", name |-> coll, upload |-> upload, cleanup |-> TRUE]
Delete(ignore) == [type |-> "delete-collection", name |-> coll, ignore_missing |-> ignore, cleanup |-> ignore]
Bulk(batches, committing) == [type |-> "bulk-index", name |-> coll, batches |-> batches, commit |-> committing]
Paginate == [type |-> "paginated-search", name |-> coll, rows |-> 2]
CompositeOf(child) == [type |-> "composite", name |-> coll, child |-> child]

Script(first, second) == [c \in Two |-> IF c = o1 THEN first ELSE second]

\* Indexing beside a search, administration beside administration.
AllScripts ==
    {Script(<<>>, <<>>),
     Script(<<Create(TRUE), Bulk(<<2, 1>>, TRUE), Paginate>>, <<Create(TRUE), Bulk(<<1>>, FALSE)>>),
     Script(<<Create(TRUE), Delete(TRUE), Create(FALSE)>>, <<Delete(FALSE), Create(TRUE)>>),
     Script(<<Create(TRUE), Op("body-search"), Op("raw-request")>>,
            <<Bulk(<<1>>, TRUE), Op("wait-for-merges"), Op("optimize"), Op("commit")>>),
     Script(<<Create(TRUE), CompositeOf("search")>>, <<Op("wait-for-merges")>>)}
=============================================================================
