---------------------------- MODULE MCUsaaFetch ----------------------------
EXTENDS UsaaFetch, TLC

CONSTANTS a1, a2, b1, \* two documents of one policy and one of another
          n,          \* a document of no policy
          A, B,
          p, q

MCPolicyOf == (a1 :> A) @@ (a2 :> A) @@ (b1 :> B) @@ (n :> None)
MCDateOf == (a1 :> 1) @@ (a2 :> 2) @@ (b1 :> 1) @@ (n :> 0)
MCKindOf == (a1 :> "initial") @@ (a2 :> "renewal") @@ (b1 :> "renewal")
            @@ (n :> "none")
\* the renewals of the two policies are one document
MCBodyOf == (a1 :> p) @@ (a2 :> q) @@ (b1 :> q) @@ (n :> n)
MCIndexOf == (a1 :> 0) @@ (a2 :> 1) @@ (b1 :> 2) @@ (n :> 3)

MCListings ==
  [path \in Targeted |-> {{n}, {a1, a2, b1}}] @@
  ("surface" :> {{n}, {b1}} @@ "summary" :> {{a2, b1}} @@ "named" :> {{n}})

E(k, g) == [kind |-> k, good |-> g]

\* a refusal before the document, two ways at once, one way; any of it may
\* never come
MCReactions ==
  { {E("response", FALSE), E("response", TRUE)},
    {E("download", TRUE), E("popup", TRUE)}, {E("viewer", TRUE)} }
=============================================================================
