------------------------------- MODULE MCPages -------------------------------
EXTENDS Pages, TLC

(* Everyone, the members, one group or one reader: a setting with both, or *)
(* with neither left, still comes from opening, closing and deleting.      *)
MCPosted ==
  {FromForm(m, {}, {}) : m \in {"everyone", "members"}}
    \cup {FromForm("groups", {g}, {}) : g \in Groups}
    \cup {FromForm("groups", {}, {u}) : u \in Users}

Interchangeable == Permutations(Services)
=============================================================================
