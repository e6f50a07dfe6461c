-------------------------- MODULE MCCategoryManager --------------------------
(* Instances of CategoryManager: who calls what.                            *)
EXTENDS CategoryManager

CONSTANTS t1, t2

(* A thread adds and deletes, one enumerates, the third adds and looks up.  *)
Clients == [t \in Thread |->
  CASE t = t1 -> Writer
    [] t = t2 -> {"EnumerateCategory", "EnumerateCategories"}
    [] OTHER  -> {"AddCategoryEntry", "GetCategoryEntry"}]

(* One enumerates and looks entries up, the other one changes them.         *)
Readers == [t \in Thread |->
  IF t = t1 THEN {"EnumerateCategory", "GetCategoryEntry"}
            ELSE {"AddCategoryEntry", "DeleteCategoryEntry"}]

(* One adds, the other one deletes categories.                              *)
Deleters == [t \in Thread |->
  IF t = t1 THEN {"AddCategoryEntry"} ELSE {"AddCategoryEntry", "DeleteCategory"}]
=============================================================================
