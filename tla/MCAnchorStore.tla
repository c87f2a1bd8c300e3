--------------------------- MODULE MCAnchorStore ---------------------------
(* Two processes import the same anchor, one of them with a second anchor  *)
(* that another file knows as a retired one; the first is retired.         *)
EXTENDS AnchorStore

CONSTANTS i1, i2, i3, r1, a, b, x, y

MCImports ==
  [p \in Importer |->
     CASE p = i1 -> [id \in {a} |-> Signed(x, TRUE)]
       [] p = i2 -> [id \in {a, b} |-> Signed(x, TRUE)]
       [] p = i3 -> [id \in {b} |-> Signed(y, FALSE)]]

MCRetires == [p \in Retirer |-> a]
=============================================================================
