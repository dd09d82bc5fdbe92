-------------------------- MODULE MCTerraformApply --------------------------
(* Every kind of resource of the provider, two blocks of one kind.  Kinds  *)
(* whose programs are the same stand for each other.                       *)
EXTENDS TerraformApply, PR60XResources, MS510Resources, XS508Resources, WAX630EResources

CONSTANTS one, two, stranger

Two == {one, two}

Resource(n) ==
    IF n \in DOMAIN PR60XKinds THEN PR60XKinds[n]
    ELSE IF n \in DOMAIN MS510Kinds THEN MS510Kinds[n]
    ELSE IF n \in DOMAIN XS508Kinds THEN XS508Kinds[n]
    ELSE WAX630EKinds[n]
Names == UNION {DOMAIN PR60XKinds, DOMAIN MS510Kinds, DOMAIN XS508Kinds, DOMAIN WAX630EKinds}
Different == {CHOOSE n \in Names : Resource(n) = k : k \in {Resource(n) : n \in Names}}
Catalogue == [n \in Different |-> Resource(n)]
AllKinds == Catalogue
=============================================================================
