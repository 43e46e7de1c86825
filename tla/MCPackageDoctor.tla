---------------------------- MODULE MCPackageDoctor ---------------------------
(***************************************************************************)
(* PackageDoctor with one backend symbol, one patch, three versions and    *)
(* upgrade scripts to the default version v1 that chain, end elsewhere, go *)
(* round, or go round with a way out.                                      *)
(***************************************************************************)
EXTENDS PackageDoctor

CONSTANTS v1, v2, v3

MCVersions == {v1, v2, v3}
MCGraphs ==
  [base : {{}, {v2}, {v3}},
   edges : {{<<v3, v2>>, <<v2, v1>>}, {<<v2, v3>>, <<v3, v2>>},
            {<<v2, v3>>, <<v3, v2>>, <<v3, v1>>}}]
===============================================================================
