------------------------------ MODULE MCSession ------------------------------
(* Session with one or two clients, two rates, two depths and any number of  *)
(* reconnects.                                                               *)
EXTENDS Session

CONSTANTS c1, c2, r1, r2, d1, d2

MCClients == {c1, c2}
MCOneClient == {c1}
MCRates   == {r1, r2}
MCDepths  == {d1, d2}
==============================================================================
