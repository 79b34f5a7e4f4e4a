---------------------------- MODULE MCWebPortais ----------------------------
(* Small instances of WebPortais. *)
EXTENDS WebPortais

CONSTANTS u1, u2

Cen(a, t, l, v, m, e, telas, us) ==
    [app |-> a, tentativas |-> t, logins |-> l, vencem |-> v, montagens |-> m, envios |-> e,
     telas |-> telas, unidades |-> us]

\* The portal with two units and two writes; with two accounts; found unavailable
\* while it is used.  The dashboard while a user is registered; with its conversations.
Safra == Cen("portal", 0, 1, {}, 1, 2, {}, {u1, u2})
DuasContas == Cen("portal", 0, 2, {}, 2, 1, {}, {u1})
SemApi == Cen("portal", 1, 1, {}, 2, 1, {"produto"}, {u1})
Cadastro == Cen("painel", 1, 1, {1}, 0, 1, {"usuarios", "novo"}, {})
Conversas == Cen("painel", 0, 2, {1, 2}, 0, 0, {"inicio", "whatsapp"}, {})

CenariosWeb == {Safra, DuasContas, SemApi, Cadastro, Conversas}
=============================================================================
