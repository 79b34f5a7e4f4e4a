------------------------------- MODULE Vitrine -------------------------------
(***************************************************************************)
(* What the producers of Di Mata promise to the reader of a QR code: the   *)
(* page of a lot, once shown, stays up and never changes, and it is the    *)
(* page of a cycle whose protocol was complete (docs/dimata-requisitos.md, *)
(* RF-06 and RN-01).                                                       *)
(***************************************************************************)
CONSTANTS Protocolos, Obrigatorias

VARIABLE paginas  \* the pages shown: [lot -> page]

\* Every step the protocol requires was registered, shown on the page or not.
Completa(pg) == pg.protocolo \in Protocolos => Obrigatorias[pg.protocolo] \subseteq pg.etapas

Permanecem == \A l \in DOMAIN paginas : l \in DOMAIN paginas' /\ paginas'[l] = paginas[l]

Mostrar ==
    /\ Permanecem
    /\ \A l \in DOMAIN paginas' \ DOMAIN paginas : Completa(paginas'[l])

InitVitrine == DOMAIN paginas = {}

SpecVitrine == InitVitrine /\ [][Mostrar]_paginas
=============================================================================
