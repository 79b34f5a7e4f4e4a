------------------------------- MODULE NovaOS -------------------------------
(***************************************************************************)
(* The form that opens an order (/app/os/nova): a vehicle found by its     *)
(* plate, picked among the client's or registered on the spot, and the     *)
(* client, taken from the address, from the vehicle's owner or from a      *)
(* search.  Searches and registrations are answered in any order; after    *)
(* every change the effects of the page run.                               *)
(***************************************************************************)
EXTENDS Naturals, FiniteSets

CONSTANTS
    Placas, Clientes,
    SemPlaca, SemCliente,
    Dono,          \* the owner of each plate, or SemCliente
    Cadastradas,   \* the plates the API knows at first
    DoSinesp,      \* the other plates the national register knows
    Parametro,     \* the client in the address (?cliente_id=), or SemCliente
    DoCliente,     \* the active vehicles of that client
    PlacaParam,    \* the plate in the address (?placa=), or SemPlaca
    MaxPedidos     \* bound: searches, registrations and orders sent

VARIABLES
    form,      \* the local state of the page
    lidas,     \* queries answered: "cliente", "veiculos", and the plates whose owner is
    voo,       \* requests in flight: mutations numbered from 1, queries under 0
    enviados,  \* mutations sent
    frota,     \* the plates the API knows
    abertas    \* orders opened: [placa, cliente]

vars == <<form, lidas, voo, enviados, frota, abertas>>

Pedido(n, op, pl, c) == [n |-> n, op |-> op, placa |-> pl, cliente |-> c]

Consulta(op, pl) == Pedido(0, op, pl, SemCliente)

\* The page as it is mounted: the queries of the client in the address are sent, and
\* the search of the plate in it.
Init ==
    /\ form = [busca |-> PlacaParam, ultima |-> 1, veiculo |-> SemPlaca, naoEncontrado |-> FALSE,
               criando |-> FALSE, picker |-> FALSE, cliente |-> SemCliente, auto |-> FALSE]
    /\ voo = {Consulta("cliente", SemPlaca) : x \in {Parametro} \ {SemCliente}}
             \cup {Consulta("veiculos", SemPlaca) :
                      x \in IF PlacaParam = SemPlaca THEN {Parametro} \ {SemCliente} ELSE {}}
             \cup {Pedido(1, "buscar", pl, SemCliente) : pl \in {PlacaParam} \ {SemPlaca}}
    /\ enviados = Cardinality({PlacaParam} \ {SemPlaca})
    /\ lidas = {}
    /\ frota = Cadastradas
    /\ abertas = {}

-----------------------------------------------------------------------------
(***************************************************************************)
(* What follows every change.                                              *)
(***************************************************************************)

\* The owner of the vehicle on the screen, and the client in the address, once read.
ClienteAtual(f, L) == IF f.veiculo \in L THEN Dono[f.veiculo] ELSE SemCliente

ClienteParam(L) == IF "cliente" \in L THEN Parametro ELSE SemCliente

\* Without a client the two effects select one: that of the address, then, over it,
\* the owner of the vehicle.
Efeitos(f, L) ==
    IF f.cliente # SemCliente THEN f
    ELSE IF ClienteAtual(f, L) # SemCliente
         THEN [f EXCEPT !.cliente = ClienteAtual(f, L), !.auto = TRUE]
    ELSE [f EXCEPT !.cliente = ClienteParam(L)]

\* The page is drawn with the state f and the answers L: the owner of a vehicle shown
\* without a client is asked for, and the effects run.
Desenhar(f, L, pedidos) ==
    /\ form' = Efeitos(f, L)
    /\ lidas' = L
    /\ voo' = IF f.veiculo # SemPlaca /\ f.cliente = SemCliente /\ f.veiculo \notin L
              THEN pedidos \cup {Consulta("dono", f.veiculo)} ELSE pedidos

Pendente(op) == \E p \in voo : p.op = op

Enviar(op, f) ==
    /\ enviados < MaxPedidos
    /\ enviados' = enviados + 1
    /\ Desenhar(f, lidas, voo \cup {Pedido(enviados + 1, op, f.busca,
                                           IF op = "abrir" THEN f.cliente ELSE SemCliente)})
    /\ UNCHANGED <<frota, abertas>>

Mostrar(f) == Desenhar(f, lidas, voo) /\ UNCHANGED <<enviados, frota, abertas>>

\* buscarVeiculo: the vehicle goes at once, and the client with it unless the search
\* comes from the client's own vehicles.
Buscando(pl, f, preserva) ==
    [f EXCEPT !.busca = pl, !.ultima = enviados + 1, !.veiculo = SemPlaca, !.naoEncontrado = FALSE,
              !.cliente = IF preserva THEN @ ELSE SemCliente, !.auto = preserva /\ @]

-----------------------------------------------------------------------------
(***************************************************************************)
(* The vehicle: one of three sections is shown.                            *)
(***************************************************************************)
PickerVisivel == form.picker /\ form.veiculo = SemPlaca

BuscaVisivel == ~form.picker /\ form.veiculo = SemPlaca

BuscarPlaca(pl) ==
    /\ BuscaVisivel
    /\ \A p \in voo : p.n # form.ultima
    /\ Enviar("buscar", Buscando(pl, form, FALSE))

EscolherVeiculo(pl) ==
    /\ PickerVisivel /\ pl \in DoCliente
    /\ Enviar("buscar", Buscando(pl, [form EXCEPT !.picker = FALSE], TRUE))

BuscarOutra == PickerVisivel /\ Mostrar([form EXCEPT !.picker = FALSE])

VeiculosAtivos == IF "veiculos" \in lidas THEN DoCliente ELSE {}

\* "Trocar" keeps the client when there are vehicles of his to pick from.
TrocarVeiculo ==
    /\ form.veiculo # SemPlaca
    /\ LET f == [form EXCEPT !.veiculo = SemPlaca, !.naoEncontrado = FALSE, !.criando = FALSE]
       IN  Mostrar(IF Cardinality(VeiculosAtivos) > 1 THEN [f EXCEPT !.picker = TRUE]
                   ELSE [f EXCEPT !.cliente = SemCliente, !.auto = FALSE])

\* A plate that was not found is registered with the data typed, or with those of the
\* national register.
Cadastrar ==
    /\ BuscaVisivel /\ form.naoEncontrado /\ ~form.criando
    /\ Mostrar([form EXCEPT !.criando = TRUE])

CancelarCadastro ==
    /\ BuscaVisivel /\ form.criando
    /\ Mostrar([form EXCEPT !.criando = FALSE])

SalvarVeiculo ==
    /\ BuscaVisivel /\ form.criando /\ ~Pendente("criar")
    /\ Enviar("criar", form)

-----------------------------------------------------------------------------
(***************************************************************************)
(* The client and the order.                                               *)
(***************************************************************************)
TrocarCliente ==
    /\ form.cliente # SemCliente
    /\ Mostrar([form EXCEPT !.cliente = SemCliente, !.auto = FALSE])

\* The search of clients is hidden while the owner is being read.
EscolherCliente(c) ==
    /\ form.cliente = SemCliente
    /\ Consulta("dono", form.veiculo) \notin voo
    /\ Mostrar([form EXCEPT !.cliente = c])

AbrirOS ==
    /\ form.cliente # SemCliente /\ form.veiculo # SemPlaca /\ ~Pendente("abrir")
    /\ enviados < MaxPedidos
    /\ enviados' = enviados + 1
    /\ voo' = voo \cup {Pedido(enviados + 1, "abrir", form.veiculo, form.cliente)}
    /\ UNCHANGED <<form, lidas, frota, abertas>>

-----------------------------------------------------------------------------
(***************************************************************************)
(* The answers.                                                            *)
(***************************************************************************)
Chegou(p, f) == Desenhar(f, lidas, voo \ {p}) /\ UNCHANGED <<enviados, abertas>>

VeiculoConsultado(p) ==
    /\ p.op = "buscar"
    /\ Chegou(p, IF p.placa \in frota THEN [form EXCEPT !.veiculo = p.placa]
                 ELSE [form EXCEPT !.naoEncontrado = TRUE, !.criando = @ \/ p.placa \in DoSinesp])
    /\ UNCHANGED frota

VeiculoCriado(p) ==
    /\ p.op = "criar"
    /\ frota' = frota \cup {p.placa}
    /\ Chegou(p, [form EXCEPT !.veiculo = p.placa, !.naoEncontrado = FALSE, !.criando = FALSE])

\* The page of the new order takes the place of this one.
OSAberta(p) ==
    /\ p.op = "abrir"
    /\ abertas' = abertas \cup {[placa |-> p.placa, cliente |-> p.cliente]}
    /\ voo' = voo \ {p}
    /\ UNCHANGED <<form, lidas, enviados, frota>>

Respondida(p, chave) ==
    Desenhar(form, lidas \cup {chave}, voo \ {p}) /\ UNCHANGED <<enviados, frota, abertas>>

DonoLido(p) == p.op = "dono" /\ Respondida(p, p.placa)

ClienteLido(p) == p.op = "cliente" /\ Respondida(p, "cliente")

\* The only vehicle of the client in the address is searched for; several are offered.
VeiculosLidos(p) ==
    /\ p.op = "veiculos"
    /\ IF form.veiculo # SemPlaca \/ DoCliente = {} THEN Respondida(p, "veiculos")
       ELSE IF Cardinality(DoCliente) > 1
       THEN /\ Desenhar([form EXCEPT !.picker = TRUE], lidas \cup {"veiculos"}, voo \ {p})
            /\ UNCHANGED <<enviados, frota, abertas>>
       ELSE /\ enviados < MaxPedidos /\ enviados' = enviados + 1
            /\ LET pl == CHOOSE v \in DoCliente : TRUE
               IN  Desenhar(Buscando(pl, form, TRUE), lidas \cup {"veiculos"},
                            (voo \ {p}) \cup {Pedido(enviados + 1, "buscar", pl, SemCliente)})
            /\ UNCHANGED <<frota, abertas>>

\* Refused, or lost: a message at most.
Falhou(p) ==
    /\ voo' = voo \ {p}
    /\ UNCHANGED <<form, lidas, enviados, frota, abertas>>

Next ==
    /\ abertas = {}
    /\ \/ \E pl \in Placas : BuscarPlaca(pl) \/ EscolherVeiculo(pl)
       \/ BuscarOutra \/ TrocarVeiculo \/ Cadastrar \/ CancelarCadastro \/ SalvarVeiculo
       \/ TrocarCliente \/ AbrirOS
       \/ \E c \in Clientes : EscolherCliente(c)
       \/ \E p \in voo : \/ VeiculoConsultado(p) \/ VeiculoCriado(p) \/ OSAberta(p)
                         \/ DonoLido(p) \/ ClienteLido(p) \/ VeiculosLidos(p) \/ Falhou(p)

Spec == Init /\ [][Next]_vars

-----------------------------------------------------------------------------
\* "pré-seleção automática de cliente (dono do veículo)" (REQUIREMENTS.md, the screen
\* /app/os/nova): a client the page marks as "(dono do veículo)" owns the vehicle it
\* shows, whichever of the searches and registrations under way was answered last.
DonoSelecionado ==
    form.auto /\ form.veiculo # SemPlaca => form.cliente = Dono[form.veiculo]
=============================================================================
