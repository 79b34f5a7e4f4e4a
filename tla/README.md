# Di Mata / DiAuto: TLA+ models, checks and proofs

This directory is a verification project of the repository: TLA+ modules
translated from the code, TLC configurations that check them on small instances,
and theorems that TLAPS proves for every value of the constants. Paths below are
relative to the root of the repository; `oficinas` stands for
`apps/oficinas/src/oficinas`, `producao` for `apps/producao/src/producao`, and
`web/oficinas`, `web/portal`, `web/dashboard` for the sources of the three React
applications under `web/apps/`.

- [1. The system](#1-the-system)
- [2. Plan](#2-plan)
- [3. Modules and code](#3-modules-and-code)
- [4. Runs](#4-runs)
- [5. Proofs](#5-proofs)
- [6. Abstractions](#6-abstractions)
- [7. Not modelled](#7-not-modelled)

## 1. The system

The repository holds two back ends that share nothing but a few helper packages,
and three browser applications on top of them.

**apps/oficinas** is the ERP of a car workshop: FastAPI handlers on one asyncio
event loop, SQLAlchemy `AsyncSession`s (one per HTTP request), PostgreSQL at READ
COMMITTED with a schema per deployment and a tenant column. Every `await` of a
statement lets another request run, so the handlers interleave between
statements; what they share is the database.

**apps/producao** is the traceability API of a food producer: synchronous FastAPI
endpoints served by a thread pool over one in-memory `Store` of dictionaries,
plus an ingestion path for WhatsApp messages. Handlers interleave between
any two accesses to the store; there is no lock, no transaction and nothing
survives a restart.

**web/** holds a single-page application for the workshop (`web/oficinas`), the
producer's portal and the dashboard of the traceability API. One tab is one
thread, and what interleaves is its requests: an answer may find its page left,
mounted anew, open on something else, or belonging to another session. The
applications read through a query cache (TanStack Query) or, in the producer's
area, through plain `fetch` into local state, and keep their token in
`sessionStorage`, where a later login replaces it while requests sent with the
old one are still under way.

### Components

| component | state | operations | talks to | hard because |
|---|---|---|---|---|
| stock (`oficinas/modulos/estoque/service.py`) | `produto.estoque_atual`, `movimentacao_estoque` | `registrar_movimentacao`, catalogue CRUD, sheet imports | called by orders, sales, notes | read-modify-write without a row lock; autoflush takes row locks early; deadlocks; trail and stock must agree |
| service orders (`.../ordens_servico/service.py`) | `ordem_servico`, `item_os`, `historico_veiculo` | `abrir`, `adicionar_item`, `remover_item`, `atualizar_status`, `fechar`, `cancelar`, time sheets | stock | status and totals are read first and written last; items are read in a second SELECT; `remover_item` does half of its work |
| counter sales (`.../vendas/service.py`) | `venda`, `item_venda` | `criar` | stock | all lines or none |
| purchase notes (`.../estoque/rascunho_service.py`) | `rascunho_entrada`, `item_rascunho_entrada`, `entrada_nfe`, `mapeamento_fornecedor_produto` | `criar_rascunho`, `vincular_item`, `confirmar`, `cancelar`, `processar_entrada` | stock, catalogue | one note uploaded or confirmed twice; lines changing while they are read; the unique index on the key makes requests wait |
| customers and vehicles (`.../cadastros/service.py`) | `cliente`, `cliente_veiculo` | `vincular_veiculo`, `desassociar_veiculo`, imports | `shared/veiculo_global` | check-then-act on "the active owner" with no constraint behind it |
| vehicle registry (`oficinas/shared/veiculo_global`) | `veiculo`, `historico_veiculo` | `consultar`, `upsert`, `registrar_historico` | external plate service | upsert races to a unique index |
| accounts (`.../iam`, `core/security.py`) | `usuario` | login, create, update, password, deactivate | all routers | two sessions in one request; stale tokens; last administrator |
| WhatsApp agent (`oficinas/agente`) | `agente_sessao`, process memory | webhook, worker turns, tool calls, session save | every service through tools | tools commit inside a turn, the session is saved at its end: crash and duplicate delivery in between |
| cycles and events (`producao/services/cycle_service.py`, `routers/bff.py`) | `cycles`, `events`, `_lot_seq`, `audit_logs` | `create`, `transition`, `add_event`, `criar_atividade` | store | check-then-act over shared dictionaries; a counter read and written in steps |
| lots and portal (`producao/services/lot_service.py`, `routers/bff.py`, `routers/public.py`) | `lots`, `qr_accesses` | `generate`, `publish`, public page, `gerar_lote_portal` | cycles | the completeness check is separate from the write; the portal overwrites statuses |
| ingestion (`producao/ingestion`, `producao/db/queue.py`) | timers, buffers, rate windows, a PostgreSQL queue | `push`, `_flush`, `is_allowed`, `insert_message_batch`, `fetch_pending` | webhook | a timer races a new message; a failed insert loses the buffer |
| conversation (`producao/services/whatsapp_service.py`) | sessions, messages | the per-number state machine | cycles | long legal sequences of answers; an activity confirmed twice |
| auth of producao (`services/auth_service.py`, `main.py`) | `accounts`, `users` | register, login, create user, bootstrap | store | uniqueness by check-then-act |
| `app/` | - | earlier copy of `apps/producao` | - | - |
| garage tab (`web/oficinas/lib`, `routes/app.tsx`, `routes/login.tsx`) | token, route asked for and route shown, figures polled every minute | login, logout, menu, 401 event | all screens | a 401 belongs to the session that sent the request and hits the one that is there |
| query cache (`web/packages/shared`, TanStack Query) | per key: value, invalidation mark, the request under way | mount, read, receive, fail, invalidate, refetch | all screens of the garage, the lists of the dashboard | an answer that left the server before a write lands after it |
| page of an order (`routes/app/os/$osId.tsx`) | item form, dialogs, tabs, mutations of this mount | ten mutations, three lists | cache, orders | buttons are guarded by a cached status; answers reset forms opened since |
| new order (`routes/app/os/nova.tsx`) | vehicle, client, four ways to set them | search, pick, register, open | cadastros, orders | effects that select a client run after every change; answers in any order |
| review of a note (`routes/app/estoque/nfe-revisao.$rascunhoId.tsx`) | step, lines, supplier and product forms | link, create, confirm ("Concluir" is a loop of awaited writes), cancel, update | cache, notes | the loop works on a cached draft, may run twice, and survives its page; a failed read leaves an empty form that can be sent |
| products (`routes/app/estoque/index.tsx`) | page of the list, two forms, brand being registered | create, edit, import, register a brand | cache, catalogue | a brand is chosen in a form after two awaits, by when another form may be open |
| producer's portal (`web/portal`) | page, area with loads, form and cards, token | login, register an activity, close a harvest, public page | traceability API | nothing is cancelled: five reads awaited together, two accounts in one tab |
| dashboard (`web/dashboard`) | lists, a form in steps, token | list users every 30 s, register one, conversations | traceability API | a list read before a registration lands after it; the number of steps depends on a field |
| `packages/*`, `scripts/`, `docs/` | - | helpers, documents | - | - |

### What makes each one correct

- **Stock.** Only a negative quantity given back takes the stock below zero
  (quantities of parts are not checked, see section 4). The trail is "a fonte da verdade"
  (`apps/oficinas/migrations/002_tenant_schema.sql`): stock equals opening stock
  plus rows. Requests appear atomically. Every request is answered.
- **Orders.** A part on an order was reserved for it; closing turns reservations
  into outputs and leaves a record for the vehicle; cancelling gives everything
  back; final statuses are final; totals agree with each other.
- **Sales.** Whole or not at all.
- **Notes.** A key enters once; an entry is whole; a confirmed draft has no open
  line and shows what it brought in; a cancelled one brought nothing.
- **Cycles and lots.** RN-01 (a lot only from a complete protocol), RN-02 (codes
  never reused), RN-03 (corrections are linked amendments), RF-04 (the state
  machine), RF-06 (immutable public pages), all of `docs/dimata-requisitos.md`. RF-15
  (a log of every creation and change of status) is not met by the code, see section 4.
- **Garage screens.** A note is confirmed only when nothing in it is pending;
  what was added and answered is shown or will be read; a form shows and sends
  what belongs to its own record and never erases one; a session the server ended
  is noticed.
- **Portal and dashboard.** The producer's area shows no data of a session that was
  over when it was mounted, and while its own session is open only that one's; every wait
  ends; what a form in steps sends passed every step; a registered user appears
  in the list; "Tentar novamente" tries again.
- **Cadastros** (planned): one active owner per vehicle. **Agent** (planned): no
  tool effect is forgotten or repeated by the session history. **Ingestion**
  (planned): each accepted message reaches the queue once. **Conversation**
  (planned): one confirmed activity, one event.

## 2. Plan

| step | modules | status |
|---|---|---|
| 1 | `Estoque`: sessions, locks, movements | done, proved about |
| 2 | `OrdemServico`, `Vendas`, `RascunhoNfe` over it | done, proved about |
| 3 | `Oficina` composes them; `LivroEstoque` is the ledger it implements | done, refinement proved |
| 4 | `Ciclos`, `Lotes`, composed in `Producao`; `Vitrine` is what a reader of a QR code is promised | done, refinement proved |
| 5 | `Consultas`, `Sessao`, `TelaOS`, `RevisaoNfe`, `FichasRevisao`, `Produtos`, composed in `WebOficina` | done, proved about |
| 6 | `Portais`, `Portal`, `Painel`, composed in `WebPortais` | done, proved about |
| 7 | `NovaOS`: the form that opens an order | done, one run; its safe part still to be stated |
| 8 | `Ingestao`: debounce buffers and timers, rate window, queue; abstract FIFO of accepted messages. Runs: two numbers, three messages, failing inserts; liveness of the flush | planned |
| 9 | `Conversa`: the WhatsApp state machine over `Ciclos`; run: one number, duplicated SIDs | planned |
| 10 | `Cadastros` with the vehicle registry and `Iam`; run: two sessions, two clients, one vehicle | planned |
| 11 | `Agente`: turns, tool commits, crash, duplicate delivery, over the session history | planned |
| 12 | `Catalogo`: product CRUD and sheet imports that overwrite the stock; parser operators | planned |
| 13 | the cart of a sale and the start of the garage's application, beside `WebOficina` | planned |

Theorems still worth proving: every invariant the passing runs check is proved
(section 5); with step 7, the part of `DonoSelecionado` that holds; for step 8,
that a buffer and its timer exist together.

## 3. Modules and code

### 3.1 The workshop

`Estoque` is the shared part: the committed tables (`estoque`, `trilha`,
`porRef`) and, per session, what one HTTP request holds: `pedido` (what it
asked), `fase` (the next statement of its handler), `fila` (the movements still
to make), `lido`, `atual`, `sujos` (product rows as read, as changed, and which
ones), `travas` (row locks) and `linhas` (movement rows added). Rows are counted per
product: the quantities of each type, their number, and the `negativas`, rows that
give back a negative quantity.

| action | code |
|---|---|
| `Iniciar` | the handler's first SELECT and checks have passed |
| `RegistrarMovimentacao` | `EstoqueService.registrar_movimentacao`: the SELECT autoflushes earlier UPDATEs (taking their locks, waiting if another session has one), reads the row, computes, checks, adds the movement row |
| `EstoqueInsuficiente` | the exception of RESERVA; the session closes without commit |
| `Gravar` | `commit()`: remaining UPDATEs with absolute values, then the rows become visible |
| `VitimaDeadlock` | PostgreSQL ends one session of a cycle of waits |
| `Abortar` | cancellation, lost connection, crash |

`OrdemServico` has one request action per endpoint (`AdicionarItem`,
`RemoverItem`, `AtualizarStatus`, `Fechar`, `Cancelar`; `Abrir` is one INSERT),
`CarregarItens` for the second SELECT of `fechar` and `cancelar`, and one commit
action per endpoint. What the first SELECT returned (status, totals) is kept in
`pedido` and written at the commit. `ConcluirRemover` leaves the item row in
place, as the code does (`AsyncSession.delete` is never awaited).

`Vendas` has `CriarVenda` and `ConcluirVenda`.

`RascunhoNfe` splits `criar_rascunho` (key lookup / line matching / insert),
`vincular_item`, `confirmar` (draft / lines / INSERT of the entry / per line its
movement and its mapping / commit), `cancelar` and `processar_entrada`. `MapearLinha`
is `_upsert_mapeamento` of one line: from that statement on the session holds the
mapping row, and asks for further product rows with it. `EsperarMapeamento` is the
session that found the row held; `EsperasNfe` are its waits beside those for product
rows and for the key, and the cycles PostgreSQL breaks may mix all three. The INSERT of an entry waits while
another open session has inserted the same key and fails once it is committed,
as a unique index does.

`Oficina` is the disjunction of the three, each leaving the others' tables
alone. `LivroEstoque` knows no sessions: a step appends rows about one document,
and stock changes only with rows. It does not say that stock is the sum of the
rows, because concurrent requests break that.

### 3.2 Traceability

`Ciclos` has the store as sequences (a dictionary never deletes here, so an id is
a position): `ciclos`, `eventos`, the counter `seq`, the log `auditoria`; and per
thread `pedido`, `passo` (the next access to the store its handler will make),
`alvo` (the cycle in hand) and `lido` (the counter as read). `LerSeq`,
`GravarSeq`, `RelerSeq`, `SalvarCiclo` are `next_lot_seq` and the save in
`CycleService.create`; `PedirStatus`, `ConferirEtapas`, `GravarStatus` are
`transition`; `PedirEvento`, `MarcarAditado`, `SalvarEvento` are `add_event` and
the end of `criar_atividade`.

`Lotes` adds `lotes`, `acessos` and per thread `fila` (the open cycles the portal
listed), `lote` and `coletados` (the events as listed). `ConferirStatus`,
`ConferirLote`, `ListarEventos`, `SalvarLote`, `MarcarCiclo` are
`LotService.generate`; `Publicar` is `publish`; `AbrirPagina` is `GET /p/{hash}`;
`PedirPortal`, `ProximoCiclo`, `AvancarStatus`, `PublicarPortal` are
`gerar_lote_portal`, which runs `generate` in the middle.

`Producao` composes them and states the properties. A lot keeps what `SalvarLote` was
given: `snapshot` is the `snapshot_json` of the code, the events visible to the public
(`InstantaneoDe`); `eventos` is the list the handler had collected, the hidden ones
included, and stands for nothing stored: it is what the completeness check saw.
`Vitrine` is the promise to the public: a page, once shown, stays unchanged, and its
lot was made of a complete cycle.

### 3.3 The garage's screens

`Consultas` is one entry of the query cache as operators on a record: the value,
the mark `invalidateQueries` leaves, and at most one request, with the token it
was sent with and what the server read for it (`SemDado` until it has). Reading
(`Ler`) and landing (`Receber`) are separate, so an old answer can land late.
`Invalidar` has the library's three cases: an entry nobody shows is marked; one
on the screen is asked for anew and the answer under way is dropped; the very
first answer of an entry is kept.

`Sessao` has the tab: `tela` and `destino` are the route on the screen and the
one `navigate` asked for, which `Transicao` shows later (guarded by `beforeLoad`);
`NaoAutorizado` is the 401 event of `lib/api.ts` with the listener of
`routes/app.tsx`. A write of a screen is a numbered record in flight with the
token of the moment it left. It has four ends: answered, refused, done with the
answer lost, refused for want of a session.

| module | variables | actions |
|---|---|---|
| `TelaOS` | `ordem` (server), `consultasOS`, `formOS`, `vooOS`, `vistos` (history) | clicks `Adicionar`, `RemoverItem`, `MudarStatus`, `ConfirmarFechamento`, `Lancar`...; `RespostaOS` with `FormApos` (what onSuccess does to the page) and `Invalidadas` |
| `RevisaoNfe` | `rasc` (server), `consultaRev`, `formRev`, `vooRev` | `Concluir` starts the loop of `handleConcluir`: its rest travels in the request, `RespostaCriar` sends the next one or the confirmation; `Colega` is somebody else at the server |
| `FichasRevisao` | `fornecedor`, `painel`, `ficha`, `consultasFic`, `vooFic` | the supplier's form and the one form of a line's product: `Acompanhar` mounts and fills it as its entry arrives; `Atualizar` |
| `Produtos` | `ativos` (server), `consultasProd`, `telaProd`, `fichas`, `vooProd`, `relendo` | pages with `placeholderData`, `Abrir`, `Salvar`, `CadastrarMarca`, `MarcaEscolhida` after the awaited list of brands, `ImportarXlsx` |

`WebOficina` composes them: one screen at a time is mounted, and the answers of
all go on. A field of a form is known by where its value is from: the row of a
product and the form it was typed in, not by its text.

`NovaOS` stands alone: the form that opens an order is left only by opening one.
`Desenhar` runs the page's effects after every change, as React does.

### 3.4 Portal and dashboard

`Portais` is what both share: the check of the API behind everything
(`useApiHealth`), the login form, the token and its end. `Portal` has the pages
by number of mount: `Mostrar` takes one away and sends the requests of the next,
and an answer applies to the page whose number it carries (`DaArea`), which is
what the `cancelled` flag or an unmounted component amounts to. `Carga` is
`loadAtividades`, three reads awaited together; `Gravado` starts another one with
the token of that moment. `Painel` has the lists through `Consultas`, and the
form of a new user as a step and three flags: which parts are filled in.
A login waits for its answer wherever the browser is by then: `ParaArea` mounts the area
unless it is on the screen, where `navigate` to the same route leaves it as it is, with
the data and the `sessao` it was mounted with, under the new token. `WebPortais` is one
tab with one of the two applications.

### 3.5 Other files

`MC*` modules define the constants of the instances. Definitions marked "Mutant"
beside an operation are that operation with a plausible bug; no specification
uses them. They show that a property depends on the code: replaced in, the
property is violated.

## 4. Runs

`tlc -workers 2 -config X.cfg M`. `CHECK_DEADLOCK FALSE` everywhere: the number
of requests, writes and sessions is bounded, and when it is spent the system
stops.

### Runs that pass

| run | instance | shows |
|---|---|---|
| `nfe_concorrente` | 2 drafts, 2 files (with and without key), 2 products, 2 sessions, 6 requests; product and mapping rows are locked line by line | `ChaveEntraUmaVez`, `NotaEntraInteira`, `ConfirmadaSemPendente` |
| `oficina_concorrente` | one order over every endpoint, sales and a note on 2 products with one unit each, 2 sessions, 2 item ids, quantities 1 and -1, 5 requests | `NegativoExplicado` (stock below zero comes from a negative quantity given back, and from no race), `VendaInteira`, `ItemTemReserva` (item row and RESERVA row are committed together), `FechadaTemHistorico`, `SaldoAcompanhaTrilha` (stale reads are the only way stock and trail part) and `LivroSpec` (refinement of `LivroEstoque`) |
| `oficina_serial` | every endpoint, notes with and without key, 1 session, quantities 1 and -1, 6 requests | what holds when requests do not overlap: `TrilhaFecha`, `StatusTerminal`, `CanceladaLiberaTudo`, `CanceladaSemEntrada`, `ConfirmadaMostraEntrada` |
| `oficina_espera` | `DisputaSpec`: 2 sessions and 2 requests after the states of `InitDisputa`, an order with reserved parts and two drafts of one note that take their products in opposite orders | `TodoPedidoTermina`: waits for product rows, for mapping rows and for the unique index end, and their cycles are broken |
| `producao_concorrente` | 2 threads, 1 unit, 1 protocol, 2 steps of which one obligatory, 4 requests over all endpoints | `LoteCompleto` (RN-01), `AditamentoLigado` (RN-03), `VitrineSpec` (refinement of `Vitrine`), in spite of the races |
| `producao_serial` | 1 thread, 2 units sharing one sequence, 5 requests | `CodigoUnico` (RN-02), `LoteNoCiclo`, `SnapshotCompleto` (the snapshot is every visible event the cycle will ever have), `UmCicloLivre`, `MaquinaDeEstados` (RF-04): these hold one request at a time and break with two threads |
| `web_oficina` | 13 scenarios, see below; 2 lines of the note, 2 products at first, pages of 2 | `ConfirmaSemPendente`, `LeituraPropria`, `FichaDoProduto`, `CadastroPreservado`, `VencidaSai` |
| `web_portais` | 5 scenarios, see below; 2 units | `DadosDaSessao`, `EnviadoValido`, `EsperasTerminam`, `TentarVolta`, `CadastroAparece` |

The safety runs also check the type invariant of their composition (`TypeOkNfe`,
`TypeOk`); in the web ones it also says which parts of a page's state may exist
together: a form only on its screen, a wait only for a request in flight.

### Runs that show a disagreement

| run | property violated | what happens |
|---|---|---|
| `os_trilha_corrida` | `TrilhaFecha` | two additions of one part: the second commit overwrites the stock the first one wrote |
| `os_remover_peca` | `FechadaConverteReserva` | a removed part is released but its row stays, so closing takes it out again |
| `producao_codigo` | `CodigoUnico` | two threads pass the check for an existing lot and give two lots one code |
| `web_dono_errado` | `DonoSelecionado` | a vehicle registered while one client is selected stays in the form next to another one |

Met on the way and without a run of its own:

- `ItemOSAdd.quantidade` has no lower bound and `LIBERACAO` is not checked: a part of
  quantity -1 added to an order brings a unit more than there is; when that unit has been
  reserved for somebody else, removing the part leaves the stock at -1.
  `NegativoExplicado` says that this is the only way below zero.
- RF-15 asks for a log of "toda ação de criação, atualização de status e geração de
  lote" (`docs/dimata-requisitos.md`): the portal's status writes and the
  free cycles of activities (`routers/bff.py`) are not logged. No property
  speaks of the log.
- The same document calls a lot's snapshot "Cópia imutável do histórico completo";
  `_build_snapshot` drops the events that are hidden from the public.
- A portal login answered while the producer's area is on the screen navigates to the
  route that is already there: the area keeps the cards of the account before.
  `DadosDaSessao` says what holds, and of such an area only that its data is not older
  than its own session.
- `_tentar_match` never compares `cProd` with `produto.codigo`.
- Two concurrent additions lose a subtotal of the order.
- An update sent from the form of a supplier that could not be read erases its fields,
  so `CadastroPreservado` says so only while reads do not fail.
- "Tentar novamente" of the garage's own `routes/__root.tsx` shows the skeleton and asks
  nothing, so `TentarVolta` is about the other two applications.
- A brand sent in the edition of a product is not taken by the server.

### Bounds

- *Two sessions or threads.* Every race listed under `hazards` is between two
  handlers; locks are held by at most two of them in the smallest cycle of
  waits. The theorems cover any number.
- *Two products, one unit each.* One product makes stale reads possible, two
  make opposite lock orders and partly failed sales; with one unit each, two
  requests compete for the last one. `oficina_espera` has two of each, since one is
  reserved when it starts.
- *Quantities* of parts are 1 and -1 in the runs with orders: -1 is the case that
  nothing checks. `nfe_concorrente` has 1 and 2; `oficina_espera`, whose question is
  waiting, 1.
- *Requests* (`MaxPedidos`). A life cycle of an order that closes takes three or
  four (open, add, [remove], close), a note with an open line four (upload,
  link, confirm and a second request), a lot from the portal two (activity,
  portal) and from the endpoint six (create, event, three transitions,
  generate). The cycles of waits that need the longest past, two confirmations over
  mapping and product rows, or one beside the closing of an order, are reached by
  starting `oficina_espera` from `InitDisputa`, a state such requests lead to, and
  allowing two more. Safety at the longer ones is covered by the portal path, which
  drives a cycle through every status in one request, and by the theorems,
  whose `MaxPedidos` is any natural.
- *Scenarios of the screens* (`Roteiros` in `MCWebOficina`, `Cenarios` in
  `MCWebPortais`). A scenario bounds what the user of one behaviour does: the
  screens the menu leads to, the kinds of writes and how many, the sessions, the
  forms opened, and the cache entries whose reads may fail or be repeated. The
  interleaving inside a scenario is unrestricted. The product of all screens at
  once is out of reach and adds nothing: the screens share the session and the
  router, which every scenario has, and no cache entry. Two writes are enough
  for a late answer to meet a later state of its page, and three for the loop
  of a review (create, create, confirm) to run to its end; two loops at once are
  in the scenario with the colleague. Two forms opened one after the other are
  enough for an answer to find the wrong one. `MaxPaginas` is 2 with 2 products
  and pages of 2, so that one product created makes a second page.
- *Units of the portal.* Two in the scenario with two writes (one per unit, or
  two on one: a load sent after the first may land after the second's), one in
  the others. That scenario mounts the area once, so the link to a lot's report is
  followed in it only to the point where the reload is asked for; pages mounted one
  after another are the scenarios with two accounts and with an API that goes away.
- *Sessions that expire* (`vencem`, portal and dashboard). Every session of the
  dashboard's scenarios, none of the portal's: there the area of an account is followed
  by another's through logout, through "back" and through a login answered late, which
  the scenario with two accounts has. In `MCWebOficina` any session may expire. The
  theorems cover expiry everywhere.
- *Symmetry* is used for sessions, threads and interchangeable ids, and only in
  runs without liveness of their own (`SaldoAcompanhaTrilha`, `LivroSpec` and
  `VitrineSpec` are safety properties).

### Fairness

- `oficina_espera` (`Justica`): `WF_vars(AtenderPedido(s))`, the next statement of a handler
  whose request has arrived (the event loop runs handlers to their end), and
  `WF_vars(EncerrarCiclo(s))`, the detection of deadlocks (PostgreSQL's
  `deadlock_timeout`). No client has to send anything and nothing has to crash.
  Weak fairness suffices for a wait: the other session is not blocked by anyone
  outside the cycle, so its lock is released and nothing takes it again in
  between for ever, requests being bounded by `MaxPedidos`.
- `web_oficina`: weak for the router's transition and for the timer of
  `refetchInterval`, which the browser runs; strong for the answer to the home
  screen's request, since one may always fail and be asked for again: the network
  does not lose every one of infinitely many. The user has to do nothing.
- `web_portais`: weak for the portal's requests together, because `fetch` always
  settles, well or badly (which request, and how it ends, is left open), for the
  check of the API, which `AbortSignal.timeout` ends after five seconds, and for
  the timer of the users' list; strong for that list being read and received, as
  above.

## 5. Proofs

`tlapm X.tla`; backends Z3, Zenon and LS4. `Somas` holds facts about sums over
finite sets; `EstoqueProofs`, `OrdemServicoProofs` and `RascunhoNfeProofs` hold the
lemmas of their components, one per action and conjunct, that `OficinaProofs`
cites.

Assumptions about constants are those named in the modules, and what they stand
for is: ids and the value "none" differ from everything else (`EstoqueAssumption`,
`OrdemServicoAssumption`, `PedidoOSAssumption`, `VendasAssumption`,
`PedidoVendaAssumption`, `RascunhoNfeAssumption`, `PedidoNfeAssumption`,
`OficinaAssumption`, `LivreAssumption`, `FichasAssumption`), a request names finitely
many rows (`FinitosAssumption`, `LinhasAssumption`), and numbers are numbers
(`ProducaoAssumption`, `RoteirosAssumption`, `ProdutosAssumption`,
`PortaisAssumption`, `PortalAssumption`). The bounds of scenarios are any naturals in
them. Quantities are any integers where the code does not check them. Two hypotheses
are stated by the theorems that need them: `SessaoUnica` (one session of the database at
a time) and `UmaThread` (one request of the traceability API at a time). They are no assumptions about the deployment: they say what the code
guarantees when requests do not overlap. TLC violates each of those properties with
two sessions or two threads.

| theorem | statement | argument |
|---|---|---|
| `OrdemServicoProofs!TipoOS` | `SpecOS => []TypeOkOS` | inductive as it stands |
| `OrdemServicoProofs!HistoricoOS` | `SpecOS => []FechadaTemHistorico` | with the type invariant; `historico` never shrinks, and only `ConcluirFechar` writes FECHADA because `Transicoes` does not contain it |
| `OficinaProofs!HistoricoDaOficina` | the same for `Spec` | orders are not touched by the other services |
| `OficinaProofs!LinhasReservadas` | `Spec => []ItemTemReserva` | `InvDocumentos`, see below |
| `OficinaProofs!VendasInteiras` | `Spec => []VendaInteira` | `InvDocumentos` |
| `RascunhoNfeProofs!TipoNfe` | `SpecNfe => []TypeOkNfe` | `NfeConsistente` is part of it |
| `RascunhoNfeProofs!ChaveUnica`, `OficinaProofs!ChaveNaOficina` | `[]ChaveEntraUmaVez`, for `SpecNfe` and `Spec` | `ChavesReservadas`: who has inserted an entry and not committed holds its key |
| `RascunhoNfeProofs!ConfirmadaLigada`, `OficinaProofs!LigadaNaOficina` | `[]ConfirmadaSemPendente`, likewise | `LigadosAteOFim`: the lines of a draft that a session has checked stay linked, because a line never becomes pending again |
| `RascunhoNfeProofs!NotaInteira`, `OficinaProofs!NotasNaOficina` | `[]NotaEntraInteira`, likewise | `InvEntradas` and `SessoesEntrada`, see below |
| `OficinaProofs!Tipo` | `Spec => []TypeOk` | the sessions of all three modules; `NfeConsistente` ties what a session keeps to the rows it is about |
| `OficinaProofs!SaldoETrilha` | `Spec => SaldoAcompanhaTrilha` | needs `MemoriaConfere`: in every session, `atual - lido` of a product is the balance of its `linhas`, and a product that is not dirty has balance zero |
| `OficinaProofs!NegativoSoDevolvido` | `Spec => []NegativoExplicado` | `MemoriaExplicada`: the values sessions hold in memory are explained in the same way, by rows committed or by their own, whether or not they are stale |
| `OficinaProofs!TrilhaSerial` | with one session, `Spec => []TrilhaFecha` | `LeituraFresca`: nobody else commits between a read and a commit, so `lido` is the committed stock |
| `OficinaProofs!OficinaImplementaLivro` | `Spec => LivroSpec` | a commit is `Lancar` of its document, all other steps stutter; a negative quantity is a row like any other, and the ledger's clause about stock below zero follows from `MemoriaExplicada` |
| `OficinaProofs!FinaisFicam` | with one session, `Spec => StatusTerminal` | `PedidosAtuais`, see below |
| `OficinaProofs!CanceladaLibera` | with one session, `Spec => []CanceladaLiberaTudo` | `PedidosAtuais` and `LinhasReservadas`: a cancellation releases the lines it has read, they are all the lines, and they add up to the reservations. The property is about parts without a line of negative quantity: one of -1 released by `remover_item` undoes another |
| `OficinaProofs!NotaCancelada`, `OficinaProofs!NotaMostrada` | with one session, `Spec => []CanceladaSemEntrada` and `Spec => []ConfirmadaMostraEntrada` | `InvNfeSerial`: a draft under change is still pending, and the lines a confirmation has read are those of the draft |
| `ProducaoProofs!TipoCorreto` | `Spec => []TypeOk` | part of `IInv` |
| `ProducaoProofs!LotesCompletos` | `Spec => []LoteCompleto` | see below |
| `ProducaoProofs!AditamentosLigados` | `Spec => []AditamentoLigado` | with `IInv`; the thread between `MarcarAditado` and `SalvarEvento` is named by the property itself |
| `ProducaoProofs!CodigosUnicos`, `LotesNosCiclos`, `SnapshotsCompletos`, `CiclosLivresUnicos`, `MaquinaRespeitada` | with one thread: `CodigoUnico`, `LoteNoCiclo`, `SnapshotCompleto`, `UmCicloLivre`, `MaquinaDeEstados` | `InvUm`, see below |
| `ProducaoProofs!PaginasImplementamVitrine` | `Spec => VitrineSpec` | pages consist of fields that never change (`Cresce`), new ones are complete by `LotesCompletos` |
| `WebOficinaProofs!ConclusaoInteira` | `Spec => []ConfirmaSemPendente` | `InvRev`: every draft in the cache and every loop under way still has at least the lines pending at the server |
| `WebOficinaProofs!CadastroInteiro` | `Spec => []CadastroPreservado` | `InvFic` with `InvSessao`, see below |
| `WebOficinaProofs!ListaMostraAdicao` | `Spec => []LeituraPropria`, about pages that had their list when the addition was answered | `InvOS`: also what was read and has not landed yet holds the addition, and a write in flight has not been done |
| `WebOficinaProofs!FichaPropria` | `Spec => []FichaDoProduto` | `InvProd`: a brand under way has the number of one form at most, and if that form is open it is of the product the brand was registered for |
| `WebOficinaProofs!TiposDaOficina` | `Spec => []TypeOk` | `InvTipos` with `InvRev`, see below |
| `PortaisProofs!TiposDosPortais` | `Spec => []TypeOk` | `InvTipos` with `InvArea` and `InvForm`, see below |
| `PortaisProofs!CadastroValido` | `Spec => []EnviadoValido` | `InvForm`: the steps before the one on the screen are filled in, and the third one is the producer's |
| `PortaisProofs!SoDadosDaSessao` | `Spec => []DadosDaSessao` | `InvArea`: a request of the area on the screen has no token or one at least as new as the area's session, and what was read for it is of its account (`DadosDesde`); while the area's session is the open one, of that account |

**The inductive invariant of the traceability API.** `LoteCompleto` alone is not
inductive: a thread that stands before `SalvarLote` writes whatever it holds.
`IInv` adds `Preparado(t)`: what thread `t` has checked and will rely on is still
true now, for instance that `coletados[t]` covers the obligatory steps when it
stands before `salvarLote`. The difficulty is that other threads run between
check and write. `Cresce` says why it does no harm: no step of anybody removes an
entity, or changes the protocol of a cycle or the step of an event; so the steps a
cycle lacks only become fewer (`FaltandoDiminui`) and the facts of an idle thread
survive every step of the others (`OutraPilha`). Each action is then one lemma
with two halves: what it does to the store (`PassoLoja`) and to its own handler
(`PassoPilha`). This is also why the other properties of the component, which
speak of statuses and codes, fail with two threads: these do change.

With one thread they hold, and `InvUm` says why: what the handler has read is what
is there now (`Vez`). The counter it read is the counter; a cycle whose status it
checked has that status; the events it listed are all of the cycle's; a cycle it
is to give a lot has none. On the store's side the codes of the cycles differ
(`CodigosDosCiclos`), which `CodigoUnico` inherits because a lot takes the code of
its cycle and a cycle has one lot (`UmLotePorCiclo`). Neither half is inductive
alone: the store keeps its shape because `Vez` holds, `Vez` because nobody else
writes to the store.

**Documents of the garage.** `ItemTemReserva`, `VendaInteira` and
`NotaEntraInteira` compare two sums: the lines of a document, and the movement rows
that name it. A handler makes the rows one by one in an order of its own, so what
the invariant says is about the middle of it: `Contado(fila, linhas, plano)`, the rows
a session has added so far are the total of the part of its plan that is no longer in
its queue. At the commit the queue is empty and both sides grow by the whole plan; a
refusal, a deadlock or a crash drops both. `SessoesReserva`, `VendasContadas` and
`SessoesEntrada` say this of the three kinds of requests, and that no other request
makes rows of that type; `SessoesReserva` also that no two additions under way are
for the same line, `SessoesEntrada` that a confirmation has the lines it read for its
plan. `InvDocumentos` joins them with `ReservaConfere` (for orders the two sums are
equal, which is stronger than the property), `VendaInteira` and `InvEntradas` (each
note is its entry). Composition is then two facts about each service: its steps begin,
continue or end sessions of its own requests only (`PassoSessoes`), and change the
rows of its own documents only (`PassoRefs`).

*Sums.* `Somas` proves what these steps need of `SumFunctionOnSet`: adding or taking
away one element, changing one value, sums over images and over a partition. The
library defines the sum by a fold, and induction over the fold is beyond the
provers when the property is an operator; so `Descida` and `Subida` state induction
with the property as a set (the subsets that have it), and derive it from the
well-foundedness of the strict subset ordering (`WFMin`). That the fold is defined at
all (`SomaExiste`, `SomaUnica`) is proved the same way.

**Requests that do not overlap.** `StatusTerminal` and the properties of cancelled
and confirmed documents fail when the status a handler has read grows old before its
commit. `PedidosAtuais` and `InvNfeSerial` say that it does not: the order of a request
is open, its draft is pending, and the lines it has read are the lines. With
`SessaoUnica` the step of a session leaves no other session to invalidate.

`TravaExclusiva` (a row is locked by one session) is part of the invariant of the
garage.

**The screens.** A property of a screen is about now, and what breaks it is under
way: so each invariant says the same of the requests in flight.

- *Lines of a note.* `InvRev` bounds from below what the page believes: pending
  lines at the server only become fewer (`LinhasSeguem`), so a cached draft, a
  value read and not landed, and the rest of a loop all cover them. A confirmation
  is sent when that cover is empty. Without the clause about values not landed,
  `Receber` breaks it; without the one about loops, `RespostaCriar` does.
- *Additions to a list.* Of an entry, `n` is shown or the mark is there; of its
  request, what was read holds `n`. `InvalidarMostra` is the step that matters:
  when an addition is answered, the answer under way is dropped. It needs the
  list to be there already, which is why the property is about pages that had it.
- *Empty forms.* `InvSessao` (whoever is on the way to the login has no token) is
  needed because the supplier's form, still empty, is unlocked when its read ends
  in a 401: the update it can then send has no token (`InvFic`, last clause) and the
  server refuses it.
- *Forms and brands.* `Marcas` are the brands sent and those whose form waits for
  the list. Forms are numbered as they are opened, so a number above all of them
  is nobody's.
- *Sessions of the portal.* A request without token, or with that of a session that
  ended, cannot be read for. A login brings a new token, larger than all before, and
  mounts another area, whose number no request under way has; or it finds the area on
  the screen and leaves it, with number, data and `sessao` as they are. From then on the
  area's requests carry either token, so what is left is the bound from below: nothing
  in it is older than the session it was mounted with.
- *Types of the screens.* `TypeOk` of a web composition says which parts of a page's
  state may exist together, and what it says of a page depends on the requests under
  way. In the garage's application: a form waits for a write of its own page
  (`Esperas`), which needs that no two writes have one number (`VooCerto`); a loop of
  the review is known by the number of its first write; a login under way has a
  session left. In the portal: a page gets its account and its first load once
  (`PedidosCertos`), because they are sent when it is mounted and no other page has its
  number. Without that an account that failed after another was read would take the
  cards off and leave their state; `PrimeiraChega` is the lemma. A card waits for a
  write, or for the load that follows it, which has the same number
  (`CartoesEsperam`). In the dashboard: what a request has read is of the users
  registered, and only the form on the screen waits (`TipoPainel`). The bounds of the
  scenarios and `cenario.app` are used: the portal's steps take the token away, which
  the dashboard's screens would not survive.

**Only model-checked**: everything under fairness (`TodoPedidoTermina`,
`VencidaSai`, `EsperasTerminam`, `TentarVolta`, `CadastroAparece`), since neither
ENABLED nor liveness is in the prover's reach. `TypeOkOS` is the reverse: proved
(`TipoOS`), and no run repeats it.

## 6. Abstractions

*Workshop.* All unit prices are 1 and discounts 0; one tenant (row level
security does not apply to the superuser the deployment connects with); one
supplier with a CNPJ; the EAN and the reference code of a line are one flag.
Movement rows are their sums. The RESERVA and SAIDA of one line of a sale are
one step: nothing of the session is visible or locked between them that was not
before. A flush at the commit is atomic with it, and the two SELECTs of
`vincular_item` are merged, since a line that exists keeps its identity. Lock
waits on `ordem_servico` rows are not split off: those rows are written only at
the commit. A mapping row is locked by the upsert of its line, as in the code, and gets
its product at the commit, when others can read it; of two lines with one code either
may be the later one, since the lines are read in no particular order. Foreign keys
take KEY SHARE locks, which do not conflict with these
updates. `EstoqueInicial` is the sheet import, which brings stock without a
movement. A request that fails its first check changes nothing and is no action.
Ids are fresh (uuid4): an action takes one nobody uses.

*Traceability.* Accounts, ownership checks, images, hashes, dates and costs are
left out; units and protocols are constants. Each read or write of a repository
is a step (the GIL makes one dictionary operation atomic and guarantees nothing
beyond). Only PENDENTE and ADITADO are ever written to `status_validacao`, so
every event counts towards the protocol. The log is a set of (action, entity)
pairs; the portal's own status changes and the free cycles of activities are not
logged by the code. Publishing is one step: its writes are the same whoever
makes them, and a second call finds the status changed. A restart loses the
store altogether and starts again from `Init`; it is not an action.

*Screens.* A write and the server's handling of it are one step with its answer,
or with its loss: what the back end does in between is the subject of the modules
of part 3.1, of which the screens take the rules (`Aceita`, `AceitaRev`). A read is
two steps, because an old value landing late is what the properties are about.
One login is under way at a time. Retries of a query are part of its request: it
fails for good or it does not. Values of fields are what the properties tell apart
(filled in, erased, of which product), never text; the text typed into the forms of
the review is left out, and of the search of products that it leads to the first
page. Reading the list of brands anew is one step. A note without supplier stands
for itself in the scenarios without "ficha". Entries of the forms become stale only in
the scenarios whose `chaves` have "ficha". The list of units in the third step of the
dashboard's form is left out: it is optional. The producer's lists are sets of what
the writes made. A reload of the portal keeps `sessionStorage`.

## 7. Not modelled

- Catalogue, cadastros, vehicle registry, accounts, agent, ingestion,
  conversation: see the plan.
- `processar_entrada_xml` and `_upsert_produto` of `rascunho_service.py`/
  `estoque/service.py`: no route reaches them.
- Dashboards and listings: no state changes.
- `app/`: an earlier copy of `apps/producao`.
- `packages/*`: data classes and formatting; `scripts/`, `tests/`, migrations and
  deployment files.
- `web/`: the lists and single forms of clients, vehicles, suppliers, entries,
  brands and users of the garage, which follow the pattern of `Produtos` with less
  in it; the cart of a sale and the root's own health check (planned); the
  toolbar of the review that fills margin and brand of many lines; of the
  dashboard the records, settings, home figures and one conversation's
  messages, which only read; `packages/ui`, `theme` and the generated
  `schema.ts`, which have no behaviour.
