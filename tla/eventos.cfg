\* One request whose event may be registered twice; three quotations; two
\* requests may fail.
SPECIFICATION EventosSpec
CONSTANTS
  Ids = {v1, v2}
  Cotizaciones = {q1, q2, q3}
  Paxes = {3}
  Duraciones = {2}
  Factores = {10}
  Productos = {7, 20}
  Costos = {23, 900}
  MaxEventosFaults = 2
  Null = null
  PaxPorBartender = 2
  TarifaBartender = 3
  TarifaHead = 5
  TarifaAsistente = 2
  HorasSetup = 1
  PaxHead = 2
  HorasAsistente = 1
  LogisticaLocal = 1
  HorasLogistica = 3
  TarifaKm = 1
  Peajes = 2
  Provincias = {"Tucuman", "Salta"}
  Km <- KmPorProvincia
SYMMETRY Symmetric
CHECK_DEADLOCK FALSE
INVARIANT QuoteStored
INVARIANT AuditedAtChoice
PROPERTY ChoiceStands
