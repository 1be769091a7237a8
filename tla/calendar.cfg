SPECIFICATION Spec
CONSTANTS
    t1 = t1  t2 = t2
    Time = {t1, t2}
    MaxEvents = 3
    OutlookRows = {1, 2, 3, 4}
    OutlookEvents = {11, 12, 13, 14, 15}
    OutlookFaults = {"abort", "short", "late"}
    ExchangeRows = {1, 2, 3}
    Item = {11, 12, 13}
    Request = {p1}
    Listener = daemon
    Download = {daemon, command}
    ExchangeFaults = {"request", "download", "thread", "subscribe", "unsubscribe"}
    None = None
CHECK_DEADLOCK FALSE
INVARIANTS TypeOK CalendarsAgree NoDuplicates NoEcho ExchangeAgrees
PROPERTIES NoNeedlessCancel EchoesDie ExchangeSettles
