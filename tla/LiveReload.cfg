SPECIFICATION FairSpec
CONSTANTS
    Tabs = {t1}
    Conns = {c1, c2}
    Files = {dashboard, template, readme}
    Watched = {dashboard, template}
    Rendered = {dashboard, template}
    Dashboard = dashboard
    NoTab = NoTab
INVARIANTS TypeOK OutdatedIsNotified
PROPERTIES OutdatedReloads ClientsLeave
