SPECIFICATION Spec
CONSTANTS
    Configs <- ConfigSet
    FifoDepth = 2
    MaxEntries = 4
    MaxChanges = 3
    Irqs = {"rx_watermark", "rx_overflow"}
    Levels = {1, 30}
INVARIANTS
    SettingsKept
    BusInOrder
    BytesGenuine
    TimingKeepsStandard
CHECK_DEADLOCK FALSE
