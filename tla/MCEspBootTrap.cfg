\* The reset codes of hardware.json and one that it does not list, and a watchdog
\* that counts to four.
SPECIFICATION FairSpec
CONSTANTS
    Timeout = 1
    NominalPre = 2
    MaxPre = 3
    WordLimit = 16
    Reasons = {"watchdog", "brownout", "software", "power_on", "unknown"}
    Causes = {"tg0wdt", "tg1wdt", "rtcwdt_sys", "tg0wdt_cpu", "rtcwdt_cpu", "rtcwdt_rtc", "swd",
              "sw_sys", "sw_cpu", "poweron", "deepsleep", "brownout", "unlisted"}
    WatchdogCauses = {"tg0wdt", "tg1wdt", "rtcwdt_sys", "tg0wdt_cpu", "rtcwdt_cpu", "rtcwdt_rtc", "swd"}
    SoftwareCauses = {"sw_sys", "sw_cpu"}
    PowerCauses = {"poweron", "deepsleep"}
PROPERTY TrapIsReset
