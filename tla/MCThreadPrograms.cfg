CONSTANTS
  Threads = {t1, t2, t3, t4}
  Waiters = {w1, w2, w3}
  Posters = {p1}
  Posts = 3
  Sleepers = {s1, s2}
  Triggers = {t1, t2}
  post_amount = 2
  number_of_times_to_wait_per_sleeper = 4
  number_of_times_to_post_per_trigger = 2
  Limit = 1
SPECIFICATION ThreadPrograms
INVARIANTS NeverIllegal StableOrHandOver CountersTell WriteAlone AllAssertsHold TokensBounded DelayBounded NotifyAfterWait
PROPERTIES EventuallyJoined
