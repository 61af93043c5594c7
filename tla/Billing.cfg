SPECIFICATION Spec
CONSTANTS
    i1 = i1
    i2 = i2
    RON = RON
    EUR = EUR
    p1 = p1
    p2 = p2
    Blank = Blank
    Instances <- TwoInstances
    Times <- TwoTimes
    Values <- ThreeValues
    Prices <- TwoPrices
    Currencies <- TwoCurrencies
    FirstReadings <- TwoReadings
    LaterReadings <- OlderReading
    MaxReadings = 3
    MaxCalculations = 2
SYMMETRY Symmetry
INVARIANTS SavedAsShown PricesKept ForwardOnly BillsConnect
